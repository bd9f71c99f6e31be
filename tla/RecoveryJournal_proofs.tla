------------------------ MODULE RecoveryJournal_proofs -------------------------
(***************************************************************************)
(* Proofs about RecoveryJournal, for every set of attempts, every capacity,   *)
(* interval and bound, and any number of kills and power losses.  Every part   *)
(* of IInv speaks of all that a power loss may leave of a directory entry, so   *)
(* that losing power keeps it: Locked ties an invocation to its launch,        *)
(* Authority says where a prepared entry must stand, Truth that an end on the   *)
(* disk or in hand is the gateway's, Paired that an ended entry has its        *)
(* receipt, and Aged that a retention is no older than the receipt's sync.     *)
(***************************************************************************)
EXTENDS RecoveryJournal, TLAPS

\* The entries the disk shows are among those a power loss may leave; an invocation
\* has an attempt.
Shown ==
    /\ proc.at # "idle" => proc.attempt \in Attempt
    /\ \A a \in Attempt : secrets[a] \in secretsMay[a] /\ receipts[a] \in receiptsMay[a]

\* An invocation and the launch it belongs to; what a launch has not done yet.
Locked ==
    /\ proc.at \in {"publish", "syncPrepared"} <=> proc.op = "issue"
    /\ proc.op = "issue" => launch[proc.attempt] = "preparing"
    /\ proc.op = "finish" => launch[proc.attempt] = "closing" /\ proc.attempt \in Attempt
    /\ proc.at \notin {"idle", "publish", "syncPrepared"} =>
          launch[proc.attempt] \notin {"new", "preparing"}
    /\ \A a \in Attempt :
          /\ launch[a] = "preparing" => proc.op = "issue" /\ proc.attempt = a
          /\ launch[a] \in {"new", "preparing"} => service[a] = "none" /\ a \notin reported
          /\ launch[a] \in {"new", "preparing", "prepared"} => a \notin flying
          /\ launch[a] = "new" => \A s \in secretsMay[a] : s.state = "absent"

\* What may be live, or may be sent, can be ended.
Authority ==
    /\ proc.at = "syncPrepared" => secrets[proc.attempt].state = "prepared"
    /\ \A a \in Attempt :
          MayBeLive(a) \/ (launch[a] = "prepared" /\ service[a] = "none") =>
              \A s \in secretsMay[a] : s.state # "absent"

\* An end on the disk, or in the hand of the invocation, is what the gateway did.
Truth ==
    /\ proc.at \notin {"idle", "publish", "syncPrepared", "confirm"} =>
          proc.outcome \in Ended /\ service[proc.attempt] = proc.outcome
    /\ \A a \in Attempt :
          /\ \A s \in secretsMay[a] : s.state = "ended" => s.outcome \in Ended /\ service[a] = s.outcome
          /\ \A r \in receiptsMay[a] : r.number # 0 => r.outcome \in Ended /\ service[a] = r.outcome

\* An ended entry has its receipt, which is synced before and removed after it.
Paired ==
    /\ proc.at = "publishReceipt" => ~HasReceipt(proc.attempt)
    /\ proc.at = "syncReceipt" =>
          HasReceipt(proc.attempt) /\ receipts[proc.attempt].outcome = proc.outcome
    /\ proc.at \in {"anchor", "terminal", "replace", "age"} =>
          /\ HasReceipt(proc.attempt) /\ receipts[proc.attempt].outcome = proc.outcome
          /\ receiptsMay[proc.attempt] = {receipts[proc.attempt]}
    /\ proc.at \in {"terminal", "replace"} =>
          proc.retention.receipt = receipts[proc.attempt].number
    /\ proc.at \in {"checkSecret", "checkReceipt", "age", "syncTerminal"} =>
          secrets[proc.attempt].state = "ended"
    /\ proc.at = "syncUnlinked" => secrets[proc.attempt].state = "absent"
    /\ proc.at = "unlinkReceipt" =>
          \A s \in secretsMay[proc.attempt] : s.state = "absent"
    /\ \A a \in Attempt : \A s \in secretsMay[a] : s.state = "ended" =>
          /\ s.retention.receipt # 0
          /\ \A r \in receiptsMay[a] : r.number = s.retention.receipt /\ r.outcome = s.outcome

\* Retentions of this boot begin after the boot's first sync of the receipt.
Aged ==
    /\ \A a \in Attempt :
          /\ since[a] <= clock.now \/ since[a] = Unsynced
          /\ \A s \in secretsMay[a] :
                /\ s.retention.boot <= clock.boot
                /\ s.state = "ended" /\ s.retention.boot = clock.boot => since[a] <= s.retention.anchor
    /\ proc.at \in {"anchor", "age"} => since[proc.attempt] # Unsynced
    /\ proc.at \in {"terminal", "replace"} =>
          proc.retention.boot = clock.boot /\ since[proc.attempt] <= proc.retention.anchor
    /\ proc.at = "unlinkSecret" => clock.now >= since[proc.attempt] + Interval

IInv == TypeOK /\ Shown /\ Locked /\ Authority /\ Truth /\ Paired /\ ReportedIsDurable /\ Aged

-----------------------------------------------------------------------------
(* Lemmas on the records.                                                  *)

LEMMA NoneTyped == NoSecret \in Secret /\ NoReceipt \in Receipt /\ NoRetention \in Retention
  BY BoundsAssumption DEF NoSecret, Secret, NoReceipt, Receipt, NoRetention, Retention, NoOutcome

-----------------------------------------------------------------------------
(* What the steps do, in facts about single entries.                       *)

Procs == [at : Step, op : {"none", "issue", "finish", "recover", "prune"},
          attempt : Attempt \cup {"none"}, outcome : Ended \cup {NoOutcome},
          retention : Retention]
Launches == [Attempt -> {"new", "preparing", "prepared", "sent", "holding", "closing", "gone"}]

KeepsDisk == UNCHANGED <<secrets, secretsMay, receipts, receiptsMay, since>>
KeepsRest == UNCHANGED <<flying, service, clock, stamp, reported>>

\* The invocation goes on.
Moves(step) ==
    /\ proc' \in Procs /\ proc'.at = step
    /\ proc'.op = proc.op /\ proc'.attempt = proc.attempt
    /\ proc'.outcome = proc.outcome /\ proc'.retention = proc.retention
    /\ UNCHANGED launch

\* A new invocation.
Begins(step, op, a) ==
    /\ proc.at = "idle"
    /\ proc' \in Procs /\ proc'.at = step /\ proc'.op = op /\ proc'.attempt = a

\* The end of an invocation.
LeavesTo(next) ==
    /\ proc' \in Procs /\ proc'.at = "idle" /\ proc'.op = "none"
    /\ launch' \in Launches
    /\ \A b \in Attempt : launch'[b] = (IF proc.op \in {"issue", "finish"} /\ b = proc.attempt
                                        THEN next ELSE launch[b])

\* A change of an entry is one more thing that a power loss may leave.
PutsSecret(a, s) ==
    /\ s \in Secret
    /\ secrets' \in [Attempt -> Secret] /\ secretsMay' \in [Attempt -> SUBSET Secret]
    /\ \A b \in Attempt : secrets'[b] = (IF b = a THEN s ELSE secrets[b])
    /\ \A b \in Attempt : secretsMay'[b] = (IF b = a THEN secretsMay[b] \cup {s} ELSE secretsMay[b])
    /\ UNCHANGED <<receipts, receiptsMay, since>>

PutsReceipt(a, r) ==
    /\ r \in Receipt
    /\ receipts' \in [Attempt -> Receipt] /\ receiptsMay' \in [Attempt -> SUBSET Receipt]
    /\ \A b \in Attempt : receipts'[b] = (IF b = a THEN r ELSE receipts[b])
    /\ \A b \in Attempt : receiptsMay'[b] = (IF b = a THEN receiptsMay[b] \cup {r} ELSE receiptsMay[b])
    /\ UNCHANGED <<secrets, secretsMay, since>>

SettlesSecrets ==
    /\ secretsMay' \in [Attempt -> SUBSET Secret]
    /\ \A b \in Attempt : secretsMay'[b] = {secrets[b]}
    /\ UNCHANGED <<secrets, receipts, receiptsMay, since>>

SettlesReceipts ==
    /\ receiptsMay' \in [Attempt -> SUBSET Receipt] /\ since' \in [Attempt -> 0..Unsynced]
    /\ \A b \in Attempt : receiptsMay'[b] = {receipts[b]}
    /\ \A b \in Attempt : since'[b] = (IF HasReceipt(b) /\ since[b] = Unsynced
                                       THEN clock.now ELSE since[b])
    /\ UNCHANGED <<secrets, secretsMay, receipts>>

LEMMA GotoDoes ==
    ASSUME TypeOK, NEW step \in Step, Goto(step), UNCHANGED launch
    PROVE  Moves(step)
  BY DEF TypeOK, Goto, Moves, Procs

LEMMA LeaveDoes ==
    ASSUME TypeOK, Shown, proc.at # "idle", NEW next \in {"prepared", "gone"}, Leave(next)
    PROVE  LeavesTo(next)
<1>1. proc' \in Procs /\ proc'.at = "idle" /\ proc'.op = "none"
  BY NoneTyped DEF Leave, Idle, Procs, Step
<1>2. CASE proc.op \in {"issue", "finish"}
  BY <1>1, <1>2 DEF TypeOK, Shown, Leave, LeavesTo, Launches
<1>3. CASE proc.op \notin {"issue", "finish"}
  BY <1>1, <1>3 DEF TypeOK, Leave, LeavesTo, Launches
<1> QED
  BY <1>2, <1>3

LEMMA WriteSecretDoes ==
    ASSUME TypeOK, NEW a \in Attempt, NEW s \in Secret, WriteSecret(a, s)
    PROVE  PutsSecret(a, s)
  BY DEF TypeOK, WriteSecret, PutsSecret

LEMMA WriteReceiptDoes ==
    ASSUME TypeOK, NEW a \in Attempt, NEW r \in Receipt, WriteReceipt(a, r)
    PROVE  PutsReceipt(a, r)
  BY DEF TypeOK, WriteReceipt, PutsReceipt

LEMMA SyncSecretsDoes ==
    ASSUME TypeOK, SyncSecrets
    PROVE  SettlesSecrets
  BY DEF TypeOK, SyncSecrets, SettlesSecrets

LEMMA SyncReceiptsDoes ==
    ASSUME TypeOK, SyncReceipts
    PROVE  SettlesReceipts
  BY BoundsAssumption DEF TypeOK, SyncReceipts, SettlesReceipts, Unsynced

-----------------------------------------------------------------------------
(* The steps.                                                              *)

PrepareEffect(a) ==
    /\ launch[a] = "new" /\ secrets[a].state = "absent" /\ Begins("publish", "issue", a)
    /\ \E s : PutsSecret(a, s) /\ s.state = "absent" /\ s.retention = secrets[a].retention
    /\ launch' \in Launches
    /\ \A b \in Attempt : launch'[b] = (IF b = a THEN "preparing" ELSE launch[b])
    /\ KeepsRest

LEMMA PrepareDoes ==
    ASSUME TypeOK, NEW a \in Attempt, Prepare(a)
    PROVE  PrepareEffect(a)
<1> DEFINE s == [secrets[a] EXCEPT !.temps = @ \cup {"prepare"}]
<1>1. secrets[a] \in Secret /\ secrets[a].state = "absent"
  BY DEF TypeOK, Prepare, Unlocked
<1>2. s \in Secret /\ s.state = "absent" /\ s.retention = secrets[a].retention
  BY <1>1 DEF Secret
<1>3. PutsSecret(a, s)
  BY <1>2, WriteSecretDoes DEF Prepare, Unlocked
<1>4. Begins("publish", "issue", a)
  BY NoneTyped DEF Prepare, Unlocked, Begins, Step, Idle, Procs
<1>5. launch' \in Launches /\ \A b \in Attempt : launch'[b] = (IF b = a THEN "preparing" ELSE launch[b])
  BY DEF TypeOK, Prepare, Unlocked, Launches
<1> HIDE DEF s
<1> QED
  BY <1>2, <1>3, <1>4, <1>5 DEF Prepare, Unlocked, PrepareEffect, World, KeepsRest

PublishPreparedEffect ==
    /\ proc.at = "publish" /\ proc.attempt \in Attempt
    /\ \E s : PutsSecret(proc.attempt, s) /\ s.state = "prepared" /\ s.retention = secrets[proc.attempt].retention
    /\ Moves("syncPrepared") /\ KeepsRest

LEMMA PublishPreparedDoes ==
    ASSUME TypeOK, Shown, PublishPrepared
    PROVE  PublishPreparedEffect
<1> DEFINE a == proc.attempt
           s == [secrets[a] EXCEPT !.state = "prepared", !.temps = @ \ {"prepare"}]
<1>1. a \in Attempt /\ secrets[a] \in Secret
  BY DEF TypeOK, Shown, PublishPrepared, Secret
<1>2. s \in Secret /\ s.state = "prepared" /\ s.retention = secrets[proc.attempt].retention
  BY <1>1, NoneTyped DEF Secret, NoSecret
<1>3. PutsSecret(a, s)
  BY <1>1, <1>2, WriteSecretDoes DEF PublishPrepared
<1>4. Moves("syncPrepared")
  BY GotoDoes DEF PublishPrepared, Quiet, Step
<1> HIDE DEF s
<1> QED
  BY <1>1, <1>2, <1>3, <1>4 DEF PublishPrepared, PublishPreparedEffect, Quiet, World, KeepsRest

CommitTerminalEffect ==
    /\ proc.at = "terminal" /\ proc.attempt \in Attempt
    /\ \E s : PutsSecret(proc.attempt, s) /\ s.state = secrets[proc.attempt].state
           /\ s.outcome = secrets[proc.attempt].outcome
           /\ s.retention = secrets[proc.attempt].retention
    /\ Moves("replace") /\ KeepsRest

LEMMA CommitTerminalDoes ==
    ASSUME TypeOK, Shown, CommitTerminal
    PROVE  CommitTerminalEffect
<1> DEFINE a == proc.attempt
           s == [secrets[a] EXCEPT !.temps = @ \cup {"terminal"}]
<1>1. a \in Attempt /\ secrets[a] \in Secret
  BY DEF TypeOK, Shown, CommitTerminal, Secret
<1>2. s \in Secret /\ s.state = secrets[proc.attempt].state
           /\ s.outcome = secrets[proc.attempt].outcome
           /\ s.retention = secrets[proc.attempt].retention
  BY <1>1, NoneTyped DEF Secret, NoSecret
<1>3. PutsSecret(a, s)
  BY <1>1, <1>2, WriteSecretDoes DEF CommitTerminal
<1>4. Moves("replace")
  BY GotoDoes DEF CommitTerminal, Quiet, Step
<1> HIDE DEF s
<1> QED
  BY <1>1, <1>2, <1>3, <1>4 DEF CommitTerminal, CommitTerminalEffect, Quiet, World, KeepsRest

ReplaceEffect ==
    /\ proc.at = "replace" /\ proc.attempt \in Attempt
    /\ \E s : PutsSecret(proc.attempt, s) /\ s.state = "ended" /\ s.outcome = proc.outcome
           /\ s.retention = proc.retention
    /\ Moves("syncTerminal") /\ KeepsRest

LEMMA ReplaceDoes ==
    ASSUME TypeOK, Shown, Replace
    PROVE  ReplaceEffect
<1> DEFINE a == proc.attempt
           s == [state |-> "ended", outcome |-> proc.outcome, retention |-> proc.retention,
                 temps |-> secrets[a].temps \ {"terminal"}]
<1>1. /\ a \in Attempt /\ secrets[a].temps \subseteq {"prepare", "terminal"}
      /\ proc.outcome \in Ended \cup {NoOutcome} /\ proc.retention \in Retention
  BY DEF TypeOK, Shown, Replace, Secret
<1>2. s \in Secret /\ s.state = "ended" /\ s.outcome = proc.outcome
           /\ s.retention = proc.retention
  BY <1>1, NoneTyped DEF Secret, NoSecret
<1>3. PutsSecret(a, s)
  BY <1>1, <1>2, WriteSecretDoes DEF Replace
<1>4. Moves("syncTerminal")
  BY GotoDoes DEF Replace, Quiet, Step
<1> HIDE DEF s
<1> QED
  BY <1>1, <1>2, <1>3, <1>4 DEF Replace, ReplaceEffect, Quiet, World, KeepsRest

UnlinkSecretEffect ==
    /\ proc.at = "unlinkSecret" /\ proc.attempt \in Attempt
    /\ \E s : PutsSecret(proc.attempt, s) /\ s.state = "absent" /\ s.retention = NoRetention
    /\ Moves("syncUnlinked") /\ KeepsRest

LEMMA UnlinkSecretDoes ==
    ASSUME TypeOK, Shown, UnlinkSecret
    PROVE  UnlinkSecretEffect
<1> DEFINE a == proc.attempt
           s == [NoSecret EXCEPT !.temps = secrets[a].temps]
<1>1. a \in Attempt /\ secrets[a].temps \subseteq {"prepare", "terminal"}
  BY DEF TypeOK, Shown, UnlinkSecret, Secret
<1>2. s \in Secret /\ s.state = "absent" /\ s.retention = NoRetention
  BY <1>1, NoneTyped DEF Secret, NoSecret
<1>3. PutsSecret(a, s)
  BY <1>1, <1>2, WriteSecretDoes DEF UnlinkSecret
<1>4. Moves("syncUnlinked")
  BY GotoDoes DEF UnlinkSecret, Quiet, Step
<1> HIDE DEF s
<1> QED
  BY <1>1, <1>2, <1>3, <1>4 DEF UnlinkSecret, UnlinkSecretEffect, Quiet, World, KeepsRest

SyncPreparedEffect ==
    /\ proc.at = "syncPrepared" /\ proc.attempt \in Attempt
    /\ SettlesSecrets /\ LeavesTo("prepared")
    /\ KeepsRest

LEMMA SyncPreparedDoes ==
    ASSUME TypeOK, Shown, SyncPrepared
    PROVE  SyncPreparedEffect
<1>1. proc.at = "syncPrepared" /\ proc.attempt \in Attempt
  BY DEF Shown, SyncPrepared
<1>2. SettlesSecrets
  BY SyncSecretsDoes DEF SyncPrepared
<1>3. LeavesTo("prepared")
  BY <1>1, LeaveDoes DEF SyncPrepared, Quiet, Step
<1> QED
  BY <1>1, <1>2, <1>3 DEF SyncPrepared, SyncPreparedEffect, Quiet, World, KeepsRest

SyncTerminalEffect ==
    /\ proc.at = "syncTerminal" /\ proc.attempt \in Attempt
    /\ SettlesSecrets /\ LeavesTo("gone")
    /\ reported' \in {reported, reported \cup {proc.attempt}}
    /\ UNCHANGED <<flying, service, clock, stamp>>

LEMMA SyncTerminalDoes ==
    ASSUME TypeOK, Shown, SyncTerminal
    PROVE  SyncTerminalEffect
<1>1. proc.at = "syncTerminal" /\ proc.attempt \in Attempt
  BY DEF Shown, SyncTerminal
<1>2. SettlesSecrets
  BY SyncSecretsDoes DEF SyncTerminal
<1>3. LeavesTo("gone")
  BY <1>1, LeaveDoes DEF SyncTerminal, Quiet, Step
<1> QED
  BY <1>1, <1>2, <1>3 DEF SyncTerminal, SyncTerminalEffect, Quiet, World, KeepsRest

CheckSecretEffect ==
    /\ proc.at = "checkSecret" /\ proc.attempt \in Attempt
    /\ SettlesSecrets /\ Moves("checkReceipt")
    /\ KeepsRest

LEMMA CheckSecretDoes ==
    ASSUME TypeOK, Shown, CheckSecret
    PROVE  CheckSecretEffect
<1>1. proc.at = "checkSecret" /\ proc.attempt \in Attempt
  BY DEF Shown, CheckSecret
<1>2. SettlesSecrets
  BY SyncSecretsDoes DEF CheckSecret
<1>3. Moves("checkReceipt")
  BY <1>1, GotoDoes DEF CheckSecret, Quiet, Step
<1> QED
  BY <1>1, <1>2, <1>3 DEF CheckSecret, CheckSecretEffect, Quiet, World, KeepsRest

SyncUnlinkedEffect ==
    /\ proc.at = "syncUnlinked" /\ proc.attempt \in Attempt
    /\ SettlesSecrets /\ Moves("unlinkReceipt")
    /\ KeepsRest

LEMMA SyncUnlinkedDoes ==
    ASSUME TypeOK, Shown, SyncUnlinked
    PROVE  SyncUnlinkedEffect
<1>1. proc.at = "syncUnlinked" /\ proc.attempt \in Attempt
  BY DEF Shown, SyncUnlinked
<1>2. SettlesSecrets
  BY SyncSecretsDoes DEF SyncUnlinked
<1>3. Moves("unlinkReceipt")
  BY <1>1, GotoDoes DEF SyncUnlinked, Quiet, Step
<1> QED
  BY <1>1, <1>2, <1>3 DEF SyncUnlinked, SyncUnlinkedEffect, Quiet, World, KeepsRest

SyncReceiptEffect ==
    /\ proc.at = "syncReceipt" /\ proc.attempt \in Attempt
    /\ SettlesReceipts /\ Moves("anchor")
    /\ KeepsRest

LEMMA SyncReceiptDoes ==
    ASSUME TypeOK, Shown, SyncReceipt
    PROVE  SyncReceiptEffect
<1>1. proc.at = "syncReceipt" /\ proc.attempt \in Attempt
  BY DEF Shown, SyncReceipt
<1>2. SettlesReceipts
  BY SyncReceiptsDoes DEF SyncReceipt
<1>3. Moves("anchor")
  BY <1>1, GotoDoes DEF SyncReceipt, Quiet, Step
<1> QED
  BY <1>1, <1>2, <1>3 DEF SyncReceipt, SyncReceiptEffect, Quiet, World, KeepsRest

CheckReceiptEffect ==
    /\ proc.at = "checkReceipt" /\ proc.attempt \in Attempt
    /\ HasReceipt(proc.attempt) /\ receipts[proc.attempt].outcome = proc.outcome
    /\ SettlesReceipts /\ Moves("age")
    /\ KeepsRest

LEMMA CheckReceiptDoes ==
    ASSUME TypeOK, Shown, CheckReceipt
    PROVE  CheckReceiptEffect
<1>1. proc.at = "checkReceipt" /\ proc.attempt \in Attempt
  BY DEF Shown, CheckReceipt
<1>2. SettlesReceipts
  BY SyncReceiptsDoes DEF CheckReceipt
<1>3. Moves("age")
  BY <1>1, GotoDoes DEF CheckReceipt, Quiet, Step
<1> QED
  BY <1>1, <1>2, <1>3 DEF CheckReceipt, CheckReceiptEffect, Quiet, World, KeepsRest

SyncGoneEffect ==
    /\ proc.at = "syncGone" /\ proc.attempt \in Attempt
    /\ SettlesReceipts /\ LeavesTo("gone")
    /\ KeepsRest

LEMMA SyncGoneDoes ==
    ASSUME TypeOK, Shown, SyncGone
    PROVE  SyncGoneEffect
<1>1. proc.at = "syncGone" /\ proc.attempt \in Attempt
  BY DEF Shown, SyncGone
<1>2. SettlesReceipts
  BY SyncReceiptsDoes DEF SyncGone
<1>3. LeavesTo("gone")
  BY <1>1, LeaveDoes DEF SyncGone, Quiet, Step
<1> QED
  BY <1>1, <1>2, <1>3 DEF SyncGone, SyncGoneEffect, Quiet, World, KeepsRest

\* The gateway ends the attempt once and for all.
ConfirmEffect ==
    /\ proc.at = "confirm" /\ proc.attempt \in Attempt
    /\ service' \in [Attempt -> {"none", "issued"} \cup Ended]
    /\ service'[proc.attempt] \in Ended
    /\ service[proc.attempt] \in Ended => service'[proc.attempt] = service[proc.attempt]
    /\ \A b \in Attempt : b # proc.attempt => service'[b] = service[b]
    /\ \/ /\ proc' \in Procs /\ proc'.at = "receipt"
          /\ proc'.op = proc.op /\ proc'.attempt = proc.attempt
          /\ proc'.outcome = service'[proc.attempt] /\ proc'.retention = proc.retention
          /\ UNCHANGED launch
       \/ LeavesTo("gone")
    /\ KeepsDisk /\ UNCHANGED <<flying, clock, stamp, reported>>

LEMMA ConfirmDoes ==
    ASSUME TypeOK, Shown, Confirm
    PROVE  ConfirmEffect
<1> DEFINE a == proc.attempt
           end == EndOf(service[a])
<1>1. proc.at = "confirm" /\ a \in Attempt /\ service[a] \in {"none", "issued"} \cup Ended
  BY DEF TypeOK, Shown, Confirm
<1>2. end \in Ended /\ (service[a] \in Ended => end = service[a])
  BY <1>1 DEF EndOf, Ended
<1>3. service' = [service EXCEPT ![a] = end]
  BY DEF Confirm
<1>4. \/ proc' = [proc EXCEPT !.at = "receipt", !.outcome = end] /\ UNCHANGED launch
      \/ Leave("gone")
  BY DEF Confirm
<1>5. service' \in [Attempt -> {"none", "issued"} \cup Ended] /\ service'[a] = end
  BY <1>1, <1>2, <1>3 DEF TypeOK
<1>6. \A b \in Attempt : b # a => service'[b] = service[b]
  BY <1>3 DEF TypeOK
<1>7. KeepsDisk /\ UNCHANGED <<flying, clock, stamp, reported>>
  BY DEF Confirm, diskVars, KeepsDisk
<1> HIDE DEF end
<1>8. CASE proc' = [proc EXCEPT !.at = "receipt", !.outcome = end] /\ UNCHANGED launch
  <2>1. /\ proc' \in Procs /\ proc'.at = "receipt"
        /\ proc'.op = proc.op /\ proc'.attempt = proc.attempt
        /\ proc'.outcome = end /\ proc'.retention = proc.retention
    BY <1>2, <1>8 DEF TypeOK, Procs, Step
  <2> QED
    BY <1>1, <1>2, <1>5, <1>6, <1>7, <1>8, <2>1 DEF ConfirmEffect
<1>9. CASE Leave("gone")
  BY <1>1, <1>2, <1>5, <1>6, <1>7, <1>9, LeaveDoes DEF ConfirmEffect
<1> QED
  BY <1>4, <1>8, <1>9

\* A receipt that is found is synced; else a new one is begun.
CommitReceiptEffect ==
    /\ proc.at = "receipt" /\ proc.attempt \in Attempt /\ KeepsRest
    /\ \/ /\ HasReceipt(proc.attempt) /\ receipts[proc.attempt].outcome = proc.outcome
          /\ SettlesReceipts /\ Moves("anchor")
       \/ /\ ~HasReceipt(proc.attempt) /\ Moves("publishReceipt")
          /\ \E r : PutsReceipt(proc.attempt, r) /\ r.number = 0

LEMMA CommitReceiptDoes ==
    ASSUME TypeOK, Shown, CommitReceipt
    PROVE  CommitReceiptEffect
<1> DEFINE a == proc.attempt
           r == [receipts[a] EXCEPT !.temp = TRUE]
<1>1. proc.at = "receipt" /\ a \in Attempt /\ receipts[a] \in Receipt /\ UNCHANGED launch /\ KeepsRest
  BY DEF TypeOK, Shown, CommitReceipt, Quiet, World, KeepsRest
<1>2. CASE HasReceipt(a)
  <2>1. receipts[a].outcome = proc.outcome /\ SyncReceipts /\ Goto("anchor")
    BY <1>2 DEF CommitReceipt
  <2> QED
    BY <1>1, <1>2, <2>1, SyncReceiptsDoes, GotoDoes DEF CommitReceiptEffect, Step
<1>3. CASE ~HasReceipt(a)
  <2>1. r \in Receipt /\ r.number = 0
    BY <1>1, <1>3 DEF Receipt, HasReceipt
  <2>2. WriteReceipt(a, r) /\ Goto("publishReceipt")
    BY <1>3 DEF CommitReceipt
  <2>3. PutsReceipt(a, r) /\ Moves("publishReceipt")
    BY <1>1, <2>1, <2>2, WriteReceiptDoes, GotoDoes DEF Step
  <2> HIDE DEF r
  <2> QED
    BY <1>1, <1>3, <2>1, <2>3 DEF CommitReceiptEffect
<1> QED
  BY <1>2, <1>3

PublishReceiptEffect ==
    /\ proc.at = "publishReceipt" /\ proc.attempt \in Attempt
    /\ \E r : PutsReceipt(proc.attempt, r) /\ r.number # 0 /\ r.outcome = proc.outcome
    /\ Moves("syncReceipt")
    /\ stamp' \in [Attempt -> 0..MaxStamp]
    /\ UNCHANGED <<flying, service, clock, reported>>

LEMMA PublishReceiptDoes ==
    ASSUME TypeOK, Shown, PublishReceipt
    PROVE  PublishReceiptEffect
<1> DEFINE a == proc.attempt
           r == [number |-> stamp[a] + 1, outcome |-> proc.outcome, temp |-> FALSE]
<1>1. a \in Attempt /\ stamp[a] + 1 \in 1 .. MaxStamp /\ proc.outcome \in Ended \cup {NoOutcome}
  BY BoundsAssumption DEF TypeOK, Shown, PublishReceipt
<1>2. r \in Receipt /\ r.number # 0 /\ r.outcome = proc.outcome
  BY <1>1, BoundsAssumption DEF Receipt
<1>3. PutsReceipt(a, r)
  BY <1>1, <1>2, WriteReceiptDoes DEF PublishReceipt
<1>4. Moves("syncReceipt")
  BY GotoDoes DEF PublishReceipt, Step
<1>5. stamp' \in [Attempt -> 0..MaxStamp]
  BY <1>1, BoundsAssumption DEF PublishReceipt, TypeOK
<1> HIDE DEF r
<1> QED
  BY <1>1, <1>2, <1>3, <1>4, <1>5 DEF PublishReceipt, PublishReceiptEffect

UnlinkReceiptEffect ==
    /\ proc.at = "unlinkReceipt" /\ proc.attempt \in Attempt
    /\ \E r : PutsReceipt(proc.attempt, r) /\ r.number = 0
    /\ Moves("syncGone") /\ KeepsRest

LEMMA UnlinkReceiptDoes ==
    ASSUME TypeOK, Shown, UnlinkReceipt
    PROVE  UnlinkReceiptEffect
<1> DEFINE a == proc.attempt
           r == [NoReceipt EXCEPT !.temp = receipts[a].temp]
<1>1. a \in Attempt /\ receipts[a].temp \in BOOLEAN
  BY DEF TypeOK, Shown, UnlinkReceipt, Receipt
<1>2. r \in Receipt /\ r.number = 0
  BY <1>1, NoneTyped DEF Receipt, NoReceipt
<1>3. PutsReceipt(a, r)
  BY <1>1, <1>2, WriteReceiptDoes DEF UnlinkReceipt
<1>4. Moves("syncGone")
  BY GotoDoes DEF UnlinkReceipt, Quiet, Step
<1> HIDE DEF r
<1> QED
  BY <1>1, <1>2, <1>3, <1>4 DEF UnlinkReceipt, UnlinkReceiptEffect, Quiet, World, KeepsRest

\* An error removes the invocation's own temporary and syncs the directory.
CleanUpEffect ==
    /\ proc.attempt \in Attempt /\ LeavesTo("gone") /\ KeepsRest
    /\ \/ /\ proc.at = "publishReceipt"
          /\ receipts' \in [Attempt -> Receipt] /\ receiptsMay' \in [Attempt -> SUBSET Receipt]
          /\ \A b \in Attempt : /\ receiptsMay'[b] = {receipts'[b]}
                                /\ receipts'[b].number = receipts[b].number
                                /\ receipts'[b].outcome = receipts[b].outcome
          /\ UNCHANGED <<secrets, secretsMay, since>>
       \/ /\ proc.at = "replace"
          /\ secrets' \in [Attempt -> Secret] /\ secretsMay' \in [Attempt -> SUBSET Secret]
          /\ \A b \in Attempt : /\ secretsMay'[b] = {secrets'[b]}
                                /\ secrets'[b].state = secrets[b].state
                                /\ secrets'[b].outcome = secrets[b].outcome
                                /\ secrets'[b].retention = secrets[b].retention
          /\ UNCHANGED <<receipts, receiptsMay, since>>

LEMMA CleanUpDoes ==
    ASSUME TypeOK, Shown, CleanUp
    PROVE  CleanUpEffect
<1> DEFINE a == proc.attempt
<1>1. /\ proc.at # "idle" /\ a \in Attempt /\ proc.at \in {"publishReceipt", "replace"}
      /\ Leave("gone") /\ KeepsRest
  BY DEF Shown, CleanUp, World, KeepsRest
<1>2. LeavesTo("gone")
  BY <1>1, LeaveDoes
<1>3. CASE proc.at = "publishReceipt"
  <2>1. receipts[a] \in Receipt /\ receipts \in [Attempt -> Receipt]
    BY <1>1 DEF TypeOK
  <2>2. /\ receipts' = [receipts EXCEPT ![a].temp = FALSE]
        /\ receiptsMay' = [b \in Attempt |-> {receipts'[b]}]
        /\ UNCHANGED <<secrets, secretsMay, since>>
    BY <1>3 DEF CleanUp
  <2>3. \A b \in Attempt : receipts'[b] = (IF b = a THEN [receipts[a] EXCEPT !.temp = FALSE] ELSE receipts[b])
    BY <2>1, <2>2
  <2>4. \A b \in Attempt : /\ receipts'[b] \in Receipt
                           /\ receipts'[b].number = receipts[b].number
                           /\ receipts'[b].outcome = receipts[b].outcome
    BY <2>1, <2>3 DEF Receipt
  <2>5. receipts' \in [Attempt -> Receipt] /\ receiptsMay' \in [Attempt -> SUBSET Receipt]
    BY <2>1, <2>2, <2>4
  <2>6. \A b \in Attempt : receiptsMay'[b] = {receipts'[b]}
    BY <2>2
  <2>7. UNCHANGED <<secrets, secretsMay, since>>
    BY <2>2
  <2> QED
    BY <1>1, <1>2, <1>3, <2>4, <2>5, <2>6, <2>7 DEF CleanUpEffect
<1>4. CASE proc.at = "replace"
  <2>1. secrets[a] \in Secret /\ secrets \in [Attempt -> Secret]
    BY <1>1 DEF TypeOK
  <2>2. /\ secrets' = [secrets EXCEPT ![a].temps = @ \ {"terminal"}]
        /\ secretsMay' = [b \in Attempt |-> {secrets'[b]}]
        /\ UNCHANGED <<receipts, receiptsMay, since>>
    BY <1>4 DEF CleanUp
  <2>3. \A b \in Attempt : secrets'[b] = (IF b = a THEN [secrets[a] EXCEPT !.temps = @ \ {"terminal"}]
                                          ELSE secrets[b])
    BY <2>1, <2>2
  <2>4. \A b \in Attempt : /\ secrets'[b] \in Secret
                           /\ secrets'[b].state = secrets[b].state
                           /\ secrets'[b].outcome = secrets[b].outcome
                           /\ secrets'[b].retention = secrets[b].retention
    BY <2>1, <2>3 DEF Secret
  <2>5. secrets' \in [Attempt -> Secret] /\ secretsMay' \in [Attempt -> SUBSET Secret]
    BY <2>1, <2>2, <2>4
  <2>6. \A b \in Attempt : secretsMay'[b] = {secrets'[b]}
    BY <2>2
  <2>7. UNCHANGED <<receipts, receiptsMay, since>>
    BY <2>2
  <2> QED
    BY <1>1, <1>2, <1>4, <2>4, <2>5, <2>6, <2>7 DEF CleanUpEffect
<1> QED
  BY <1>1, <1>3, <1>4

\* The retention of an invocation whose receipt is durable.
Retained(ret) ==
    /\ ret \in Retention
    /\ ret.receipt = receipts[proc.attempt].number
    /\ ret.boot = clock.boot
    /\ \/ ret.anchor = clock.now
       \/ secrets[proc.attempt].state = "ended" /\ ret = secrets[proc.attempt].retention

LEMMA NextRetentionDoes ==
    ASSUME TypeOK, proc.attempt \in Attempt, HasReceipt(proc.attempt), RetentionMatches(proc.attempt)
    PROVE  Retained(NextRetention(proc.attempt))
<1> DEFINE a == proc.attempt
<1>1. CASE secrets[a].state = "ended" /\ secrets[a].retention.boot = clock.boot
  BY <1>1 DEF TypeOK, NextRetention, RetentionMatches, Secret, Retained
<1>2. CASE ~(secrets[a].state = "ended" /\ secrets[a].retention.boot = clock.boot)
  <2>1. receipts[a].number \in 0..MaxStamp /\ clock.boot \in 0..MaxBoot /\ clock.now \in 0..MaxClock
    BY BoundsAssumption DEF TypeOK, Receipt
  <2> QED
    BY <1>2, <2>1 DEF NextRetention, Retention, Retained
<1> QED
  BY <1>1, <1>2

\* On to the terminal entry, with a retention.
Retains(ret) ==
    /\ proc' \in Procs /\ proc'.at = "terminal"
    /\ proc'.op = proc.op /\ proc'.attempt = proc.attempt
    /\ proc'.outcome = proc.outcome /\ proc'.retention = ret
    /\ UNCHANGED launch

LEMMA RetainDoes ==
    ASSUME TypeOK, NEW ret \in Retention, UNCHANGED launch,
           proc' = [proc EXCEPT !.at = "terminal", !.retention = ret]
    PROVE  Retains(ret)
  BY DEF TypeOK, Retains, Procs, Step

AnchorEffect ==
    /\ proc.at = "anchor" /\ proc.attempt \in Attempt
    /\ \E ret : Retained(ret) /\ Retains(ret)
    /\ KeepsDisk /\ KeepsRest

LEMMA AnchorDoes ==
    ASSUME TypeOK, Shown, Paired, Anchor
    PROVE  AnchorEffect
<1> DEFINE ret == NextRetention(proc.attempt)
<1>1. /\ proc.at = "anchor" /\ proc.attempt \in Attempt
      /\ HasReceipt(proc.attempt) /\ RetentionMatches(proc.attempt)
  BY DEF Shown, Paired, Anchor
<1>2. Retained(ret)
  BY <1>1, NextRetentionDoes
<1>3. proc' = [proc EXCEPT !.at = "terminal", !.retention = ret] /\ UNCHANGED launch
  BY DEF Anchor, Quiet
<1> HIDE DEF ret
<1>4. Retains(ret)
  BY <1>2, <1>3, RetainDoes DEF Retained
<1> QED
  BY <1>1, <1>2, <1>4 DEF Anchor, AnchorEffect, Quiet, World, KeepsRest, KeepsDisk, diskVars

\* A new boot restarts the retention; otherwise age decides.
CheckAgeEffect ==
    /\ proc.at = "age" /\ proc.attempt \in Attempt
    /\ \/ \E ret : Retained(ret) /\ Retains(ret)
       \/ /\ secrets[proc.attempt].retention.boot = clock.boot
          /\ clock.now >= secrets[proc.attempt].retention.anchor + Interval
          /\ Moves("unlinkSecret")
       \/ LeavesTo("gone")
    /\ KeepsDisk /\ KeepsRest

LEMMA CheckAgeDoes ==
    ASSUME TypeOK, Shown, Paired, CheckAge
    PROVE  CheckAgeEffect
<1> DEFINE ret == NextRetention(proc.attempt)
<1>1. /\ proc.at = "age" /\ proc.attempt \in Attempt /\ KeepsDisk /\ KeepsRest
      /\ HasReceipt(proc.attempt) /\ RetentionMatches(proc.attempt)
      /\ secrets[proc.attempt].state = "ended"
  BY DEF Shown, Paired, CheckAge, World, KeepsRest, KeepsDisk, diskVars
<1>2. Retained(ret)
  BY <1>1, NextRetentionDoes
<1>3. CASE ret.boot # secrets[proc.attempt].retention.boot
  <2>1. proc' = [proc EXCEPT !.at = "terminal", !.retention = ret] /\ UNCHANGED launch
    BY <1>3 DEF CheckAge
  <2> HIDE DEF ret
  <2>2. Retains(ret)
    BY <1>2, <2>1, RetainDoes DEF Retained
  <2> QED
    BY <1>1, <1>2, <2>2 DEF CheckAgeEffect
<1>4. CASE /\ ret.boot = secrets[proc.attempt].retention.boot
           /\ clock.now >= ret.anchor + Interval
  <2>1. ret = secrets[proc.attempt].retention /\ secrets[proc.attempt].retention.boot = clock.boot
    BY <1>1, <1>2, <1>4 DEF NextRetention, Retained
  <2>2. Goto("unlinkSecret") /\ UNCHANGED launch
    BY <1>4 DEF CheckAge
  <2>3. Moves("unlinkSecret")
    BY <2>2, GotoDoes DEF Step
  <2> HIDE DEF ret
  <2> QED
    BY <1>1, <1>4, <2>1, <2>3 DEF CheckAgeEffect
<1>5. CASE /\ ret.boot = secrets[proc.attempt].retention.boot
           /\ ~(clock.now >= ret.anchor + Interval)
  <2>1. Leave("gone")
    BY <1>5 DEF CheckAge
  <2> QED
    BY <1>1, <2>1, LeaveDoes DEF CheckAgeEffect
<1> QED
  BY <1>3, <1>4, <1>5

FailEffect == proc.at # "idle" /\ LeavesTo("gone") /\ KeepsDisk /\ KeepsRest

LEMMA FailDoes ==
    ASSUME TypeOK, Shown, Fail
    PROVE  FailEffect
  BY LeaveDoes DEF Fail, FailEffect, World, KeepsRest, KeepsDisk, diskVars

\* A launch goes on by itself.
Advances(a, from, to) ==
    /\ launch[a] \in from /\ proc.attempt # a
    /\ launch' \in Launches
    /\ \A b \in Attempt : launch'[b] = (IF b = a THEN to ELSE launch[b])
    /\ KeepsDisk /\ UNCHANGED <<proc, service, clock, stamp, reported>>

SendRegisterEffect(a) == Advances(a, {"prepared"}, "sent") /\ flying' = flying \cup {a}
CloseEffect(a) == Advances(a, {"sent", "holding"}, "closing") /\ flying' = flying
KillLaunchEffect(a) ==
    Advances(a, {"prepared", "sent", "holding", "closing"}, "gone") /\ flying' = flying

LEMMA LaunchDoes ==
    ASSUME TypeOK, NEW a \in Attempt
    PROVE  /\ SendRegister(a) => SendRegisterEffect(a)
           /\ Close(a) => CloseEffect(a)
           /\ KillLaunch(a) => KillLaunchEffect(a)
  BY DEF TypeOK, SendRegister, Close, KillLaunch, LaunchStep, Advances, Launches, KeepsDisk,
      diskVars, SendRegisterEffect, CloseEffect, KillLaunchEffect

DeliverEffect(a) ==
    /\ a \in flying /\ flying' = flying \ {a}
    /\ service' \in [Attempt -> {"none", "issued"} \cup Ended]
    /\ service'[a] = service[a] \/ (service[a] = "none" /\ service'[a] = "issued")
    /\ launch' \in Launches
    /\ launch'[a] = launch[a] \/ (launch[a] = "sent" /\ launch'[a] \in {"holding", "closing"})
    /\ \A b \in Attempt : b # a => service'[b] = service[b] /\ launch'[b] = launch[b]
    /\ KeepsDisk /\ UNCHANGED <<proc, clock, stamp, reported>>

LEMMA DeliverDoes ==
    ASSUME TypeOK, NEW a \in Attempt, Deliver(a)
    PROVE  DeliverEffect(a)
<1>1. PICK issues, replies \in BOOLEAN :
         /\ issues => service[a] = "none"
         /\ service' = IF issues THEN [service EXCEPT ![a] = "issued"] ELSE service
         /\ launch' = IF launch[a] # "sent" THEN launch
                      ELSE [launch EXCEPT ![a] = IF issues /\ replies THEN "holding"
                                                 ELSE "closing"]
  BY DEF Deliver
<1>2. /\ service' \in [Attempt -> {"none", "issued"} \cup Ended]
      /\ service'[a] = service[a] \/ (service[a] = "none" /\ service'[a] = "issued")
      /\ \A b \in Attempt : b # a => service'[b] = service[b]
  BY <1>1 DEF TypeOK
<1>3. /\ launch' \in Launches
      /\ launch'[a] = launch[a] \/ (launch[a] = "sent" /\ launch'[a] \in {"holding", "closing"})
      /\ \A b \in Attempt : b # a => launch'[b] = launch[b]
  BY <1>1 DEF TypeOK, Launches
<1> QED
  BY <1>2, <1>3 DEF Deliver, DeliverEffect, KeepsDisk, diskVars

RecoverEffect(a, op) ==
    /\ secrets[a].state # "absent" /\ (op = "finish" => launch[a] = "closing")
    /\ Begins("confirm", op, a)
    /\ KeepsDisk /\ UNCHANGED launch /\ KeepsRest

LEMMA RecoverDoes ==
    ASSUME TypeOK, NEW a \in Attempt, NEW op \in {"finish", "recover"}, Recover(a, op)
    PROVE  RecoverEffect(a, op)
<1>1. Begins("confirm", op, a)
  BY NoneTyped DEF Recover, Unlocked, Begins, Step, Idle, Procs
<1> QED
  BY <1>1 DEF Recover, Unlocked, RecoverEffect, Quiet, World, KeepsRest, KeepsDisk, diskVars

PruneEffect(a) ==
    /\ secrets[a].state = "ended"
    /\ Begins("checkSecret", "prune", a) /\ proc'.outcome = secrets[a].outcome
    /\ KeepsDisk /\ UNCHANGED launch /\ KeepsRest

LEMMA PruneDoes ==
    ASSUME TypeOK, NEW a \in Attempt, Prune(a)
    PROVE  PruneEffect(a)
<1>1. secrets[a].outcome \in Ended \cup {NoOutcome}
  BY DEF TypeOK, Secret
<1>2. Begins("checkSecret", "prune", a) /\ proc'.outcome = secrets[a].outcome
  BY <1>1, NoneTyped DEF Prune, Unlocked, Begins, Step, Idle, Procs
<1> QED
  BY <1>2 DEF Prune, Unlocked, PruneEffect, Quiet, World, KeepsRest, KeepsDisk, diskVars

TickEffect ==
    /\ clock' \in [boot : 1..MaxBoot, now : 0..MaxClock]
    /\ clock'.boot = clock.boot /\ clock'.now = clock.now + 1
    /\ KeepsDisk /\ UNCHANGED <<proc, launch, flying, service, stamp, reported>>

LEMMA TickDoes ==
    ASSUME TypeOK, Tick
    PROVE  TickEffect
<1>1. /\ clock' \in [boot : 1..MaxBoot, now : 0..MaxClock]
      /\ clock'.boot = clock.boot /\ clock'.now = clock.now + 1
  BY BoundsAssumption DEF TypeOK, Tick
<1> QED
  BY <1>1 DEF Tick, TickEffect, KeepsDisk, diskVars, worldVars

\* A power loss leaves for each entry something it may leave.
PowerLossEffect ==
    /\ \A b \in Attempt : secrets'[b] \in secretsMay[b] /\ secretsMay'[b] = {secrets'[b]}
    /\ \A b \in Attempt : receipts'[b] \in receiptsMay[b] /\ receiptsMay'[b] = {receipts'[b]}
    /\ secrets' \in [Attempt -> Secret] /\ secretsMay' \in [Attempt -> SUBSET Secret]
    /\ receipts' \in [Attempt -> Receipt] /\ receiptsMay' \in [Attempt -> SUBSET Receipt]
    /\ proc' \in Procs /\ proc'.at = "idle" /\ proc'.op = "none" /\ flying' = {}
    /\ launch' \in Launches
    /\ \A b \in Attempt : launch'[b] = (IF launch[b] = "new" THEN "new" ELSE "gone")
    /\ since' \in [Attempt -> 0..Unsynced] /\ \A b \in Attempt : since'[b] = Unsynced
    /\ clock' \in [boot : 1..MaxBoot, now : 0..MaxClock]
    /\ clock'.boot = clock.boot + 1 /\ clock'.now = 0
    /\ UNCHANGED <<service, stamp, reported>>

LEMMA PowerLossDoes ==
    ASSUME TypeOK, PowerLoss
    PROVE  PowerLossEffect
<1>1. \A b \in Attempt : secrets'[b] \in secretsMay[b] /\ receipts'[b] \in receiptsMay[b]
  BY DEF PowerLoss
<1>2. \A b \in Attempt : secrets'[b] \in Secret /\ receipts'[b] \in Receipt
  <2>1. \A b \in Attempt : secretsMay[b] \in SUBSET Secret /\ receiptsMay[b] \in SUBSET Receipt
    BY DEF TypeOK
  <2> QED
    BY <1>1, <2>1
<1>3. secrets' \in [Attempt -> Secret] /\ receipts' \in [Attempt -> Receipt]
  <2>1. /\ secrets' = [b \in Attempt |-> secrets'[b]]
        /\ receipts' = [b \in Attempt |-> receipts'[b]]
    BY DEF PowerLoss
  <2> QED
    BY <1>2, <2>1
<1>4. secretsMay' = [a \in Attempt |-> {secrets'[a]}] /\ receiptsMay' = [a \in Attempt |-> {receipts'[a]}]
  BY DEF PowerLoss
<1>5. secretsMay' \in [Attempt -> SUBSET Secret] /\ receiptsMay' \in [Attempt -> SUBSET Receipt]
  BY <1>2, <1>4
<1>6. \A b \in Attempt : secretsMay'[b] = {secrets'[b]} /\ receiptsMay'[b] = {receipts'[b]}
  BY <1>4
<1>7. /\ launch' \in Launches
      /\ \A b \in Attempt : launch'[b] = (IF launch[b] = "new" THEN "new" ELSE "gone")
  <2>1. launch' = [b \in Attempt |-> IF launch[b] = "new" THEN "new" ELSE "gone"]
    BY DEF PowerLoss
  <2> QED
    BY <2>1 DEF Launches
<1>8. since' \in [Attempt -> 0..Unsynced] /\ \A b \in Attempt : since'[b] = Unsynced
  <2>1. Unsynced \in 0..Unsynced
    BY BoundsAssumption DEF Unsynced
  <2>2. since' = [b \in Attempt |-> Unsynced]
    BY DEF PowerLoss
  <2> QED
    BY <2>1, <2>2
<1>9. proc' \in Procs /\ proc'.at = "idle" /\ proc'.op = "none"
  <2>1. proc' = Idle
    BY DEF PowerLoss
  <2> QED
    BY <2>1, NoneTyped DEF Idle, Procs, Step
<1>10. /\ clock' \in [boot : 1..MaxBoot, now : 0..MaxClock]
       /\ clock'.boot = clock.boot + 1 /\ clock'.now = 0
  <2>1. clock \in [boot : 1..MaxBoot, now : 0..MaxClock]
    BY DEF TypeOK
  <2>2. clock.boot < MaxBoot /\ clock' = [boot |-> clock.boot + 1, now |-> 0]
    BY DEF PowerLoss
  <2> QED
    BY <2>1, <2>2, BoundsAssumption
<1>11. flying' = {} /\ UNCHANGED <<service, stamp, reported>>
  BY DEF PowerLoss
<1> QED
  BY <1>1, <1>3, <1>5, <1>6, <1>7, <1>8, <1>9, <1>10, <1>11 DEF PowerLossEffect

-----------------------------------------------------------------------------
(* Initial states and steps.                                               *)

LEMMA InvInit == Init => IInv
<1> SUFFICES ASSUME Init PROVE IInv
  OBVIOUS
<1>1. TypeOK
  BY NoneTyped, BoundsAssumption DEF Init, TypeOK, Idle, Step, NoOutcome, Unsynced
<1>2. Shown /\ Locked /\ ReportedIsDurable
  BY DEF Init, Shown, Locked, ReportedIsDurable, Idle, NoSecret
<1>3. Authority /\ Truth /\ Paired
  BY DEF Init, Authority, Truth, Paired, MayBeLive, Idle, NoSecret, NoReceipt
<1>4. Aged
  BY BoundsAssumption DEF Init, Aged, Idle, NoSecret, NoRetention
<1> QED
  BY <1>1, <1>2, <1>3, <1>4 DEF IInv

\* Every step has one of these effects.
Effects ==
    \/ PublishPreparedEffect \/ SyncPreparedEffect \/ ConfirmEffect
    \/ CommitReceiptEffect \/ PublishReceiptEffect \/ SyncReceiptEffect
    \/ CleanUpEffect \/ AnchorEffect \/ CommitTerminalEffect
    \/ ReplaceEffect \/ SyncTerminalEffect \/ CheckSecretEffect
    \/ CheckReceiptEffect \/ CheckAgeEffect \/ UnlinkSecretEffect
    \/ SyncUnlinkedEffect \/ UnlinkReceiptEffect \/ SyncGoneEffect
    \/ FailEffect \/ TickEffect \/ PowerLossEffect
    \/ \E a \in Attempt :
          \/ PrepareEffect(a) \/ SendRegisterEffect(a) \/ DeliverEffect(a)
          \/ CloseEffect(a) \/ KillLaunchEffect(a) \/ PruneEffect(a)
          \/ \E op \in {"finish", "recover"} : RecoverEffect(a, op)
    \/ UNCHANGED vars

LEMMA StepEffects == IInv /\ [Next]_vars => Effects
<1> SUFFICES ASSUME TypeOK, Shown, Paired, [Next]_vars PROVE Effects
  BY DEF IInv
<1>1. JournalStep \/ Tick \/ PowerLoss => Effects
  BY PublishPreparedDoes, SyncPreparedDoes, ConfirmDoes, CommitReceiptDoes,
     PublishReceiptDoes, SyncReceiptDoes, CleanUpDoes, AnchorDoes,
     CommitTerminalDoes, ReplaceDoes, SyncTerminalDoes, CheckSecretDoes,
     CheckReceiptDoes, CheckAgeDoes, UnlinkSecretDoes, SyncUnlinkedDoes,
     UnlinkReceiptDoes, SyncGoneDoes, FailDoes, TickDoes,
     PowerLossDoes
     DEF JournalStep, Effects
<1>2. ASSUME NEW a \in Attempt, AttemptStep(a) PROVE Effects
  BY <1>2, PrepareDoes, LaunchDoes, DeliverDoes, PruneDoes, RecoverDoes DEF AttemptStep, Effects
<1> QED
  BY <1>1, <1>2 DEF Next, Effects

\* The disk shows what a power loss may leave.
LEMMA ShownStep == IInv /\ [Next]_vars => Shown'
<1> SUFFICES ASSUME IInv, Effects PROVE Shown'
  BY StepEffects
<1>0. TypeOK /\ Shown /\ Locked /\ Authority /\ Truth /\ Paired /\ ReportedIsDurable /\ Aged
  BY DEF IInv
<1> USE DEF Shown, KeepsDisk, KeepsRest
<1>1. CASE PublishPreparedEffect
  BY <1>0, <1>1 DEF PublishPreparedEffect, PutsSecret, Moves
<1>2. CASE SyncPreparedEffect
  BY <1>0, <1>2 DEF SyncPreparedEffect, SettlesSecrets, LeavesTo
<1>3. CASE ConfirmEffect
  BY <1>0, <1>3 DEF ConfirmEffect, LeavesTo
<1>4. CASE CommitReceiptEffect
  BY <1>0, <1>4 DEF CommitReceiptEffect, SettlesReceipts, PutsReceipt, Moves
<1>5. CASE PublishReceiptEffect
  BY <1>0, <1>5 DEF PublishReceiptEffect, PutsReceipt, Moves
<1>6. CASE SyncReceiptEffect
  BY <1>0, <1>6 DEF SyncReceiptEffect, SettlesReceipts, Moves
<1>7. CASE CleanUpEffect
  BY <1>0, <1>7 DEF CleanUpEffect, LeavesTo
<1>8. CASE AnchorEffect
  BY <1>0, <1>8 DEF AnchorEffect, Retained, Retains
<1>9. CASE CommitTerminalEffect
  BY <1>0, <1>9 DEF CommitTerminalEffect, PutsSecret, Moves
<1>10. CASE ReplaceEffect
  BY <1>0, <1>10 DEF ReplaceEffect, PutsSecret, Moves
<1>11. CASE SyncTerminalEffect
  BY <1>0, <1>11 DEF SyncTerminalEffect, SettlesSecrets, LeavesTo
<1>12. CASE CheckSecretEffect
  BY <1>0, <1>12 DEF CheckSecretEffect, SettlesSecrets, Moves
<1>13. CASE CheckReceiptEffect
  BY <1>0, <1>13 DEF CheckReceiptEffect, SettlesReceipts, Moves
<1>14. CASE CheckAgeEffect
  BY <1>0, <1>14 DEF CheckAgeEffect, Retained, Retains, Moves, LeavesTo
<1>15. CASE UnlinkSecretEffect
  BY <1>0, <1>15 DEF UnlinkSecretEffect, PutsSecret, Moves
<1>16. CASE SyncUnlinkedEffect
  BY <1>0, <1>16 DEF SyncUnlinkedEffect, SettlesSecrets, Moves
<1>17. CASE UnlinkReceiptEffect
  BY <1>0, <1>17 DEF UnlinkReceiptEffect, PutsReceipt, Moves
<1>18. CASE SyncGoneEffect
  BY <1>0, <1>18 DEF SyncGoneEffect, SettlesReceipts, LeavesTo
<1>19. CASE FailEffect
  BY <1>0, <1>19 DEF FailEffect, LeavesTo
<1>20. CASE TickEffect
  BY <1>0, <1>20 DEF TickEffect
<1>21. CASE PowerLossEffect
  BY <1>0, <1>21 DEF PowerLossEffect
<1>22. ASSUME NEW a \in Attempt, PrepareEffect(a) PROVE Shown'
  BY <1>0, <1>22 DEF PrepareEffect, Begins, PutsSecret
<1>23. ASSUME NEW a \in Attempt, SendRegisterEffect(a) PROVE Shown'
  BY <1>0, <1>23 DEF SendRegisterEffect, Advances
<1>24. ASSUME NEW a \in Attempt, DeliverEffect(a) PROVE Shown'
  BY <1>0, <1>24 DEF DeliverEffect
<1>25. ASSUME NEW a \in Attempt, CloseEffect(a) PROVE Shown'
  BY <1>0, <1>25 DEF CloseEffect, Advances
<1>26. ASSUME NEW a \in Attempt, KillLaunchEffect(a) PROVE Shown'
  BY <1>0, <1>26 DEF KillLaunchEffect, Advances
<1>27. ASSUME NEW a \in Attempt, NEW op \in {"finish", "recover"}, RecoverEffect(a, op) PROVE Shown'
  BY <1>0, <1>27 DEF RecoverEffect, Begins
<1>28. ASSUME NEW a \in Attempt, PruneEffect(a) PROVE Shown'
  BY <1>0, <1>28 DEF PruneEffect, Begins
<1>29. CASE UNCHANGED vars
  BY <1>0, <1>29 DEF vars, diskVars, worldVars
<1> QED
  BY <1>1, <1>2, <1>3, <1>4, <1>5, <1>6, <1>7, <1>8, <1>9, <1>10, <1>11, <1>12,
     <1>13, <1>14, <1>15, <1>16, <1>17, <1>18, <1>19, <1>20, <1>21, <1>22, <1>23, <1>24,
     <1>25, <1>26, <1>27, <1>28, <1>29
     DEF Effects

\* An invocation that is part of a launch leaves it where it stands.
LEMMA LockedStep == IInv /\ [Next]_vars => Locked'
<1> SUFFICES ASSUME IInv, Effects PROVE Locked'
  BY StepEffects
<1>0. TypeOK /\ Shown /\ Locked /\ Authority /\ Truth /\ Paired /\ ReportedIsDurable /\ Aged
  BY DEF IInv
<1> USE DEF Locked, Shown, KeepsDisk, KeepsRest
<1>1. CASE PublishPreparedEffect
  BY <1>0, <1>1 DEF PublishPreparedEffect, PutsSecret, Moves
<1>2. CASE SyncPreparedEffect
  BY <1>0, <1>2 DEF SyncPreparedEffect, SettlesSecrets, LeavesTo
<1>3. CASE ConfirmEffect
  BY <1>0, <1>3 DEF ConfirmEffect, LeavesTo
<1>4. CASE CommitReceiptEffect
  BY <1>0, <1>4 DEF CommitReceiptEffect, SettlesReceipts, PutsReceipt, Moves
<1>5. CASE PublishReceiptEffect
  BY <1>0, <1>5 DEF PublishReceiptEffect, PutsReceipt, Moves
<1>6. CASE SyncReceiptEffect
  BY <1>0, <1>6 DEF SyncReceiptEffect, SettlesReceipts, Moves
<1>7. CASE CleanUpEffect
  BY <1>0, <1>7 DEF CleanUpEffect, LeavesTo
<1>8. CASE AnchorEffect
  BY <1>0, <1>8 DEF AnchorEffect, Retained, Retains
<1>9. CASE CommitTerminalEffect
  BY <1>0, <1>9 DEF CommitTerminalEffect, PutsSecret, Moves
<1>10. CASE ReplaceEffect
  BY <1>0, <1>10 DEF ReplaceEffect, PutsSecret, Moves
<1>11. CASE SyncTerminalEffect
  BY <1>0, <1>11 DEF SyncTerminalEffect, SettlesSecrets, LeavesTo
<1>12. CASE CheckSecretEffect
  BY <1>0, <1>12 DEF CheckSecretEffect, SettlesSecrets, Moves
<1>13. CASE CheckReceiptEffect
  BY <1>0, <1>13 DEF CheckReceiptEffect, SettlesReceipts, Moves
<1>14. CASE CheckAgeEffect
  BY <1>0, <1>14 DEF CheckAgeEffect, Retained, Retains, Moves, LeavesTo
<1>15. CASE UnlinkSecretEffect
  BY <1>0, <1>15 DEF UnlinkSecretEffect, PutsSecret, Moves
<1>16. CASE SyncUnlinkedEffect
  BY <1>0, <1>16 DEF SyncUnlinkedEffect, SettlesSecrets, Moves
<1>17. CASE UnlinkReceiptEffect
  BY <1>0, <1>17 DEF UnlinkReceiptEffect, PutsReceipt, Moves
<1>18. CASE SyncGoneEffect
  BY <1>0, <1>18 DEF SyncGoneEffect, SettlesReceipts, LeavesTo
<1>19. CASE FailEffect
  BY <1>0, <1>19 DEF FailEffect, LeavesTo
<1>20. CASE TickEffect
  BY <1>0, <1>20 DEF TickEffect
<1>21. CASE PowerLossEffect
  BY <1>0, <1>21 DEF PowerLossEffect
<1>22. ASSUME NEW a \in Attempt, PrepareEffect(a) PROVE Locked'
  BY <1>0, <1>22 DEF PrepareEffect, Begins, PutsSecret
<1>23. ASSUME NEW a \in Attempt, SendRegisterEffect(a) PROVE Locked'
  BY <1>0, <1>23 DEF SendRegisterEffect, Advances
<1>24. ASSUME NEW a \in Attempt, DeliverEffect(a) PROVE Locked'
  BY <1>0, <1>24 DEF DeliverEffect
<1>25. ASSUME NEW a \in Attempt, CloseEffect(a) PROVE Locked'
  BY <1>0, <1>25 DEF CloseEffect, Advances
<1>26. ASSUME NEW a \in Attempt, KillLaunchEffect(a) PROVE Locked'
  BY <1>0, <1>26 DEF KillLaunchEffect, Advances
<1>27. ASSUME NEW a \in Attempt, NEW op \in {"finish", "recover"}, RecoverEffect(a, op) PROVE Locked'
  BY <1>0, <1>27 DEF RecoverEffect, Begins
<1>28. ASSUME NEW a \in Attempt, PruneEffect(a) PROVE Locked'
  BY <1>0, <1>28 DEF PruneEffect, Begins
<1>29. CASE UNCHANGED vars
  BY <1>0, <1>29 DEF vars, diskVars, worldVars
<1> QED
  BY <1>1, <1>2, <1>3, <1>4, <1>5, <1>6, <1>7, <1>8, <1>9, <1>10, <1>11, <1>12,
     <1>13, <1>14, <1>15, <1>16, <1>17, <1>18, <1>19, <1>20, <1>21, <1>22, <1>23, <1>24,
     <1>25, <1>26, <1>27, <1>28, <1>29
     DEF Effects

\* A prepared entry is durable before its register is sent, and goes only after the end.
LEMMA AuthorityStep == IInv /\ [Next]_vars => Authority'
<1> SUFFICES ASSUME IInv, Effects PROVE Authority'
  BY StepEffects
<1>0. TypeOK /\ Shown /\ Locked /\ Authority /\ Truth /\ Paired /\ ReportedIsDurable /\ Aged
  BY DEF IInv
<1> USE DEF Authority, MayBeLive, Shown, Locked, Truth, Ended, KeepsDisk, KeepsRest
<1>1. CASE PublishPreparedEffect
  BY <1>0, <1>1 DEF PublishPreparedEffect, PutsSecret, Moves
<1>2. CASE SyncPreparedEffect
  BY <1>0, <1>2 DEF SyncPreparedEffect, SettlesSecrets, LeavesTo
<1>3. CASE ConfirmEffect
  BY <1>0, <1>3 DEF ConfirmEffect, LeavesTo
<1>4. CASE CommitReceiptEffect
  BY <1>0, <1>4 DEF CommitReceiptEffect, SettlesReceipts, PutsReceipt, Moves
<1>5. CASE PublishReceiptEffect
  BY <1>0, <1>5 DEF PublishReceiptEffect, PutsReceipt, Moves
<1>6. CASE SyncReceiptEffect
  BY <1>0, <1>6 DEF SyncReceiptEffect, SettlesReceipts, Moves
<1>7. CASE CleanUpEffect
  BY <1>0, <1>7 DEF CleanUpEffect, LeavesTo
<1>8. CASE AnchorEffect
  BY <1>0, <1>8 DEF AnchorEffect, Retained, Retains
<1>9. CASE CommitTerminalEffect
  BY <1>0, <1>9 DEF CommitTerminalEffect, PutsSecret, Moves
<1>10. CASE ReplaceEffect
  BY <1>0, <1>10 DEF ReplaceEffect, PutsSecret, Moves
<1>11. CASE SyncTerminalEffect
  BY <1>0, <1>11 DEF SyncTerminalEffect, SettlesSecrets, LeavesTo
<1>12. CASE CheckSecretEffect
  BY <1>0, <1>12 DEF CheckSecretEffect, SettlesSecrets, Moves
<1>13. CASE CheckReceiptEffect
  BY <1>0, <1>13 DEF CheckReceiptEffect, SettlesReceipts, Moves
<1>14. CASE CheckAgeEffect
  BY <1>0, <1>14 DEF CheckAgeEffect, Retained, Retains, Moves, LeavesTo
<1>15. CASE UnlinkSecretEffect
  BY <1>0, <1>15 DEF UnlinkSecretEffect, PutsSecret, Moves
<1>16. CASE SyncUnlinkedEffect
  BY <1>0, <1>16 DEF SyncUnlinkedEffect, SettlesSecrets, Moves
<1>17. CASE UnlinkReceiptEffect
  BY <1>0, <1>17 DEF UnlinkReceiptEffect, PutsReceipt, Moves
<1>18. CASE SyncGoneEffect
  BY <1>0, <1>18 DEF SyncGoneEffect, SettlesReceipts, LeavesTo
<1>19. CASE FailEffect
  BY <1>0, <1>19 DEF FailEffect, LeavesTo
<1>20. CASE TickEffect
  BY <1>0, <1>20 DEF TickEffect
<1>21. CASE PowerLossEffect
  BY <1>0, <1>21 DEF PowerLossEffect
<1>22. ASSUME NEW a \in Attempt, PrepareEffect(a) PROVE Authority'
  BY <1>0, <1>22 DEF PrepareEffect, Begins, PutsSecret
<1>23. ASSUME NEW a \in Attempt, SendRegisterEffect(a) PROVE Authority'
  BY <1>0, <1>23 DEF SendRegisterEffect, Advances
<1>24. ASSUME NEW a \in Attempt, DeliverEffect(a) PROVE Authority'
  BY <1>0, <1>24 DEF DeliverEffect
<1>25. ASSUME NEW a \in Attempt, CloseEffect(a) PROVE Authority'
  BY <1>0, <1>25 DEF CloseEffect, Advances
<1>26. ASSUME NEW a \in Attempt, KillLaunchEffect(a) PROVE Authority'
  BY <1>0, <1>26 DEF KillLaunchEffect, Advances
<1>27. ASSUME NEW a \in Attempt, NEW op \in {"finish", "recover"}, RecoverEffect(a, op) PROVE Authority'
  BY <1>0, <1>27 DEF RecoverEffect, Begins
<1>28. ASSUME NEW a \in Attempt, PruneEffect(a) PROVE Authority'
  BY <1>0, <1>28 DEF PruneEffect, Begins
<1>29. CASE UNCHANGED vars
  BY <1>0, <1>29 DEF vars, diskVars, worldVars
<1> QED
  BY <1>1, <1>2, <1>3, <1>4, <1>5, <1>6, <1>7, <1>8, <1>9, <1>10, <1>11, <1>12,
     <1>13, <1>14, <1>15, <1>16, <1>17, <1>18, <1>19, <1>20, <1>21, <1>22, <1>23, <1>24,
     <1>25, <1>26, <1>27, <1>28, <1>29
     DEF Effects

\* Only the gateway's word is written as an end, and the gateway does not take it back.
LEMMA TruthStep == IInv /\ [Next]_vars => Truth'
<1> SUFFICES ASSUME IInv, Effects PROVE Truth'
  BY StepEffects
<1>0. TypeOK /\ Shown /\ Locked /\ Authority /\ Truth /\ Paired /\ ReportedIsDurable /\ Aged
  BY DEF IInv
<1> USE DEF Truth, Shown, Locked, Ended, KeepsDisk, KeepsRest
<1>1. CASE PublishPreparedEffect
  BY <1>0, <1>1 DEF PublishPreparedEffect, PutsSecret, Moves
<1>2. CASE SyncPreparedEffect
  BY <1>0, <1>2 DEF SyncPreparedEffect, SettlesSecrets, LeavesTo
<1>3. CASE ConfirmEffect
  BY <1>0, <1>3 DEF ConfirmEffect, LeavesTo
<1>4. CASE CommitReceiptEffect
  <2>1. CASE HasReceipt(proc.attempt)
    <3>1. SettlesReceipts /\ Moves("anchor") /\ receipts[proc.attempt].outcome = proc.outcome
      BY <1>4, <2>1 DEF CommitReceiptEffect
    <3>2. proc.attempt \in Attempt /\ KeepsRest /\ proc.at = "receipt"
      BY <1>4 DEF CommitReceiptEffect
    <3> QED
      BY <1>0, <2>1, <3>1, <3>2 DEF SettlesReceipts, Moves
  <2>2. CASE ~HasReceipt(proc.attempt)
    <3>1. PICK r : PutsReceipt(proc.attempt, r) /\ r.number = 0
      BY <1>4, <2>2 DEF CommitReceiptEffect
    <3>2. proc.attempt \in Attempt /\ KeepsRest /\ Moves("publishReceipt") /\ proc.at = "receipt"
      BY <1>4, <2>2 DEF CommitReceiptEffect
    <3> QED
      BY <1>0, <2>2, <3>1, <3>2 DEF PutsReceipt, Moves
  <2> QED
    BY <2>1, <2>2
<1>5. CASE PublishReceiptEffect
  BY <1>0, <1>5 DEF PublishReceiptEffect, PutsReceipt, Moves
<1>6. CASE SyncReceiptEffect
  BY <1>0, <1>6 DEF SyncReceiptEffect, SettlesReceipts, Moves
<1>7. CASE CleanUpEffect
  BY <1>0, <1>7 DEF CleanUpEffect, LeavesTo
<1>8. CASE AnchorEffect
  BY <1>0, <1>8 DEF AnchorEffect, Retained, Retains
<1>9. CASE CommitTerminalEffect
  BY <1>0, <1>9 DEF CommitTerminalEffect, PutsSecret, Moves
<1>10. CASE ReplaceEffect
  BY <1>0, <1>10 DEF ReplaceEffect, PutsSecret, Moves
<1>11. CASE SyncTerminalEffect
  BY <1>0, <1>11 DEF SyncTerminalEffect, SettlesSecrets, LeavesTo
<1>12. CASE CheckSecretEffect
  BY <1>0, <1>12 DEF CheckSecretEffect, SettlesSecrets, Moves
<1>13. CASE CheckReceiptEffect
  BY <1>0, <1>13 DEF CheckReceiptEffect, SettlesReceipts, Moves
<1>14. CASE CheckAgeEffect
  BY <1>0, <1>14 DEF CheckAgeEffect, Retained, Retains, Moves, LeavesTo
<1>15. CASE UnlinkSecretEffect
  BY <1>0, <1>15 DEF UnlinkSecretEffect, PutsSecret, Moves
<1>16. CASE SyncUnlinkedEffect
  BY <1>0, <1>16 DEF SyncUnlinkedEffect, SettlesSecrets, Moves
<1>17. CASE UnlinkReceiptEffect
  BY <1>0, <1>17 DEF UnlinkReceiptEffect, PutsReceipt, Moves
<1>18. CASE SyncGoneEffect
  BY <1>0, <1>18 DEF SyncGoneEffect, SettlesReceipts, LeavesTo
<1>19. CASE FailEffect
  BY <1>0, <1>19 DEF FailEffect, LeavesTo
<1>20. CASE TickEffect
  BY <1>0, <1>20 DEF TickEffect
<1>21. CASE PowerLossEffect
  BY <1>0, <1>21 DEF PowerLossEffect
<1>22. ASSUME NEW a \in Attempt, PrepareEffect(a) PROVE Truth'
  BY <1>0, <1>22 DEF PrepareEffect, Begins, PutsSecret
<1>23. ASSUME NEW a \in Attempt, SendRegisterEffect(a) PROVE Truth'
  BY <1>0, <1>23 DEF SendRegisterEffect, Advances
<1>24. ASSUME NEW a \in Attempt, DeliverEffect(a) PROVE Truth'
  BY <1>0, <1>24 DEF DeliverEffect
<1>25. ASSUME NEW a \in Attempt, CloseEffect(a) PROVE Truth'
  BY <1>0, <1>25 DEF CloseEffect, Advances
<1>26. ASSUME NEW a \in Attempt, KillLaunchEffect(a) PROVE Truth'
  BY <1>0, <1>26 DEF KillLaunchEffect, Advances
<1>27. ASSUME NEW a \in Attempt, NEW op \in {"finish", "recover"}, RecoverEffect(a, op) PROVE Truth'
  BY <1>0, <1>27 DEF RecoverEffect, Begins
<1>28. ASSUME NEW a \in Attempt, PruneEffect(a) PROVE Truth'
  BY <1>0, <1>28 DEF PruneEffect, Begins
<1>29. CASE UNCHANGED vars
  BY <1>0, <1>29 DEF vars, diskVars, worldVars
<1> QED
  BY <1>1, <1>2, <1>3, <1>4, <1>5, <1>6, <1>7, <1>8, <1>9, <1>10, <1>11, <1>12,
     <1>13, <1>14, <1>15, <1>16, <1>17, <1>18, <1>19, <1>20, <1>21, <1>22, <1>23, <1>24,
     <1>25, <1>26, <1>27, <1>28, <1>29
     DEF Effects

\* A receipt is synced before its entry ends and goes after the entry is gone.
LEMMA PairedStep == IInv /\ [Next]_vars => Paired'
<1> SUFFICES ASSUME IInv, Effects PROVE Paired'
  BY StepEffects
<1>0. TypeOK /\ Shown /\ Locked /\ Authority /\ Truth /\ Paired /\ ReportedIsDurable /\ Aged
  BY DEF IInv
<1> USE DEF Paired, Shown, HasReceipt, KeepsDisk, KeepsRest
<1>1. CASE PublishPreparedEffect
  BY <1>0, <1>1 DEF PublishPreparedEffect, PutsSecret, Moves
<1>2. CASE SyncPreparedEffect
  BY <1>0, <1>2 DEF SyncPreparedEffect, SettlesSecrets, LeavesTo
<1>3. CASE ConfirmEffect
  BY <1>0, <1>3 DEF ConfirmEffect, LeavesTo
<1>4. CASE CommitReceiptEffect
  <2>1. CASE HasReceipt(proc.attempt)
    <3>1. SettlesReceipts /\ Moves("anchor") /\ receipts[proc.attempt].outcome = proc.outcome
      BY <1>4, <2>1 DEF CommitReceiptEffect
    <3>2. proc.attempt \in Attempt /\ KeepsRest /\ proc.at = "receipt"
      BY <1>4 DEF CommitReceiptEffect
    <3> QED
      BY <1>0, <2>1, <3>1, <3>2 DEF SettlesReceipts, Moves
  <2>2. CASE ~HasReceipt(proc.attempt)
    <3>1. PICK r : PutsReceipt(proc.attempt, r) /\ r.number = 0
      BY <1>4, <2>2 DEF CommitReceiptEffect
    <3>2. proc.attempt \in Attempt /\ KeepsRest /\ Moves("publishReceipt") /\ proc.at = "receipt"
      BY <1>4, <2>2 DEF CommitReceiptEffect
    <3> QED
      BY <1>0, <2>2, <3>1, <3>2 DEF PutsReceipt, Moves
  <2> QED
    BY <2>1, <2>2
<1>5. CASE PublishReceiptEffect
  BY <1>0, <1>5 DEF PublishReceiptEffect, PutsReceipt, Moves
<1>6. CASE SyncReceiptEffect
  BY <1>0, <1>6 DEF SyncReceiptEffect, SettlesReceipts, Moves
<1>7. CASE CleanUpEffect
  BY <1>0, <1>7 DEF CleanUpEffect, LeavesTo
<1>8. CASE AnchorEffect
  BY <1>0, <1>8 DEF AnchorEffect, Retained, Retains
<1>9. CASE CommitTerminalEffect
  BY <1>0, <1>9 DEF CommitTerminalEffect, PutsSecret, Moves
<1>10. CASE ReplaceEffect
  BY <1>0, <1>10 DEF ReplaceEffect, PutsSecret, Moves
<1>11. CASE SyncTerminalEffect
  BY <1>0, <1>11 DEF SyncTerminalEffect, SettlesSecrets, LeavesTo
<1>12. CASE CheckSecretEffect
  BY <1>0, <1>12 DEF CheckSecretEffect, SettlesSecrets, Moves
<1>13. CASE CheckReceiptEffect
  BY <1>0, <1>13 DEF CheckReceiptEffect, SettlesReceipts, Moves
<1>14. CASE CheckAgeEffect
  BY <1>0, <1>14 DEF CheckAgeEffect, Retained, Retains, Moves, LeavesTo
<1>15. CASE UnlinkSecretEffect
  BY <1>0, <1>15 DEF UnlinkSecretEffect, PutsSecret, Moves
<1>16. CASE SyncUnlinkedEffect
  BY <1>0, <1>16 DEF SyncUnlinkedEffect, SettlesSecrets, Moves
<1>17. CASE UnlinkReceiptEffect
  BY <1>0, <1>17 DEF UnlinkReceiptEffect, PutsReceipt, Moves
<1>18. CASE SyncGoneEffect
  BY <1>0, <1>18 DEF SyncGoneEffect, SettlesReceipts, LeavesTo
<1>19. CASE FailEffect
  BY <1>0, <1>19 DEF FailEffect, LeavesTo
<1>20. CASE TickEffect
  BY <1>0, <1>20 DEF TickEffect
<1>21. CASE PowerLossEffect
  BY <1>0, <1>21 DEF PowerLossEffect
<1>22. ASSUME NEW a \in Attempt, PrepareEffect(a) PROVE Paired'
  BY <1>0, <1>22 DEF PrepareEffect, Begins, PutsSecret
<1>23. ASSUME NEW a \in Attempt, SendRegisterEffect(a) PROVE Paired'
  BY <1>0, <1>23 DEF SendRegisterEffect, Advances
<1>24. ASSUME NEW a \in Attempt, DeliverEffect(a) PROVE Paired'
  BY <1>0, <1>24 DEF DeliverEffect
<1>25. ASSUME NEW a \in Attempt, CloseEffect(a) PROVE Paired'
  BY <1>0, <1>25 DEF CloseEffect, Advances
<1>26. ASSUME NEW a \in Attempt, KillLaunchEffect(a) PROVE Paired'
  BY <1>0, <1>26 DEF KillLaunchEffect, Advances
<1>27. ASSUME NEW a \in Attempt, NEW op \in {"finish", "recover"}, RecoverEffect(a, op) PROVE Paired'
  BY <1>0, <1>27 DEF RecoverEffect, Begins
<1>28. ASSUME NEW a \in Attempt, PruneEffect(a) PROVE Paired'
  BY <1>0, <1>28 DEF PruneEffect, Begins
<1>29. CASE UNCHANGED vars
  BY <1>0, <1>29 DEF vars, diskVars, worldVars
<1> QED
  BY <1>1, <1>2, <1>3, <1>4, <1>5, <1>6, <1>7, <1>8, <1>9, <1>10, <1>11, <1>12,
     <1>13, <1>14, <1>15, <1>16, <1>17, <1>18, <1>19, <1>20, <1>21, <1>22, <1>23, <1>24,
     <1>25, <1>26, <1>27, <1>28, <1>29
     DEF Effects

\* Success is reported after the sync of the ended entry.
LEMMA ReportedStep == IInv /\ [Next]_vars => ReportedIsDurable'
<1> SUFFICES ASSUME IInv, Effects PROVE ReportedIsDurable'
  BY StepEffects
<1>0. TypeOK /\ Shown /\ Locked /\ Authority /\ Truth /\ Paired /\ ReportedIsDurable /\ Aged
  BY DEF IInv
<1>00. reported \subseteq Attempt
  BY <1>0 DEF TypeOK
<1> USE DEF ReportedIsDurable, Shown, Locked, Paired, KeepsDisk, KeepsRest
<1>1. CASE PublishPreparedEffect
  BY <1>0, <1>1, <1>00 DEF PublishPreparedEffect, PutsSecret, Moves
<1>2. CASE SyncPreparedEffect
  BY <1>0, <1>2, <1>00 DEF SyncPreparedEffect, SettlesSecrets, LeavesTo
<1>3. CASE ConfirmEffect
  BY <1>0, <1>3, <1>00 DEF ConfirmEffect, LeavesTo
<1>4. CASE CommitReceiptEffect
  BY <1>0, <1>4, <1>00 DEF CommitReceiptEffect, SettlesReceipts, PutsReceipt, Moves
<1>5. CASE PublishReceiptEffect
  BY <1>0, <1>5, <1>00 DEF PublishReceiptEffect, PutsReceipt, Moves
<1>6. CASE SyncReceiptEffect
  BY <1>0, <1>6, <1>00 DEF SyncReceiptEffect, SettlesReceipts, Moves
<1>7. CASE CleanUpEffect
  BY <1>0, <1>7, <1>00 DEF CleanUpEffect, LeavesTo
<1>8. CASE AnchorEffect
  BY <1>0, <1>8, <1>00 DEF AnchorEffect, Retained, Retains
<1>9. CASE CommitTerminalEffect
  BY <1>0, <1>9, <1>00 DEF CommitTerminalEffect, PutsSecret, Moves
<1>10. CASE ReplaceEffect
  BY <1>0, <1>10, <1>00 DEF ReplaceEffect, PutsSecret, Moves
<1>11. CASE SyncTerminalEffect
  BY <1>0, <1>11, <1>00 DEF SyncTerminalEffect, SettlesSecrets, LeavesTo
<1>12. CASE CheckSecretEffect
  BY <1>0, <1>12, <1>00 DEF CheckSecretEffect, SettlesSecrets, Moves
<1>13. CASE CheckReceiptEffect
  BY <1>0, <1>13, <1>00 DEF CheckReceiptEffect, SettlesReceipts, Moves
<1>14. CASE CheckAgeEffect
  BY <1>0, <1>14, <1>00 DEF CheckAgeEffect, Retained, Retains, Moves, LeavesTo
<1>15. CASE UnlinkSecretEffect
  BY <1>0, <1>15, <1>00 DEF UnlinkSecretEffect, PutsSecret, Moves
<1>16. CASE SyncUnlinkedEffect
  BY <1>0, <1>16, <1>00 DEF SyncUnlinkedEffect, SettlesSecrets, Moves
<1>17. CASE UnlinkReceiptEffect
  BY <1>0, <1>17, <1>00 DEF UnlinkReceiptEffect, PutsReceipt, Moves
<1>18. CASE SyncGoneEffect
  BY <1>0, <1>18, <1>00 DEF SyncGoneEffect, SettlesReceipts, LeavesTo
<1>19. CASE FailEffect
  BY <1>0, <1>19, <1>00 DEF FailEffect, LeavesTo
<1>20. CASE TickEffect
  BY <1>0, <1>20, <1>00 DEF TickEffect
<1>21. CASE PowerLossEffect
  BY <1>0, <1>21, <1>00 DEF PowerLossEffect
<1>22. ASSUME NEW a \in Attempt, PrepareEffect(a) PROVE ReportedIsDurable'
  BY <1>0, <1>22, <1>00 DEF PrepareEffect, Begins, PutsSecret
<1>23. ASSUME NEW a \in Attempt, SendRegisterEffect(a) PROVE ReportedIsDurable'
  BY <1>0, <1>23, <1>00 DEF SendRegisterEffect, Advances
<1>24. ASSUME NEW a \in Attempt, DeliverEffect(a) PROVE ReportedIsDurable'
  BY <1>0, <1>24, <1>00 DEF DeliverEffect
<1>25. ASSUME NEW a \in Attempt, CloseEffect(a) PROVE ReportedIsDurable'
  BY <1>0, <1>25, <1>00 DEF CloseEffect, Advances
<1>26. ASSUME NEW a \in Attempt, KillLaunchEffect(a) PROVE ReportedIsDurable'
  BY <1>0, <1>26, <1>00 DEF KillLaunchEffect, Advances
<1>27. ASSUME NEW a \in Attempt, NEW op \in {"finish", "recover"}, RecoverEffect(a, op) PROVE ReportedIsDurable'
  BY <1>0, <1>27, <1>00 DEF RecoverEffect, Begins
<1>28. ASSUME NEW a \in Attempt, PruneEffect(a) PROVE ReportedIsDurable'
  BY <1>0, <1>28, <1>00 DEF PruneEffect, Begins
<1>29. CASE UNCHANGED vars
  BY <1>0, <1>29 DEF vars, diskVars, worldVars
<1> QED
  BY <1>1, <1>2, <1>3, <1>4, <1>5, <1>6, <1>7, <1>8, <1>9, <1>10, <1>11, <1>12,
     <1>13, <1>14, <1>15, <1>16, <1>17, <1>18, <1>19, <1>20, <1>21, <1>22, <1>23, <1>24,
     <1>25, <1>26, <1>27, <1>28, <1>29
     DEF Effects

\* An anchor of this boot is read after the receipt was synced in it.
LEMMA AgedStep == IInv /\ [Next]_vars => Aged'
<1> SUFFICES ASSUME IInv, Effects PROVE Aged'
  BY StepEffects
<1>0. TypeOK /\ Shown /\ Locked /\ Authority /\ Truth /\ Paired /\ ReportedIsDurable /\ Aged
  BY DEF IInv
<1>00. /\ MaxClock \in Nat /\ Interval \in Nat /\ clock.boot \in Nat /\ clock.now \in 0 .. MaxClock
       /\ \A a \in Attempt : /\ since[a] \in Nat
                             /\ \A s \in secretsMay[a] : s.retention.boot \in Nat
                                                        /\ s.retention.anchor \in 0 .. MaxClock
       /\ proc.retention.anchor \in 0 .. MaxClock /\ proc.retention.boot \in Nat
  <2>1. \A s \in Secret : s.retention.boot \in Nat /\ s.retention.anchor \in 0 .. MaxClock
    BY BoundsAssumption DEF Secret, Retention
  <2>2. \A a \in Attempt : \A s \in secretsMay[a] : s \in Secret
    BY <1>0 DEF TypeOK
  <2>3. proc.retention \in Retention /\ \A a \in Attempt : since[a] \in 0 .. Unsynced
    BY <1>0 DEF TypeOK
  <2>4. proc.retention.anchor \in 0 .. MaxClock /\ proc.retention.boot \in Nat
    BY <2>3, BoundsAssumption DEF Retention
  <2>5. clock.boot \in Nat /\ clock.now \in 0 .. MaxClock
    BY <1>0, BoundsAssumption DEF TypeOK
  <2> QED
    BY <2>1, <2>2, <2>3, <2>4, <2>5, BoundsAssumption DEF Unsynced
<1> USE DEF Aged, Shown, Paired, Unsynced, NoRetention, KeepsDisk, KeepsRest
<1>1. CASE PublishPreparedEffect
  BY <1>0, <1>1, <1>00 DEF PublishPreparedEffect, PutsSecret, Moves
<1>2. CASE SyncPreparedEffect
  BY <1>0, <1>2, <1>00 DEF SyncPreparedEffect, SettlesSecrets, LeavesTo
<1>3. CASE ConfirmEffect
  BY <1>0, <1>3, <1>00 DEF ConfirmEffect, LeavesTo
<1>4. CASE CommitReceiptEffect
  BY <1>0, <1>4, <1>00 DEF CommitReceiptEffect, SettlesReceipts, PutsReceipt, Moves
<1>5. CASE PublishReceiptEffect
  BY <1>0, <1>5, <1>00 DEF PublishReceiptEffect, PutsReceipt, Moves
<1>6. CASE SyncReceiptEffect
  BY <1>0, <1>6, <1>00 DEF SyncReceiptEffect, SettlesReceipts, Moves
<1>7. CASE CleanUpEffect
  BY <1>0, <1>7, <1>00 DEF CleanUpEffect, LeavesTo
<1>8. CASE AnchorEffect
  BY <1>0, <1>8, <1>00 DEF AnchorEffect, Retained, Retains
<1>9. CASE CommitTerminalEffect
  BY <1>0, <1>9, <1>00 DEF CommitTerminalEffect, PutsSecret, Moves
<1>10. CASE ReplaceEffect
  BY <1>0, <1>10, <1>00 DEF ReplaceEffect, PutsSecret, Moves
<1>11. CASE SyncTerminalEffect
  BY <1>0, <1>11, <1>00 DEF SyncTerminalEffect, SettlesSecrets, LeavesTo
<1>12. CASE CheckSecretEffect
  BY <1>0, <1>12, <1>00 DEF CheckSecretEffect, SettlesSecrets, Moves
<1>13. CASE CheckReceiptEffect
  BY <1>0, <1>13, <1>00 DEF CheckReceiptEffect, SettlesReceipts, Moves
<1>14. CASE CheckAgeEffect
  BY <1>0, <1>14, <1>00 DEF CheckAgeEffect, Retained, Retains, Moves, LeavesTo
<1>15. CASE UnlinkSecretEffect
  BY <1>0, <1>15, <1>00 DEF UnlinkSecretEffect, PutsSecret, Moves
<1>16. CASE SyncUnlinkedEffect
  BY <1>0, <1>16, <1>00 DEF SyncUnlinkedEffect, SettlesSecrets, Moves
<1>17. CASE UnlinkReceiptEffect
  BY <1>0, <1>17, <1>00 DEF UnlinkReceiptEffect, PutsReceipt, Moves
<1>18. CASE SyncGoneEffect
  BY <1>0, <1>18, <1>00 DEF SyncGoneEffect, SettlesReceipts, LeavesTo
<1>19. CASE FailEffect
  BY <1>0, <1>19, <1>00 DEF FailEffect, LeavesTo
<1>20. CASE TickEffect
  BY <1>0, <1>20, <1>00 DEF TickEffect
<1>21. CASE PowerLossEffect
  BY <1>0, <1>21, <1>00 DEF PowerLossEffect
<1>22. ASSUME NEW a \in Attempt, PrepareEffect(a) PROVE Aged'
  BY <1>0, <1>22, <1>00 DEF PrepareEffect, Begins, PutsSecret
<1>23. ASSUME NEW a \in Attempt, SendRegisterEffect(a) PROVE Aged'
  BY <1>0, <1>23, <1>00 DEF SendRegisterEffect, Advances
<1>24. ASSUME NEW a \in Attempt, DeliverEffect(a) PROVE Aged'
  BY <1>0, <1>24, <1>00 DEF DeliverEffect
<1>25. ASSUME NEW a \in Attempt, CloseEffect(a) PROVE Aged'
  BY <1>0, <1>25, <1>00 DEF CloseEffect, Advances
<1>26. ASSUME NEW a \in Attempt, KillLaunchEffect(a) PROVE Aged'
  BY <1>0, <1>26, <1>00 DEF KillLaunchEffect, Advances
<1>27. ASSUME NEW a \in Attempt, NEW op \in {"finish", "recover"}, RecoverEffect(a, op) PROVE Aged'
  BY <1>0, <1>27, <1>00 DEF RecoverEffect, Begins
<1>28. ASSUME NEW a \in Attempt, PruneEffect(a) PROVE Aged'
  BY <1>0, <1>28, <1>00 DEF PruneEffect, Begins
<1>29. CASE UNCHANGED vars
  BY <1>0, <1>29 DEF vars, diskVars, worldVars
<1> QED
  BY <1>1, <1>2, <1>3, <1>4, <1>5, <1>6, <1>7, <1>8, <1>9, <1>10, <1>11, <1>12,
     <1>13, <1>14, <1>15, <1>16, <1>17, <1>18, <1>19, <1>20, <1>21, <1>22, <1>23, <1>24,
     <1>25, <1>26, <1>27, <1>28, <1>29
     DEF Effects

\* Every step keeps the types.
LEMMA TypeStep == IInv /\ [Next]_vars => TypeOK'
<1> SUFFICES ASSUME IInv, Effects PROVE TypeOK'
  BY StepEffects
<1>0. TypeOK /\ Shown /\ Locked /\ Authority /\ Truth /\ Paired /\ ReportedIsDurable /\ Aged
  BY DEF IInv
<1> USE DEF TypeOK, Procs, Launches, KeepsDisk, KeepsRest
<1>1. CASE PublishPreparedEffect
  BY <1>0, <1>1, BoundsAssumption DEF PublishPreparedEffect, PutsSecret, Moves
<1>2. CASE SyncPreparedEffect
  BY <1>0, <1>2, BoundsAssumption DEF SyncPreparedEffect, SettlesSecrets, LeavesTo
<1>3. CASE ConfirmEffect
  BY <1>0, <1>3, BoundsAssumption DEF ConfirmEffect, LeavesTo
<1>4. CASE CommitReceiptEffect
  BY <1>0, <1>4, BoundsAssumption DEF CommitReceiptEffect, SettlesReceipts, PutsReceipt, Moves
<1>5. CASE PublishReceiptEffect
  BY <1>0, <1>5, BoundsAssumption DEF PublishReceiptEffect, PutsReceipt, Moves
<1>6. CASE SyncReceiptEffect
  BY <1>0, <1>6, BoundsAssumption DEF SyncReceiptEffect, SettlesReceipts, Moves
<1>7. CASE CleanUpEffect
  BY <1>0, <1>7, BoundsAssumption DEF CleanUpEffect, LeavesTo
<1>8. CASE AnchorEffect
  BY <1>0, <1>8, BoundsAssumption DEF AnchorEffect, Retained, Retains
<1>9. CASE CommitTerminalEffect
  BY <1>0, <1>9, BoundsAssumption DEF CommitTerminalEffect, PutsSecret, Moves
<1>10. CASE ReplaceEffect
  BY <1>0, <1>10, BoundsAssumption DEF ReplaceEffect, PutsSecret, Moves
<1>11. CASE SyncTerminalEffect
  BY <1>0, <1>11, BoundsAssumption DEF SyncTerminalEffect, SettlesSecrets, LeavesTo
<1>12. CASE CheckSecretEffect
  BY <1>0, <1>12, BoundsAssumption DEF CheckSecretEffect, SettlesSecrets, Moves
<1>13. CASE CheckReceiptEffect
  BY <1>0, <1>13, BoundsAssumption DEF CheckReceiptEffect, SettlesReceipts, Moves
<1>14. CASE CheckAgeEffect
  BY <1>0, <1>14, BoundsAssumption DEF CheckAgeEffect, Retained, Retains, Moves, LeavesTo
<1>15. CASE UnlinkSecretEffect
  BY <1>0, <1>15, BoundsAssumption DEF UnlinkSecretEffect, PutsSecret, Moves
<1>16. CASE SyncUnlinkedEffect
  BY <1>0, <1>16, BoundsAssumption DEF SyncUnlinkedEffect, SettlesSecrets, Moves
<1>17. CASE UnlinkReceiptEffect
  BY <1>0, <1>17, BoundsAssumption DEF UnlinkReceiptEffect, PutsReceipt, Moves
<1>18. CASE SyncGoneEffect
  BY <1>0, <1>18, BoundsAssumption DEF SyncGoneEffect, SettlesReceipts, LeavesTo
<1>19. CASE FailEffect
  BY <1>0, <1>19, BoundsAssumption DEF FailEffect, LeavesTo
<1>20. CASE TickEffect
  BY <1>0, <1>20, BoundsAssumption DEF TickEffect
<1>21. CASE PowerLossEffect
  BY <1>0, <1>21, BoundsAssumption DEF PowerLossEffect
<1>22. ASSUME NEW a \in Attempt, PrepareEffect(a) PROVE TypeOK'
  BY <1>0, <1>22, BoundsAssumption DEF PrepareEffect, Begins, PutsSecret
<1>23. ASSUME NEW a \in Attempt, SendRegisterEffect(a) PROVE TypeOK'
  BY <1>0, <1>23, BoundsAssumption DEF SendRegisterEffect, Advances
<1>24. ASSUME NEW a \in Attempt, DeliverEffect(a) PROVE TypeOK'
  BY <1>0, <1>24, BoundsAssumption DEF DeliverEffect
<1>25. ASSUME NEW a \in Attempt, CloseEffect(a) PROVE TypeOK'
  BY <1>0, <1>25, BoundsAssumption DEF CloseEffect, Advances
<1>26. ASSUME NEW a \in Attempt, KillLaunchEffect(a) PROVE TypeOK'
  BY <1>0, <1>26, BoundsAssumption DEF KillLaunchEffect, Advances
<1>27. ASSUME NEW a \in Attempt, NEW op \in {"finish", "recover"}, RecoverEffect(a, op) PROVE TypeOK'
  BY <1>0, <1>27, BoundsAssumption DEF RecoverEffect, Begins
<1>28. ASSUME NEW a \in Attempt, PruneEffect(a) PROVE TypeOK'
  BY <1>0, <1>28, BoundsAssumption DEF PruneEffect, Begins
<1>29. CASE UNCHANGED vars
  BY <1>0, <1>29 DEF vars, diskVars, worldVars
<1> QED
  BY <1>1, <1>2, <1>3, <1>4, <1>5, <1>6, <1>7, <1>8, <1>9, <1>10, <1>11, <1>12,
     <1>13, <1>14, <1>15, <1>16, <1>17, <1>18, <1>19, <1>20, <1>21, <1>22, <1>23, <1>24,
     <1>25, <1>26, <1>27, <1>28, <1>29
     DEF Effects

\* A removal within one boot.
Waits ==
    \A a \in Attempt :
        secrets[a].state = "ended" /\ secrets'[a].state = "absent" /\ clock' = clock =>
            clock.now \geq since[a] + Interval

\* Only UnlinkSecret removes an ended entry.
LEMMA WaitsStep == IInv /\ [Next]_vars => Waits
<1> SUFFICES ASSUME IInv, Effects PROVE Waits
  BY StepEffects
<1>0. TypeOK /\ Shown /\ Locked /\ Authority /\ Truth /\ Paired /\ ReportedIsDurable /\ Aged
  BY DEF IInv
<1>00. /\ MaxClock \in Nat /\ Interval \in Nat /\ clock.boot \in Nat /\ clock.now \in 0 .. MaxClock
       /\ \A a \in Attempt : /\ since[a] \in Nat
                             /\ \A s \in secretsMay[a] : s.retention.boot \in Nat
                                                        /\ s.retention.anchor \in 0 .. MaxClock
       /\ proc.retention.anchor \in 0 .. MaxClock /\ proc.retention.boot \in Nat
  <2>1. \A s \in Secret : s.retention.boot \in Nat /\ s.retention.anchor \in 0 .. MaxClock
    BY BoundsAssumption DEF Secret, Retention
  <2>2. \A a \in Attempt : \A s \in secretsMay[a] : s \in Secret
    BY <1>0 DEF TypeOK
  <2>3. proc.retention \in Retention /\ \A a \in Attempt : since[a] \in 0 .. Unsynced
    BY <1>0 DEF TypeOK
  <2>4. proc.retention.anchor \in 0 .. MaxClock /\ proc.retention.boot \in Nat
    BY <2>3, BoundsAssumption DEF Retention
  <2>5. clock.boot \in Nat /\ clock.now \in 0 .. MaxClock
    BY <1>0, BoundsAssumption DEF TypeOK
  <2> QED
    BY <2>1, <2>2, <2>3, <2>4, <2>5, BoundsAssumption DEF Unsynced
<1> USE DEF Waits, Shown, Paired, Aged, KeepsDisk, KeepsRest
<1>1. CASE PublishPreparedEffect
  BY <1>0, <1>1, <1>00 DEF PublishPreparedEffect, PutsSecret, Moves
<1>2. CASE SyncPreparedEffect
  BY <1>0, <1>2, <1>00 DEF SyncPreparedEffect, SettlesSecrets, LeavesTo
<1>3. CASE ConfirmEffect
  BY <1>0, <1>3, <1>00 DEF ConfirmEffect, LeavesTo
<1>4. CASE CommitReceiptEffect
  BY <1>0, <1>4, <1>00 DEF CommitReceiptEffect, SettlesReceipts, PutsReceipt, Moves
<1>5. CASE PublishReceiptEffect
  BY <1>0, <1>5, <1>00 DEF PublishReceiptEffect, PutsReceipt, Moves
<1>6. CASE SyncReceiptEffect
  BY <1>0, <1>6, <1>00 DEF SyncReceiptEffect, SettlesReceipts, Moves
<1>7. CASE CleanUpEffect
  BY <1>0, <1>7, <1>00 DEF CleanUpEffect, LeavesTo
<1>8. CASE AnchorEffect
  BY <1>0, <1>8, <1>00 DEF AnchorEffect, Retained, Retains
<1>9. CASE CommitTerminalEffect
  BY <1>0, <1>9, <1>00 DEF CommitTerminalEffect, PutsSecret, Moves
<1>10. CASE ReplaceEffect
  BY <1>0, <1>10, <1>00 DEF ReplaceEffect, PutsSecret, Moves
<1>11. CASE SyncTerminalEffect
  BY <1>0, <1>11, <1>00 DEF SyncTerminalEffect, SettlesSecrets, LeavesTo
<1>12. CASE CheckSecretEffect
  BY <1>0, <1>12, <1>00 DEF CheckSecretEffect, SettlesSecrets, Moves
<1>13. CASE CheckReceiptEffect
  BY <1>0, <1>13, <1>00 DEF CheckReceiptEffect, SettlesReceipts, Moves
<1>14. CASE CheckAgeEffect
  BY <1>0, <1>14, <1>00 DEF CheckAgeEffect, Retained, Retains, Moves, LeavesTo
<1>15. CASE UnlinkSecretEffect
  BY <1>0, <1>15, <1>00 DEF UnlinkSecretEffect, PutsSecret, Moves
<1>16. CASE SyncUnlinkedEffect
  BY <1>0, <1>16, <1>00 DEF SyncUnlinkedEffect, SettlesSecrets, Moves
<1>17. CASE UnlinkReceiptEffect
  BY <1>0, <1>17, <1>00 DEF UnlinkReceiptEffect, PutsReceipt, Moves
<1>18. CASE SyncGoneEffect
  BY <1>0, <1>18, <1>00 DEF SyncGoneEffect, SettlesReceipts, LeavesTo
<1>19. CASE FailEffect
  BY <1>0, <1>19, <1>00 DEF FailEffect, LeavesTo
<1>20. CASE TickEffect
  BY <1>0, <1>20, <1>00 DEF TickEffect
<1>21. CASE PowerLossEffect
  BY <1>0, <1>21, <1>00 DEF PowerLossEffect
<1>22. ASSUME NEW a \in Attempt, PrepareEffect(a) PROVE Waits
  BY <1>0, <1>22, <1>00 DEF PrepareEffect, Begins, PutsSecret
<1>23. ASSUME NEW a \in Attempt, SendRegisterEffect(a) PROVE Waits
  BY <1>0, <1>23, <1>00 DEF SendRegisterEffect, Advances
<1>24. ASSUME NEW a \in Attempt, DeliverEffect(a) PROVE Waits
  BY <1>0, <1>24, <1>00 DEF DeliverEffect
<1>25. ASSUME NEW a \in Attempt, CloseEffect(a) PROVE Waits
  BY <1>0, <1>25, <1>00 DEF CloseEffect, Advances
<1>26. ASSUME NEW a \in Attempt, KillLaunchEffect(a) PROVE Waits
  BY <1>0, <1>26, <1>00 DEF KillLaunchEffect, Advances
<1>27. ASSUME NEW a \in Attempt, NEW op \in {"finish", "recover"}, RecoverEffect(a, op) PROVE Waits
  BY <1>0, <1>27, <1>00 DEF RecoverEffect, Begins
<1>28. ASSUME NEW a \in Attempt, PruneEffect(a) PROVE Waits
  BY <1>0, <1>28, <1>00 DEF PruneEffect, Begins
<1>29. CASE UNCHANGED vars
  BY <1>0, <1>29 DEF vars, diskVars, worldVars
<1> QED
  BY <1>1, <1>2, <1>3, <1>4, <1>5, <1>6, <1>7, <1>8, <1>9, <1>10, <1>11, <1>12,
     <1>13, <1>14, <1>15, <1>16, <1>17, <1>18, <1>19, <1>20, <1>21, <1>22, <1>23, <1>24,
     <1>25, <1>26, <1>27, <1>28, <1>29
     DEF Effects

LEMMA InvStep == IInv /\ [Next]_vars => IInv'
  BY TypeStep, ShownStep, LockedStep, AuthorityStep, TruthStep, PairedStep, ReportedStep, AgedStep
     DEF IInv

LEMMA Invariance == Spec => []IInv
  BY InvInit, InvStep, PTL DEF Spec

-----------------------------------------------------------------------------
(* Theorems.                                                               *)

\* Type correctness: entries, receipts and invocations are of the kinds the journal knows.
THEOREM TypeCorrect == Spec => []TypeOK
<1> IInv => TypeOK
  BY DEF IInv
<1> QED
  BY Invariance, PTL

\* Prepare and Issue: whatever the gateway may hold alive of an attempt has an entry that
\* every power loss leaves in the secrets directory.
THEOREM AuthorityStays == Spec => []AuthorityKept
<1> IInv => AuthorityKept
  BY DEF IInv, Authority, AuthorityKept
<1> QED
  BY Invariance, PTL

\* The terminal commit: an ended entry has its receipt across any power loss, and both say
\* what the gateway did.
THEOREM EndsStand == Spec => []RecordedEndsStand
<1> IInv => RecordedEndsStand
  BY DEF IInv, Paired, Truth, RecordedEndsStand, EndedHasItsReceipt, RecordedEndsAreTrue
<1> QED
  BY Invariance, PTL

\* A reported end never reads as prepared again.
THEOREM ReportsLast == Spec => []ReportedIsDurable
<1> IInv => ReportedIsDurable
  BY DEF IInv
<1> QED
  BY Invariance, PTL

\* PruneExact removes an entry only an interval after the running boot synced its receipt.
THEOREM RemovalWaits == Spec => RemovalAwaitsInterval
<1>1. IInv /\ [Next]_vars => [Waits]_vars
  BY WaitsStep
<1>2. Spec => [][Waits]_vars
  BY <1>1, Invariance, PTL DEF Spec
<1> QED
  BY <1>2 DEF RemovalAwaitsInterval, Waits
===============================================================================
