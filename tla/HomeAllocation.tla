---------------------------- MODULE HomeAllocation ----------------------------
(***************************************************************************)
(* The allocation of managed profile homes (homelease_unix.go): hosted     *)
(* starts of several Werkstatt lanes and ad-hoc launches compete for homes *)
(* that Curator leases out.  Curator grants every well-formed acquire, so  *)
(* it is the launchers' two readings of the lease list, one before and one *)
(* after the acquire, that keep a home within one lane and a lane within   *)
(* one home.  What the manager does with a call is WerkstattLane's matter. *)
(***************************************************************************)
EXTENDS FiniteSets

CONSTANTS Adm,      \* admissions: one operation id and its home lease each
          Lane,     \* Werkstatt ids
          AdHoc,    \* holder.werkstatt: null
          Profile,  \* environment and profile names
          Digest,   \* profile lock digests
          Home,     \* home identities, under one manager root
          None,     \* no selection, or no home yet
          Place,    \* Adm -> the working directory and manager binding it starts with
          Later     \* what becomes of prepared leases, of the four below

ASSUME NullsAssumption == AdHoc \notin Lane /\ None \notin Home
ASSUME LaterAssumption == Later \subseteq {"active", "unknown", "released", "broken"}

VARIABLES
    record,   \* Lane -> the profile its configuration record selects
    at,       \* Adm -> where the admission stands
    running,  \* admissions an invocation works on, under their store's lock
    want,     \* Adm -> the lane, profile and digest it was admitted for
    lease     \* Adm -> Curator's lease for its request id

vars == <<record, at, running, want, lease>>

(* new        nothing is written yet                                       *)
(* selected   the record or the command line was read                      *)
(* journalled lease_requested or lease_prepared is in the journal          *)
(* acquired   this invocation holds the acquire's answer                   *)
(* cleared    this invocation's second list showed no conflict             *)
(* submitted  possibly_submitted or bind_pending is in the journal         *)
(* over       settled or abandoned after that; dropped: before             *)
Stage == {"new", "selected", "journalled", "acquired", "cleared", "submitted",
          "over", "dropped"}
Want == [lane : Lane \cup {AdHoc}, profile : Profile, digest : Digest]
Phase == {"none", "prepared", "active", "unknown", "released", "broken"}
NoLease == [phase |-> "none", home |-> None]

TypeOK ==
    /\ record \in [Lane -> Profile]
    /\ at \in [Adm -> Stage]
    /\ running \subseteq Adm
    /\ want \in [Adm -> Want \cup {None}]
    /\ lease \in [Adm -> [phase : Phase, home : Home \cup {None}]]

Init ==
    /\ record \in [Lane -> Profile]
    /\ at = [a \in Adm |-> "new"]
    /\ running = {}
    /\ want = [a \in Adm |-> None]
    /\ lease = [a \in Adm |-> NoLease]

Pending == {a \in Adm : at[a] \in {"journalled", "acquired", "cleared", "submitted"}}
Of(lane) == {a \in Adm : at[a] # "new" /\ want[a].lane = lane}

\* Mutant of Goto: the settlement's verdict is written for the stage.
GotoVerdict(a, stage) ==
    at' = [at EXCEPT ![a] = IF stage = "dropped" THEN "not_started" ELSE stage]

Goto(a, stage) == at' = [at EXCEPT ![a] = stage]

(***************************************************************************)
(* The allocation rule                                                     *)
(***************************************************************************)
blocking(a) == lease[a].phase \in {"prepared", "active", "unknown"}

SameLane(w, v) == w.lane = v.lane
SameProfile(w, v) == w.profile = v.profile

\* Allocation without a lease record: b's lease against a selection.
ConflictBefore(w, b) ==
    \/ SameProfile(w, want[b]) /\ ~SameLane(w, want[b])
    \/ /\ w.lane # AdHoc /\ SameLane(w, want[b])
       /\ ~SameProfile(w, want[b]) \/ w.digest # want[b].digest

SameHome(a, b) == lease[a].home = lease[b].home

\* Mutant of Conflict: a lane may spread over several homes.
ConflictForward(a, b) ==
    (SameHome(a, b) \/ SameProfile(want[a], want[b])) /\ ~SameLane(want[a], want[b])

\* Mutant of Conflict: the profile's name stands for its home.
ConflictByName(a, b) == ConflictBefore(want[a], b)

\* Allocation with the record of the acquired lease.
Conflict(a, b) ==
    \/ (SameHome(a, b) \/ SameProfile(want[a], want[b])) /\ ~SameLane(want[a], want[b])
    \/ /\ want[a].lane # AdHoc /\ SameLane(want[a], want[b])
       /\ \/ ~SameProfile(want[a], want[b])
          \/ want[a].digest # want[b].digest
          \/ ~SameHome(a, b)

(***************************************************************************)
(* A new admission                                                         *)
(***************************************************************************)
\* A lane's invocation locks the lane and meets its pending operation first.
SelectLane(a, lane, digest) ==
    /\ at[a] = "new" /\ Of(lane) \cap (running \cup Pending) = {}
    /\ want' = [want EXCEPT ![a] = [lane |-> lane, profile |-> record[lane],
                                    digest |-> digest]]
    /\ running' = running \cup {a}
    /\ Goto(a, "selected")
    /\ UNCHANGED <<record, lease>>

\* Ad-hoc admissions that an earlier launch of the profile, from the same working
\* directory and with the same manager, left behind.
LeftBehind(profile, place) ==
    {b \in (Of(AdHoc) \cap Pending) \ running :
        want[b].profile = profile /\ Place[b] = place}

\* Each ad-hoc launch has a store entry of its own, if none is to be recovered.
SelectAdHoc(a, profile, digest) ==
    /\ at[a] = "new" /\ LeftBehind(profile, Place[a]) = {}
    /\ want' = [want EXCEPT ![a] = [lane |-> AdHoc, profile |-> profile,
                                    digest |-> digest]]
    /\ running' = running \cup {a}
    /\ Goto(a, "selected")
    /\ UNCHANGED <<record, lease>>

\* No other lane's record selects the profile.
InventoryClear(w) ==
    \A other \in Lane \ {w.lane} : record[other] # w.profile

\* The lane's record inventory and the first list; then the journal is written.
ListBefore(a) ==
    /\ a \in running /\ at[a] = "selected"
    /\ want[a].lane # AdHoc => InventoryClear(want[a])
    /\ \A b \in Adm : blocking(b) => ~ConflictBefore(want[a], b)
    /\ Goto(a, "journalled")
    /\ UNCHANGED <<record, running, want, lease>>

(***************************************************************************)
(* Acquire, second list, submission                                        *)
(***************************************************************************)
\* Acquire, or its replay: a terminal lease settles the operation.
Acquire(a) ==
    /\ a \in running
    /\ \/ /\ at[a] = "journalled" /\ lease[a].phase = "none"
          /\ \E h \in Home : lease' = [lease EXCEPT ![a] = [phase |-> "prepared", home |-> h]]
          /\ Goto(a, "acquired")
       \/ /\ at[a] = "journalled" /\ lease[a].phase = "prepared"
          /\ Goto(a, "acquired")
          /\ UNCHANGED lease
       \/ /\ at[a] \in {"journalled", "submitted"}
          /\ lease[a].phase \in {"released", "broken"}
          /\ Goto(a, IF at[a] = "submitted" THEN "over" ELSE "dropped")
          /\ UNCHANGED lease
    /\ UNCHANGED <<record, running, want>>

\* Mutant of ListAfter: the acquire is trusted.
TrustAcquire(a) ==
    /\ a \in running /\ at[a] = "acquired"
    /\ lease[a].phase = "prepared"
    /\ Goto(a, "cleared")
    /\ UNCHANGED <<record, running, want, lease>>

\* The second list shows the own reservation unchanged and no conflict.
ListAfter(a) ==
    /\ a \in running /\ at[a] = "acquired"
    /\ lease[a].phase = "prepared"
    /\ \A b \in Adm : blocking(b) => ~Conflict(a, b)
    /\ Goto(a, "cleared")
    /\ UNCHANGED <<record, running, want, lease>>

\* possibly_submitted is written, and the manager is called.
Submit(a) ==
    /\ a \in running /\ at[a] = "cleared"
    /\ Goto(a, "submitted")
    /\ UNCHANGED <<record, running, want, lease>>

\* The operation is settled, or the operator abandons it: the lease stays.
Settle(a) ==
    /\ a \in running
    /\ \/ at[a] = "submitted" /\ Goto(a, "over")
       \/ at[a] = "journalled" /\ want[a].lane # AdHoc /\ Goto(a, "dropped")
    /\ UNCHANGED <<record, running, want, lease>>

(***************************************************************************)
(* The end of an invocation, and the next one                              *)
(***************************************************************************)
\* Mutant of End: possibly_submitted was never made durable.
EndForgetful(a) ==
    /\ a \in running
    /\ running' = running \ {a}
    /\ at' = [at EXCEPT ![a] = CASE at[a] \in {"acquired", "cleared", "submitted"} -> "journalled"
                                 [] at[a] = "selected" -> "new"
                                 [] OTHER -> at[a]]
    /\ UNCHANGED <<record, want, lease>>

\* A refusal, an error or a kill: what only the invocation knew is lost.
End(a) ==
    /\ a \in running
    /\ running' = running \ {a}
    /\ at' = [at EXCEPT ![a] = CASE at[a] \in {"acquired", "cleared"} -> "journalled"
                                 [] at[a] = "selected" -> "new"
                                 [] OTHER -> at[a]]
    /\ UNCHANGED <<record, want, lease>>

\* Recovery starts over with the acquire.  An ad-hoc launch never chooses
\* between two admissions.
Recover(a) ==
    /\ a \in Pending \ running
    /\ IF want[a].lane = AdHoc THEN LeftBehind(want[a].profile, Place[a]) = {a}
       ELSE Of(want[a].lane) \cap running = {}
    /\ running' = running \cup {a}
    /\ UNCHANGED <<record, at, want, lease>>

(***************************************************************************)
(* The operator and Curator                                                *)
(***************************************************************************)
EditRecord(lane, profile) ==
    /\ record' = [record EXCEPT ![lane] = profile]
    /\ UNCHANGED <<at, running, want, lease>>

\* Curator binds, loses sight of, releases or breaks a lease; the last two are
\* terminal.
Move(a, phase) ==
    /\ blocking(a) /\ phase \in Later
    /\ lease' = [lease EXCEPT ![a].phase = phase]
    /\ UNCHANGED <<record, at, running, want>>

Admission(a) ==
    \/ \E d \in Digest : \/ \E lane \in Lane : SelectLane(a, lane, d)
                         \/ \E p \in Profile : SelectAdHoc(a, p, d)
    \/ ListBefore(a) \/ Acquire(a) \/ ListAfter(a) \/ Submit(a) \/ Settle(a)
    \/ End(a) \/ Recover(a)

Next ==
    \/ \E a \in Adm : Admission(a) \/ \E phase \in Phase : Move(a, phase)
    \/ \E lane \in Lane, p \in Profile : EditRecord(lane, p)

Spec == Init /\ [][Next]_vars

(***************************************************************************)
(* Properties                                                              *)
(***************************************************************************)
\* Admissions whose manager may have been called under a lease still blocking.
Hosted == {a \in Adm : at[a] \in {"submitted", "over"} /\ blocking(a)}

\* "One selected managed profile home must not be shared by another Werkstatt or
\* an ad-hoc hosted holder" (FRONT-DOOR.md 6.2, lane allocation), whatever the
\* order of the competing acquires and lists, restarts and profile moves.
HomeExclusive ==
    \A a, b \in Hosted : lease[a].home = lease[b].home => want[a].lane = want[b].lane

\* The reverse rule: the starts of one lane whose leases block agree on profile,
\* digest and actual home; an abandoned or failed one is not exempt.
LaneSingleTuple ==
    \A a, b \in Hosted :
        want[a].lane = want[b].lane /\ want[a].lane # AdHoc =>
            want[a] = want[b] /\ lease[a].home = lease[b].home

\* The lane allocation rule in both directions.
AllocationRule == HomeExclusive /\ LaneSingleTuple

(***************************************************************************)
(* The abstract tenancy, implemented                                       *)
(***************************************************************************)
\* The mark possibly_submitted is the moment at which an admission moves in,
\* if its lease still blocks then.
stageOf == [a \in Adm |->
    IF at[a] \notin {"submitted", "over"} THEN "waiting"
    ELSE IF blocking(a) THEN "hosted" ELSE "gone"]
termsOf == [a \in Adm |->
    IF a \in Hosted THEN [want |-> want[a], home |-> lease[a].home] ELSE None]

T == INSTANCE Tenancy WITH Terms <- [want : Want, home : Home], NoTerms <- None,
                           stage <- stageOf, terms <- termsOf

\* However acquires, lists, kills, recoveries and record edits interleave, the
\* allocation is as if each start had moved in at once, under terms that then
\* held against everybody's and that it keeps (SubmitLeased, runLeased).
ImplementsTenancy == T!TSpec
===============================================================================
