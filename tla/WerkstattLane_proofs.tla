------------------------ MODULE WerkstattLane_proofs ------------------------
(***************************************************************************)
(* Proofs about WerkstattLane, for every registry, any number of operations*)
(* and configuration changes, and every set of commands.  None of the      *)
(* properties is inductive: an invocation acts on what it has read, and    *)
(* between two of its steps managers answer, sessions end and abandoned    *)
(* calls run on.  The invariant has two halves.  Durable ties the lane's   *)
(* files to its managers' ledgers.  UnderWay says what an invocation may   *)
(* still rely on at each of its steps, up to the call itself: Cleared says *)
(* that the recorded generation has ended or was written off, Unsent that  *)
(* before possibly_submitted nothing was sent.                             *)
(***************************************************************************)
EXTENDS WerkstattLane, FiniteSetTheorems, WellFoundedInduction, TLAPS

\* The steps that work on a pending operation, those of them that follow the
\* mark possibly_submitted, and those of a lane without one.
OpSteps == {"acquire", "owner", "check", "submit", "send", "calling", "status",
            "cancel", "finish", "bind", "settle", "clear"}
CallSteps == {"send", "calling", "status", "cancel", "finish", "bind"}
LaneSteps == {"command", "list", "journal", "stop", "refresh"}

\* The operations whose request has been written.
Requested == {o \in Op : request[o] # None}

\* Operations are numbered in the order of their requests; a pending one is the
\* last; one not yet requested has left no trace.
Numbered ==
    /\ Requested = 1..Cardinality(Requested)
    /\ journal # None => journal.op = Cardinality(Requested)
    /\ \A o \in Op : request[o] = None =>
          outcome[o] = "not_found" /\ sent[o] = 0 /\ o \notin flying

\* The managers: a generation exists where the ledger says so, its session was
\* launched there, and a store numbers its generations without a gap to spare.
Generations ==
    \A o \in Op :
        /\ (run[o].state # "none") <=> (outcome[o] \in {"started", "unknown"})
        /\ run[o].state = "none" => run[o] = NoRun
        /\ run[o].state # "none" =>
              /\ run[o].session \in Op
              /\ run[run[o].session].session = run[o].session
              /\ OpStore(run[o].session) = OpStore(o)
              /\ run[o].gen \in 1..Cardinality(Started(OpStore(o)))

\* A resume names a session of the same manager.
Targets ==
    \A o \in Op : request[o] # None /\ request[o].target # None =>
        /\ run[request[o].target].session = request[o].target
        /\ OpStore(request[o].target) = OpStore(o)

\* Where the invocation stands, the journal agrees.
Place ==
    /\ proc.at \in OpSteps => journal # None /\ proc.op = journal.op
    /\ proc.at \in LaneSteps => journal = None
    /\ proc.at \in {"check", "submit"} => journal.phase = "lease_prepared"
    /\ proc.at \in CallSteps => Submitted
    /\ proc.at \in {"list", "journal"} => entry[selected] # None
    /\ proc.at = "journal" /\ proc.target # None =>
          /\ run[proc.target].session = proc.target
          /\ OpStore(proc.target) = StoreOf[entry[selected]]

\* A launch or resume is called at most once for an operation.
Calls == \A o \in Op : sent[o] \leq 1 /\ (o \in flying => sent[o] = 1)

\* The record does not hold its manager's word against a new generation.
Cleared ==
    \/ liveness = None
    \/ liveness.source = "operator_override"
    \/ run[liveness.op].state = "down"

\* Before the journal says that the call may happen, nothing has happened.
Unsent ==
    journal # None /\ ~Submitted =>
        sent[journal.op] = 0 /\ outcome[journal.op] = "not_found" /\ Cleared

\* An operation that has no generation of its manager, and gets none.
Dead(o) == \/ outcome[o] \in {"failed", "cancelled"}
           \/ outcome[o] = "not_found" /\ sent[o] = 1 /\ o \notin flying
           \/ Disowned(o)

\* What an answer under way says is so.
Answers ==
    /\ proc.at = "calling" /\ proc.reply = "refused" => Dead(proc.op)
    /\ proc.at = "calling" /\ proc.reply = "session" => outcome[proc.op] = "started"
    /\ proc.at = "finish" => outcome[proc.op] = "started"
    /\ proc.at \in {"acquire", "owner", "check", "submit", "send"} => proc.reply = "none"

\* What a verdict claims.
Upheld(o, verdict) ==
    /\ verdict = "not_started" => lease[o] = "broken"
    /\ verdict = "abandoned" => o \in abandoned
    /\ verdict \in {"failed", "cancelled"} => Dead(o)

\* Every operation but the pending one is settled, and by a verdict that holds.
Settlements ==
    /\ \A o \in Op : Upheld(o, settled[o])
    /\ \A o \in Requested : settled[o] # "none" \/ (journal # None /\ journal.op = o)

\* The verdict an invocation is about to write, or has just written, holds.
InHand ==
    /\ proc.at = "settle" => proc.verdict # "none" /\ Upheld(proc.op, proc.verdict)
    /\ proc.at = "clear" => settled[proc.op] # "none"

\* The record is a bare override, or names a generation as it was started.
Recorded ==
    liveness # None =>
        IF liveness.op = None
        THEN /\ liveness.session = None /\ liveness.gen = 0
             /\ liveness.state = "down" /\ liveness.source = "operator_override"
        ELSE /\ run[liveness.op].state # "none"
             /\ liveness.session = run[liveness.op].session
             /\ liveness.gen = run[liveness.op].gen
             /\ OpStore(liveness.op) = StoreOf[liveness.reg]
             /\ liveness.state = "down" /\ liveness.source = "manager" =>
                   run[liveness.op].state = "down"

\* The owner's row the invocation works on is one of the record's session.
RowStands ==
    proc.row # None =>
        /\ proc.at \in LaneSteps
        /\ proc.at = "command" => proc.cmd = "recycle"
        /\ proc.at = "list" => proc.row.state = "down"
        /\ HasSession
        /\ proc.row.session = liveness.session
        /\ run[proc.row.op].session = liveness.session
        /\ run[proc.row.op].gen = proc.row.gen
        /\ proc.row.state = "down" => run[proc.row.op].state = "down"

\* What the invocation has established before it lists, journals or calls.
Ready ==
    /\ proc.at \in {"stop", "refresh"} => proc.row # None
    /\ proc.at = "list" => proc.row # None \/ Cleared
    /\ proc.at = "journal" => Cleared
    /\ proc.at = "send" =>
          sent[proc.op] = 0 /\ outcome[proc.op] = "not_found" /\ Cleared
    /\ proc.at = "calling" => sent[proc.op] = 1

\* What holds of the lane and its managers whatever an invocation is doing.
Durable ==
    /\ TypeOK /\ Numbered /\ Generations /\ Targets /\ Calls
    /\ Unsent /\ Settlements /\ Recorded

\* What the invocation under way relies on.
UnderWay == Place /\ Answers /\ InHand /\ RowStands /\ Ready

\* The inductive invariant.
IInv == Durable /\ UnderWay

-----------------------------------------------------------------------------
(* Counting, and which action changes what.                                *)

\* A nonempty set of bounded naturals has its maximum for a member.
LEMMA MaxOf ==
    ASSUME NEW n \in Nat, NEW S \in SUBSET (0..n), S # {}
    PROVE  Max(S) \in S /\ \A y \in S : Max(S) >= y
<1> DEFINE T == {k \in 0..n : n - k \in S}
           R == OpToRel(<, Nat)
<1>1. T \subseteq Nat
  OBVIOUS
<1>2. T # {}
  <2>1. PICK x \in S : TRUE
    OBVIOUS
  <2>2. n - x \in 0..n /\ n - (n - x) = x
    BY <2>1
  <2> QED
    BY <2>1, <2>2
<1>3. \A i, j \in Nat : <<i, j>> \in R <=> i < j
  BY DEF OpToRel
<1>4. IsWellFoundedOn(R, Nat)
  BY NatLessThanWellFounded
<1> HIDE DEF T, R
<1>5. PICK x \in T : \A y \in T : ~ (<<y, x>> \in R)
  BY <1>1, <1>2, <1>4, WFMin
<1>6. ASSUME NEW y \in T
      PROVE  x =< y
  <2>1. x \in Nat /\ y \in Nat /\ ~ (<<y, x>> \in R)
    BY <1>1, <1>5
  <2>2. ~ (y < x)
    BY <2>1, <1>3
  <2> QED
    BY <2>1, <2>2
<1>7. n - x \in S /\ x \in 0..n
  BY <1>5 DEF T
<1>8. ASSUME NEW y \in S
      PROVE  n - x >= y
  <2>1. n - y \in T
    BY DEF T
  <2> QED
    BY <2>1, <1>6, <1>7
<1>9. Max(S) = CHOOSE z \in S : \A y \in S : z >= y
  BY DEF Max
<1> QED
  BY <1>7, <1>8, <1>9

\* The operator changes registry, selection or profiles.
Configured ==
    \/ \E i \in Id, r \in Registration \cup {None} : Register(i, r)
    \/ \E i \in Id : Select(i)
    \/ \E o \in Op : run[o].session = o /\ Drift(o)

\* Which actions change which variable.
LEMMA Frames ==
    ASSUME Next
    PROVE
    /\ \/ journal' = journal
       \/ Clear \/ CheckOwner \/ MarkSubmitted \/ Bind \/ WritePending
    /\ \/ settled' = settled
       \/ Settle
    /\ \/ liveness' = liveness /\ abandoned' = abandoned
       \/ AbandonLiveness \/ Finish \/ UpList \/ RefreshStep \/ StatusCommand \/ Rebind
    /\ \/ request' = request
       \/ WritePending
    /\ \/ changes' = changes
       \/ Configured \/ (\E o \in Op : BreakLease(o))
    /\ \/ lease' = lease
       \/ Acquire \/ (\E o \in Op : BreakLease(o))
    /\ \/ flying' = flying
       \/ (\E o \in Op : ServeNothing(o)) \/ (\E o \in Op : ServeFailure(o))
       \/ (\E o \in Op : ServeReservation(o)) \/ (\E o \in Op : ServeStart(o)) \/ Send
       \/ Timeout
    /\ \/ outcome' = outcome
       \/ (\E o \in Op : ServeFailure(o)) \/ (\E o \in Op : ServeReservation(o))
       \/ (\E o \in Op : ServeStart(o)) \/ AskCancel
    /\ \/ run' = run
       \/ (\E o \in Op : ServeStart(o)) \/ (\E o \in Op : ExternalStop(o)) \/ StopCall
    /\ \/ key' = key
       \/ (\E o \in Op : ServeReservation(o)) \/ (\E o \in Op : ServeStart(o))
       \/ (\E o \in Op : ExternalStop(o)) \/ StopCall
    /\ \/ entry' = entry /\ selected' = selected /\ drifted' = drifted
       \/ Configured
    /\ \/ sent' = sent
       \/ Send
<1> USE DEF launcherVars, configVars, managerVars, Local
<1>1. CASE \E o \in Op : ServeNothing(o)
  BY <1>1 DEF ServeNothing, Answer
<1>2. CASE \E o \in Op : ServeFailure(o)
  BY <1>2 DEF ServeFailure, Answer
<1>3. CASE \E o \in Op : ServeReservation(o)
  BY <1>3 DEF ServeReservation, Answer
<1>4. CASE \E o \in Op : ServeStart(o)
  BY <1>4 DEF ServeStart, Answer
<1>5. CASE \E o \in Op : ExternalStop(o)
  BY <1>5 DEF ExternalStop, EndRun
<1>6. CASE AbandonLiveness
  BY <1>6 DEF AbandonLiveness
<1>7. CASE Settle
  BY <1>7 DEF Settle
<1>8. CASE Clear
  BY <1>8 DEF Clear
<1>9. CASE CheckPending
  BY <1>9 DEF CheckPending
<1>10. CASE Acquire
  BY <1>10 DEF Acquire
<1>11. CASE CheckOwner
  BY <1>11 DEF CheckOwner
<1>12. CASE CheckAllocation
  BY <1>12 DEF CheckAllocation
<1>13. CASE MarkSubmitted
  BY <1>13 DEF MarkSubmitted
<1>14. CASE Send
  BY <1>14 DEF Send
<1>15. CASE Receive
  BY <1>15 DEF Receive
<1>16. CASE Timeout
  BY <1>16 DEF Timeout
<1>17. CASE AskStatus
  BY <1>17 DEF AskStatus
<1>18. CASE AskCancel
  BY <1>18 DEF AskCancel
<1>19. CASE Finish
  BY <1>19 DEF Finish
<1>20. CASE Bind
  BY <1>20 DEF Bind
<1>21. CASE UpOwner
  BY <1>21 DEF UpOwner
<1>22. CASE UpList
  BY <1>22 DEF UpList, Refresh
<1>23. CASE WritePending
  BY <1>23 DEF WritePending
<1>24. CASE DownOwner
  BY <1>24 DEF DownOwner
<1>25. CASE StopCall
  BY <1>25 DEF StopCall, EndRun
<1>26. CASE RefreshStep
  BY <1>26 DEF RefreshStep, Refresh
<1>27. CASE Poll
  BY <1>27 DEF Poll
<1>28. CASE StatusCommand
  BY <1>28 DEF StatusCommand
<1>29. CASE Rebind
  BY <1>29 DEF Rebind
<1>30. CASE \E cmd \in Commands : Invoke(cmd)
  BY <1>30 DEF Invoke
<1>31. CASE Configured
  BY <1>31 DEF Configured, Register, Select, Drift, Configure
<1>32. CASE \E o \in Op : BreakLease(o)
  BY <1>32 DEF BreakLease
<1>33. CASE End
  BY <1>33 DEF End
<1> QED
  BY <1>1, <1>2, <1>3, <1>4, <1>5, <1>6, <1>7, <1>8, <1>9, <1>10, <1>11,
     <1>12, <1>13, <1>14, <1>15, <1>16, <1>17, <1>18, <1>19, <1>20, <1>21, <1>22,
     <1>23, <1>24, <1>25, <1>26, <1>27, <1>28, <1>29, <1>30, <1>31, <1>32, <1>33
  DEF Next, ManagerStep, JournalStep, CommandStep, OperatorStep, Configured
\* The requests are finitely many, so that they can be counted.
LEMMA RequestedFinite ==
    /\ IsFiniteSet(Requested)
    /\ Cardinality(Requested) \in Nat
<1>1. MaxOps \in Nat
  BY BoundsAssumption
<1>2. Requested \subseteq Op /\ IsFiniteSet(Op)
  BY <1>1, FS_Interval DEF Requested, Op
<1> QED
  BY <1>2, FS_Subset, FS_CardinalityType

\* The types of the records and what a request, a generation and a pending
\* operation owe to each other.
LEMMA Basics ==
    ASSUME Durable
    PROVE  /\ journal # None => /\ journal.op \in Op /\ journal.phase \in Phase
                                /\ journal \in Pending
                                /\ request[journal.op] # None
           /\ liveness # None => /\ liveness.reg \in Registration
                                 /\ liveness.op \in Op \cup {None}
                                 /\ liveness.session \in Op \cup {None}
                                 /\ liveness.gen \in 0..MaxOps
                                 /\ liveness \in Record
           /\ \A o \in Op : request[o] # None =>
                 request[o].reg \in Registration /\ request[o].target \in Op \cup {None}
           /\ \A o \in Op : /\ run[o].session \in Op \cup {None}
                            /\ run[o].gen \in 0..MaxOps
                            /\ run[o].state \in RunState
           /\ \A o \in Op : run[o].state # "none" => request[o] # None
           /\ \A o \in Op : run[o].session # None => run[o].state # "none"
           /\ flying \subseteq Requested
           /\ None \notin Op /\ MaxOps \in Nat
<1>0. None \notin Op /\ MaxOps \in Nat
  BY NoneAssumption, BoundsAssumption
<1>1. ASSUME journal # None
      PROVE  /\ journal.op \in Op /\ journal.phase \in Phase /\ journal \in Pending
             /\ request[journal.op] # None
  <2>1. journal \in Pending
    BY <1>1 DEF Durable, TypeOK
  <2>2. journal.op \in Op /\ journal.phase \in Phase
    BY <2>1 DEF Pending
  <2>4. Cardinality(Requested) \in Nat
    BY RequestedFinite
  <2>5. journal.op \in 1..Cardinality(Requested)
    BY <1>0, <1>1, <2>2, <2>4 DEF Durable, Numbered, Op
  <2>6. journal.op \in Requested
    BY <2>5 DEF Durable, Numbered
  <2> QED
    BY <2>1, <2>2, <2>6 DEF Requested
<1>2. ASSUME liveness # None
      PROVE  /\ liveness.reg \in Registration
             /\ liveness.op \in Op \cup {None}
             /\ liveness.session \in Op \cup {None}
             /\ liveness.gen \in 0..MaxOps
             /\ liveness \in Record
  <2>1. liveness \in Record
    BY <1>2 DEF Durable, TypeOK
  <2> QED
    BY <2>1 DEF Record
<1>3. ASSUME NEW o \in Op, request[o] # None
      PROVE  request[o].reg \in Registration /\ request[o].target \in Op \cup {None}
  <2>1. request[o] \in Request
    BY <1>3 DEF Durable, TypeOK
  <2> QED
    BY <2>1 DEF Request
<1>4. ASSUME NEW o \in Op
      PROVE  run[o].session \in Op \cup {None} /\ run[o].gen \in 0..MaxOps
             /\ run[o].state \in RunState
  BY DEF Durable, TypeOK
<1>5. ASSUME NEW o \in Op, run[o].state # "none"
      PROVE  request[o] # None
  BY <1>5 DEF Durable, Generations, Numbered
<1>6. ASSUME NEW o \in Op, run[o].session # None
      PROVE  run[o].state # "none"
  BY <1>6 DEF Durable, Generations, NoRun
<1>7. flying \subseteq Requested
  BY DEF Durable, TypeOK, Numbered, Requested
<1> QED
  BY <1>0, <1>1, <1>2, <1>3, <1>4, <1>5, <1>6, <1>7

\* The invocation's own variables.
ProcType == [at : Step, cmd : AllCommands, op : Op \cup {None}, row : Row \cup {None},
             target : Op \cup {None}, verdict : Verdict,
             reply : {"none", "session", "refused", "unavailable"}]

\* Generations are counted: a store never numbers one above how many it started.
LEMMA StartedFinite ==
    ASSUME NEW s
    PROVE  /\ IsFiniteSet(Started(s))
           /\ Cardinality(Started(s)) \in Nat
           /\ Cardinality(Started(s)) =< MaxOps
<1>1. IsFiniteSet(Op) /\ Cardinality(Op) = MaxOps
  <2>1. 0 \in Int /\ 1 \in Int /\ MaxOps \in Nat
    BY BoundsAssumption
  <2>2. IsFiniteSet(1..MaxOps) /\ Cardinality(1..MaxOps) = IF 1 > MaxOps THEN 0 ELSE MaxOps - 1 + 1
    BY <2>1, FS_Interval
  <2> QED
    BY <2>1, <2>2 DEF Op
<1>2. Started(s) \subseteq Op
  BY DEF Started
<1>3. IsFiniteSet(Started(s)) /\ Cardinality(Started(s)) =< Cardinality(Op)
  BY <1>1, <1>2, FS_Subset
<1> QED
  BY <1>1, <1>3, FS_CardinalityType

\* The number a manager gives its next generation is within its count.
LEMMA NextGenBound ==
    ASSUME Durable, NEW s
    PROVE  NextGen(s) \in 1..(Cardinality(Started(s)) + 1)
<1> DEFINE n == Cardinality(Started(s))
           S == {0} \cup {run[o].gen : o \in Started(s)}
<1>1. n \in Nat
  BY StartedFinite
<1>2. ASSUME NEW o \in Started(s)
      PROVE  run[o].gen \in 0..n
  BY <1>1, <1>2 DEF Durable, Generations, Started
<1>3. S \in SUBSET (0..n) /\ S # {}
  BY <1>1, <1>2
<1> HIDE DEF n
<1>4. Max(S) \in S
  BY <1>1, <1>3, MaxOf
<1>5. NextGen(s) = 1 + Max(S)
  BY DEF NextGen
<1> HIDE DEF S
<1>6. Max(S) \in 0..n
  BY <1>3, <1>4
<1> QED
  BY <1>1, <1>5, <1>6 DEF n

\* A start adds its operation to those its store has started.
LEMMA StartedGrows ==
    ASSUME NEW o \in Op, run[o].state = "none", run \in [Op -> [session : Op \cup {None},
              gen : 0..MaxOps, state : RunState]],
           NEW r, r.state # "none", run' = [run EXCEPT ![o] = r], UNCHANGED request
    PROVE  /\ Started(OpStore(o))' = Started(OpStore(o)) \cup {o}
           /\ Cardinality(Started(OpStore(o))') = Cardinality(Started(OpStore(o))) + 1
           /\ Cardinality(Started(OpStore(o))) + 1 =< MaxOps
           /\ \A s : s # OpStore(o) => Started(s)' = Started(s)
<1> DEFINE s == OpStore(o)
<1>1. \A p \in Op : OpStore(p)' = OpStore(p)
  BY DEF OpStore
<1>2. \A p \in Op : p # o => run'[p] = run[p]
  OBVIOUS
<1>3. run'[o] = r
  OBVIOUS
<1>4. \A t : Started(t)' = {p \in Op : run'[p].state # "none" /\ OpStore(p)' = t}
  BY <1>1 DEF Started
<1>5. Started(s)' = Started(s) \cup {o}
  <2>1. OpStore(o)' = s
    BY <1>1
  <2>2. Started(s)' = {p \in Op : run'[p].state # "none" /\ OpStore(p)' = s}
    BY <2>1, <1>4
  <2> QED
    BY <1>1, <1>2, <1>3, <2>1, <2>2 DEF Started
<1>6. ASSUME NEW t, t # s
      PROVE  Started(t)' = Started(t)
  <2>1. ASSUME NEW p \in Op
        PROVE  (run'[p].state # "none" /\ OpStore(p)' = t)
                   <=> (run[p].state # "none" /\ OpStore(p) = t)
    <3>1. CASE p = o
      BY <3>1, <1>1, <1>6
    <3>2. CASE p # o
      BY <3>2, <1>1, <1>2
    <3> QED
      BY <3>1, <3>2
  <2> QED
    BY <2>1, <1>4 DEF Started
<1>7. IsFiniteSet(Started(s)) /\ o \notin Started(s)
  BY StartedFinite DEF Started
<1>8. Cardinality(Started(s) \cup {o}) = Cardinality(Started(s)) + 1
  BY <1>7, FS_AddElement
<1>9. IsFiniteSet(Op) /\ Cardinality(Op) = MaxOps
  <2>1. MaxOps \in Nat
    BY BoundsAssumption
  <2>2. IsFiniteSet(1..MaxOps) /\ Cardinality(1..MaxOps) = IF 1 > MaxOps THEN 0 ELSE MaxOps - 1 + 1
    BY <2>1, FS_Interval
  <2> QED
    BY <2>1, <2>2 DEF Op
<1>10. Cardinality(Started(s) \cup {o}) =< MaxOps
  <2>1. Started(s) \cup {o} \subseteq Op
    BY DEF Started
  <2> QED
    BY <2>1, <1>9, FS_Subset
<1> QED
  BY <1>5, <1>6, <1>8, <1>10

\* A session's row tells of one of its generations.
LEMMA OwnersRow ==
    ASSUME Durable, NEW row, OwnerReads(row)
    PROVE  /\ HasSession /\ liveness.session \in Op
           /\ row.op \in Op /\ row.session = liveness.session
           /\ run[row.op].session = liveness.session
           /\ run[row.op].gen = row.gen /\ run[row.op].state = row.state
<1> DEFINE S == {o \in Op : run[o].session = liveness.session}
<1>1. HasSession /\ liveness.session \in Op
  BY Basics DEF OwnerReads, HasSession
<1>2. S # {}
  BY DEF OwnerReads, Started
<1>3. MaxOps \in Nat /\ S \in SUBSET (0..MaxOps)
  BY Basics DEF Op
<1>4. Max(S) \in S
  BY <1>2, <1>3, MaxOf
<1>5. Latest(liveness.session) = Max(S)
  BY DEF Latest
<1>6. row = [op |-> Latest(liveness.session), session |-> liveness.session,
             gen |-> run[Latest(liveness.session)].gen,
             state |-> run[Latest(liveness.session)].state]
  BY DEF OwnerReads, RowOf
<1> QED
  BY <1>1, <1>4, <1>5, <1>6

\* Every step leaves the invocation's variables within their types.
LEMMA ProcTyped ==
    ASSUME Durable, proc \in ProcType, UnderWay, Next
    PROVE  proc' \in ProcType
<1> DEFINE Reply == {"none", "session", "refused", "unavailable"}
<1>1. Idle \in ProcType
  BY DEF Idle, ProcType, Step, AllCommands, Verdict
<1>2. /\ proc.at \in Step /\ proc.cmd \in AllCommands /\ proc.op \in Op \cup {None}
      /\ proc.row \in Row \cup {None} /\ proc.target \in Op \cup {None}
      /\ proc.verdict \in Verdict /\ proc.reply \in Reply
  BY DEF ProcType
<1>3. \A s \in Step : [proc EXCEPT !.at = s] \in ProcType
  BY DEF ProcType
<1>4. \A r \in Reply : [proc EXCEPT !.reply = r] \in ProcType
  BY DEF ProcType
<1>5. \A v \in Verdict : [proc EXCEPT !.at = "settle", !.verdict = v] \in ProcType
  BY DEF ProcType, Step
<1>6. \A s \in Step, o \in Op : [Idle EXCEPT !.at = s, !.op = o] \in ProcType
  BY <1>1 DEF ProcType
<1>7. \A o \in Op :
         [Idle EXCEPT !.at = "settle", !.op = o, !.verdict = "abandoned"] \in ProcType
  BY <1>1 DEF ProcType, Step, Verdict
<1>8. \A s \in Step, c \in AllCommands : [Idle EXCEPT !.at = s, !.cmd = c] \in ProcType
  BY <1>1 DEF ProcType
<1>9. \A s \in Step, r \in Row \cup {None} : /\ [proc EXCEPT !.at = s, !.row = r] \in ProcType
                                /\ [proc EXCEPT !.row = r, !.at = s] \in ProcType
  BY DEF ProcType
<1>10. \A t \in Op \cup {None} : [proc EXCEPT !.at = "journal", !.target = t] \in ProcType
  BY DEF ProcType, Step
<1>11. \A c \in AllCommands : [proc EXCEPT !.cmd = c] \in ProcType
  BY DEF ProcType
<1>12. [proc EXCEPT !.at = "command", !.cmd = "new", !.row = None] \in ProcType
  BY DEF ProcType, Step, AllCommands
<1>13. /\ {"idle", "abandon", "pending", "acquire", "owner", "check", "submit",
           "send", "calling", "status", "cancel", "finish", "bind", "settle",
           "clear", "command", "list", "journal", "stop", "refresh"} \subseteq Step
       /\ {"failed", "cancelled", "not_started", "abandoned"} \subseteq Verdict
       /\ {"new", "status"} \subseteq AllCommands
  BY DEF Step, Verdict, AllCommands
<1>14. journal # None => journal.op \in Op
  BY Basics
<1>15. liveness # None => liveness.op \in Op \cup {None}
  BY Basics
<1> HIDE DEF Reply
<1> DEFINE Moved == \/ proc' = proc \/ proc' = Idle
                    \/ \E s \in Step : proc' = [proc EXCEPT !.at = s]
<1>16. Moved => proc' \in ProcType
  BY <1>1, <1>3
<1>17. ASSUME NEW out \in {"started", "failed", "cancelled", "not_found", "admitted", "unknown"},
              React(out)
       PROVE  proc' \in ProcType
  <2>1. CASE out = "started"
    <3>1. proc' = [proc EXCEPT !.at = "finish"]
      BY <1>17, <2>1 DEF React, Goto
    <3> QED
      BY <3>1, <1>3, <1>13
  <2>2. CASE out \in {"failed", "cancelled"}
    <3>1. proc' = [proc EXCEPT !.at = "settle", !.verdict = out]
      BY <1>17, <2>2 DEF React
    <3> QED
      BY <3>1, <2>2, <1>5, <1>13
  <2>3. CASE out = "not_found"
    <3>1. proc' = [proc EXCEPT !.at = "cancel"]
      BY <1>17, <2>3 DEF React, Goto
    <3> QED
      BY <3>1, <1>3, <1>13
  <2>4. CASE out = "admitted"
    <3>1. proc' = [proc EXCEPT !.at = "status"]
      BY <1>17, <2>4 DEF React, Goto
    <3> QED
      BY <3>1, <1>3, <1>13
  <2>5. CASE out = "unknown"
    BY <1>1, <1>17, <2>5 DEF React, Leave
  <2> QED
    BY <2>1, <2>2, <2>3, <2>4, <2>5
<1>18. ASSUME NEW o, NEW r \in Reply, Answer(o, r)
       PROVE  proc' \in ProcType
  BY <1>18, <1>4 DEF Answer
<1>19. Reply = {"none", "session", "refused", "unavailable"}
  BY DEF Reply
<1>20. CASE ManagerStep
  <2>1. CASE \E o \in Op : ServeNothing(o)
    BY <2>1, <1>18, <1>19 DEF ServeNothing
  <2>2. CASE \E o \in Op : ServeFailure(o)
    BY <2>2, <1>18, <1>19 DEF ServeFailure
  <2>3. CASE \E o \in Op : ServeReservation(o)
    BY <2>3, <1>18, <1>19 DEF ServeReservation
  <2>4. CASE \E o \in Op : ServeStart(o)
    BY <2>4, <1>18, <1>19 DEF ServeStart
  <2>5. CASE \E o \in Op : ExternalStop(o)
    BY <2>5 DEF ExternalStop
  <2> QED
    BY <1>20, <2>1, <2>2, <2>3, <2>4, <2>5 DEF ManagerStep
<1>21. CASE JournalStep
  <2>1. CASE AbandonLiveness
    <3>1. CASE journal # None
      <4>1. proc' \in {Idle, [Idle EXCEPT !.at = "settle", !.op = journal.op,
                                          !.verdict = "abandoned"]}
        BY <2>1, <3>1 DEF AbandonLiveness, Leave
      <4> QED
        BY <4>1, <3>1, <1>1, <1>7, <1>14
    <3>2. CASE journal = None
      <4>1. proc' = Idle
        BY <2>1, <3>2 DEF AbandonLiveness, Leave
      <4> QED
        BY <4>1, <1>1
    <3> QED
      BY <3>1, <3>2
  <2>2. CASE Settle \/ Clear \/ CheckAllocation \/ MarkSubmitted \/ Send \/ Timeout
             \/ Finish \/ Bind
    <3>1. Moved
      BY <2>2, <1>13 DEF Settle, Clear, CheckAllocation, MarkSubmitted, Send, Timeout,
                         Finish, Bind, Goto, Leave
    <3> QED
      BY <3>1, <1>16
  <2>3. CASE CheckPending
    <3>1. \/ proc' = [proc EXCEPT !.at = "command"]
          \/ journal # None /\ proc' = [Idle EXCEPT !.at = "acquire", !.op = journal.op]
      BY <2>3 DEF CheckPending
    <3>2. CASE proc' = [proc EXCEPT !.at = "command"]
      BY <3>2, <1>3, <1>13
    <3>3. CASE journal # None /\ proc' = [Idle EXCEPT !.at = "acquire", !.op = journal.op]
      BY <3>3, <1>6, <1>13, <1>14
    <3> QED
      BY <3>1, <3>2, <3>3
  <2>4. CASE Acquire
    <3>1. Moved \/ proc' = [proc EXCEPT !.at = "settle", !.verdict = "not_started"]
      BY <2>4, <1>13 DEF Acquire, Goto, Leave
    <3> QED
      BY <3>1, <1>5, <1>13, <1>16
  <2>5. CASE CheckOwner
    <3>1. Goto("status") \/ Goto("check")
      BY <2>5 DEF CheckOwner
    <3> QED
      BY <3>1, <1>3, <1>13 DEF Goto
  <2>6. CASE Receive
    <3>1. Moved \/ proc' = [proc EXCEPT !.at = "settle", !.verdict = "failed"]
      BY <2>6, <1>13 DEF Receive, Goto
    <3> QED
      BY <3>1, <1>5, <1>13, <1>16
  <2>7. CASE AskStatus
    <3>1. proc.op \in Op
      BY <2>7, <1>14 DEF AskStatus, UnderWay, Place, OpSteps
    <3>2. OutcomeOf(proc.op) \in {"started", "failed", "cancelled", "not_found",
                                  "admitted", "unknown"}
      BY <3>1 DEF OutcomeOf, Durable, TypeOK
    <3> QED
      BY <2>7, <3>2, <1>17 DEF AskStatus
  <2>8. CASE AskCancel
    <3>1. proc.op \in Op
      BY <2>8, <1>14 DEF AskCancel, UnderWay, Place, OpSteps
    <3>2. OutcomeOf(proc.op) \in {"started", "failed", "cancelled", "not_found",
                                  "admitted", "unknown"}
      BY <3>1 DEF OutcomeOf, Durable, TypeOK
    <3>3. React("cancelled") \/ React(OutcomeOf(proc.op)) \/ Leave
      BY <2>8 DEF AskCancel
    <3> QED
      BY <3>2, <3>3, <1>1, <1>17 DEF Leave
  <2> QED
    BY <1>21, <2>1, <2>2, <2>3, <2>4, <2>5, <2>6, <2>7, <2>8 DEF JournalStep
<1>22. CASE CommandStep
  <2>1. CASE UpOwner
    <3>1. \/ Goto("list")
          \/ \E row \in Row : proc' = [proc EXCEPT !.at = "list", !.row = row]
      BY <2>1 DEF UpOwner
    <3>2. CASE Goto("list")
      BY <3>2, <1>3, <1>13 DEF Goto
    <3>3. ASSUME NEW row \in Row, proc' = [proc EXCEPT !.at = "list", !.row = row]
          PROVE  proc' \in ProcType
      BY <3>3, <1>9, <1>13
    <3> QED
      BY <3>1, <3>2, <3>3
  <2>2. CASE UpList
    <3>1. \E t \in Op \cup {None} : proc' = [proc EXCEPT !.at = "journal", !.target = t]
      <4>1. \A o \in Op : run[o].session \in Op \cup {None}
        BY Basics
      <4>2. liveness # None => liveness.session \in Op \cup {None}
        BY Basics
      <4>3. \A s : Started(s) \subseteq Op
        BY DEF Started
      <4> QED
        BY <2>2, <4>1, <4>2, <4>3 DEF UpList, Listed, HasSession
    <3> QED
      BY <3>1, <1>10
  <2>3. CASE WritePending
    <3>1. NextOp \in Op /\ proc' = [Idle EXCEPT !.at = "acquire", !.op = NextOp]
      BY <2>3 DEF WritePending
    <3> QED
      BY <3>1, <1>6, <1>13
  <2>4. CASE DownOwner
    <3>1. \/ proc' = [proc EXCEPT !.cmd = "new"] \/ proc' = Idle
          \/ \E row \in Row :
                proc' = [proc EXCEPT !.row = row,
                           !.at = IF row.state = "down" THEN "refresh" ELSE "stop"]
      BY <2>4 DEF DownOwner, Leave
    <3>2. CASE proc' = [proc EXCEPT !.cmd = "new"] \/ proc' = Idle
      BY <3>2, <1>1, <1>11, <1>13
    <3>3. ASSUME NEW row \in Row,
                 proc' = [proc EXCEPT !.row = row,
                            !.at = IF row.state = "down" THEN "refresh" ELSE "stop"]
          PROVE  proc' \in ProcType
      <4>1. (IF row.state = "down" THEN "refresh" ELSE "stop") \in Step
        BY <1>13
      <4> QED
        BY <3>3, <4>1, <1>9
    <3> QED
      BY <3>1, <3>2, <3>3
  <2>5. CASE StopCall
    <3>1. PICK state \in {"draining", "down"} :
             proc' = [proc EXCEPT !.at = "refresh", !.row.state = state]
      BY <2>5 DEF StopCall
    <3>2. proc.row \in Row
      BY <2>5, <1>2 DEF StopCall, UnderWay, Ready
    <3>3. [proc.row EXCEPT !.state = state] \in Row
      BY <3>2 DEF Row, RunState
    <3>4. proc' = [proc EXCEPT !.at = "refresh", !.row = [proc.row EXCEPT !.state = state]]
      BY <3>1 DEF ProcType
    <3> QED
      BY <3>3, <3>4, <1>9, <1>13
  <2>6. CASE RefreshStep
    <3>1. Moved \/ proc' = [proc EXCEPT !.at = "command", !.cmd = "new", !.row = None]
      BY <2>6, <1>13 DEF RefreshStep, Goto, Leave
    <3> QED
      BY <3>1, <1>12, <1>16
  <2>7. CASE Poll
    <3>1. PICK row \in Row : proc' = [proc EXCEPT !.at = "refresh", !.row = row]
      BY <2>7 DEF Poll
    <3> QED
      BY <3>1, <1>9, <1>13
  <2>8. CASE StatusCommand
    <3>1. \/ proc' = Idle
          \/ \E row \in Row : proc' = [proc EXCEPT !.at = "refresh", !.row = row]
      BY <2>8 DEF StatusCommand, Leave
    <3>2. ASSUME NEW row \in Row, proc' = [proc EXCEPT !.at = "refresh", !.row = row]
          PROVE  proc' \in ProcType
      BY <3>2, <1>9, <1>13
    <3> QED
      BY <3>1, <3>2, <1>1
  <2>9. CASE Rebind
    BY <2>9, <1>11, <1>13 DEF Rebind
  <2> QED
    BY <1>22, <2>1, <2>2, <2>3, <2>4, <2>5, <2>6, <2>7, <2>8, <2>9 DEF CommandStep
<1>23. CASE OperatorStep
  <2>1. CASE \E cmd \in Commands : Invoke(cmd)
    <3>1. PICK cmd \in Commands : Invoke(cmd)
      BY <2>1
    <3>2. cmd \in AllCommands
      BY CommandsAssumption DEF AllCommands
    <3>3. (IF cmd = "abandon" THEN "abandon" ELSE "pending") \in Step
      BY <1>13
    <3>4. proc' = [Idle EXCEPT !.at = IF cmd = "abandon" THEN "abandon" ELSE "pending",
                               !.cmd = cmd]
      BY <3>1 DEF Invoke
    <3> QED
      BY <3>2, <3>3, <3>4, <1>8
  <2>2. CASE proc' = proc
    BY <2>2
  <2> QED
    BY <1>23, <2>1, <2>2 DEF OperatorStep, Register, Select, Drift, Configure, BreakLease
<1>24. CASE End
  BY <1>24, <1>1 DEF End, Leave
<1> QED
  BY <1>20, <1>21, <1>22, <1>23, <1>24 DEF Next

\* The lane and its managers stay within their types, one variable at a time.
LEMMA TypeStep ==
    ASSUME IInv, Next
    PROVE  TypeOK'
<1>0. Durable /\ UnderWay /\ TypeOK
  BY DEF IInv, Durable
<1>1. proc \in ProcType
  BY <1>0 DEF TypeOK, ProcType
<1>2. proc.op \in Op \/ proc.at \notin OpSteps
  BY <1>0, Basics DEF UnderWay, Place
<1>3. journal' \in Pending \cup {None}
  <2>1. CASE Clear
    BY <2>1 DEF Clear
  <2>2. CASE CheckOwner \/ MarkSubmitted \/ Bind
    <3>1. journal \in Pending
      BY <1>0, <2>2, Basics DEF CheckOwner, MarkSubmitted, Bind, UnderWay, Place, OpSteps
    <3>2. \/ journal' = journal
          \/ \E p \in Phase : journal' = [journal EXCEPT !.phase = p]
      BY <2>2 DEF CheckOwner, MarkSubmitted, Bind, SetPhase, Phase
    <3> QED
      BY <3>1, <3>2 DEF Pending
  <2>3. CASE WritePending
    BY <2>3 DEF WritePending, Pending, Phase
  <2>4. CASE journal' = journal
    BY <1>0, <2>4 DEF TypeOK
  <2> QED
    BY <2>1, <2>2, <2>3, <2>4, Frames
<1>4. settled' \in [Op -> Verdict]
  <2>1. CASE Settle
    <3>1. proc.op \in Op /\ proc.verdict \in Verdict
      BY <1>1, <1>2, <2>1 DEF Settle, OpSteps, ProcType
    <3>2. settled' = [settled EXCEPT ![proc.op] = proc.verdict]
      BY <2>1 DEF Settle
    <3> QED
      BY <1>0, <3>1, <3>2 DEF TypeOK
  <2> QED
    BY <1>0, <2>1, Frames DEF TypeOK
<1>5. liveness' \in Record \cup {None}
  <2>0. /\ {"up", "draining", "down", "unknown"} \subseteq RunState \cup {"unknown"}
        /\ RunState \subseteq RunState \cup {"unknown"}
    BY DEF RunState
  <2>1. CASE AbandonLiveness
    <3>1. CASE liveness' = liveness
      BY <1>0, <3>1 DEF TypeOK
    <3>2. CASE liveness # None /\ liveness' = [liveness EXCEPT !.state = "down",
                                                          !.source = "operator_override"]
      <4>1. liveness \in Record
        BY <1>0, <3>2, Basics
      <4> QED
        BY <3>2, <4>1, <2>0 DEF Record
    <3>3. CASE /\ journal # None
               /\ liveness' = [reg |-> request[journal.op].reg, op |-> None, gen |-> 0,
                               session |-> None, state |-> "down",
                               source |-> "operator_override"]
      <4>1. request[journal.op].reg \in Registration /\ MaxOps \in Nat
        BY <1>0, <3>3, Basics
      <4> QED
        BY <3>3, <4>1, <2>0 DEF Record
    <3> QED
      BY <2>1, <3>1, <3>2, <3>3 DEF AbandonLiveness
  <2>2. CASE Finish
    <3>1. proc.op \in Op /\ request[proc.op] # None
      BY <1>0, <1>2, <2>2, Basics DEF Finish, UnderWay, Place, OpSteps
    <3>2. liveness' = [reg |-> request[proc.op].reg, op |-> proc.op, gen |-> run[proc.op].gen,
                       session |-> run[proc.op].session, state |-> "up", source |-> "manager"]
      BY <2>2 DEF Finish
    <3>3. /\ request[proc.op].reg \in Registration
          /\ run[proc.op].session \in Op \cup {None} /\ run[proc.op].gen \in 0..MaxOps
      BY <1>0, <3>1, Basics
    <3> QED
      BY <3>1, <3>2, <3>3, <2>0 DEF Record
  <2>3. ASSUME proc.row \in Row, liveness # None, Refresh(proc.row)
        PROVE  liveness' \in Record
    <3>1. /\ proc.row.op \in Op /\ proc.row.gen \in 0..MaxOps /\ proc.row.session \in Op
          /\ proc.row.state \in RunState
      BY <1>0, <2>3, Basics DEF Row
    <3>2. liveness \in Record
      BY <1>0, <2>3, Basics
    <3>3. liveness' = [liveness EXCEPT !.op = proc.row.op, !.gen = proc.row.gen,
                                       !.session = proc.row.session,
                                       !.state = proc.row.state, !.source = "manager"]
      BY <2>3 DEF Refresh, Fresh
    <3> QED
      BY <3>1, <3>2, <3>3 DEF Record
  <2>4. proc.row # None => proc.row \in Row /\ liveness # None
    BY <1>0, <1>1 DEF ProcType, UnderWay, RowStands, HasSession
  <2>5. CASE UpList
    BY <1>0, <2>3, <2>4, <2>5 DEF UpList, launcherVars, TypeOK
  <2>6. CASE RefreshStep
    BY <1>0, <2>3, <2>4, <2>6 DEF RefreshStep, UnderWay, Ready
  <2>7. CASE StatusCommand
    <3>1. liveness # None /\ liveness \in Record
      BY <1>0, <2>7, Basics DEF StatusCommand, HasSession
    <3>2. \/ liveness' = liveness
          \/ \E source \in {liveness.source, "manager"} :
               liveness' = [liveness EXCEPT !.state = "unknown", !.source = source]
      BY <2>7 DEF StatusCommand, launcherVars
    <3> QED
      BY <3>1, <3>2 DEF Record
  <2>8. CASE Rebind
    <3>1. liveness # None /\ liveness \in Record
      BY <1>0, <2>8, Basics DEF Rebind, HasSession
    <3>2. IdOf[liveness.reg] \in Id
      BY <3>1, RegistryAssumption DEF Record
    <3>3. entry[IdOf[liveness.reg]] \in Registration
      BY <1>0, <2>8, <3>2 DEF Rebind, TypeOK
    <3>4. liveness' = [liveness EXCEPT !.reg = entry[IdOf[liveness.reg]]]
      BY <2>8 DEF Rebind
    <3> QED
      BY <3>1, <3>3, <3>4 DEF Record
  <2>9. CASE liveness' = liveness
    BY <1>0, <2>9 DEF TypeOK
  <2> QED
    BY <2>1, <2>2, <2>5, <2>6, <2>7, <2>8, <2>9, Frames
<1>6. abandoned' \subseteq Op
  <2>1. CASE AbandonLiveness
    <3>1. \/ abandoned' = abandoned
          \/ journal # None /\ abandoned' = abandoned \cup {journal.op}
          \/ liveness # None /\ liveness.op # None /\ abandoned' = abandoned \cup {liveness.op}
      BY <2>1 DEF AbandonLiveness
    <3> QED
      BY <1>0, <3>1, Basics DEF TypeOK
  <2>2. CASE abandoned' = abandoned
    BY <1>0, <2>2 DEF TypeOK
  <2>3. CASE Finish \/ UpList \/ RefreshStep \/ StatusCommand \/ Rebind
    <3>1. abandoned' = abandoned
      BY <2>3 DEF Finish, UpList, RefreshStep, Refresh, StatusCommand, Rebind, launcherVars
    <3> QED
      BY <2>2, <3>1
  <2> QED
    BY <2>1, <2>2, <2>3, Frames
<1>7. request' \in [Op -> Request \cup {None}]
  <2>1. CASE WritePending
    <3>1. entry[selected] \in Registration
      BY <1>0, <2>1 DEF WritePending, UnderWay, Place, TypeOK
    <3>2. [reg |-> entry[selected], target |-> proc.target] \in Request
      BY <1>1, <3>1 DEF Request, ProcType
    <3>3. request' = [request EXCEPT ![NextOp] = [reg |-> entry[selected], target |-> proc.target]]
      BY <2>1 DEF WritePending
    <3> QED
      BY <1>0, <3>2, <3>3 DEF TypeOK
  <2> QED
    BY <1>0, <2>1, Frames DEF TypeOK
<1>8. proc' \in ProcType
  BY <1>0, <1>1, ProcTyped
<1>9. /\ entry' \in [Id -> Registration \cup {None}]
      /\ selected' \in Id
      /\ drifted' \subseteq Op
  <2>1. CASE Configured
    BY <1>0, <2>1 DEF Configured, Register, Select, Drift, Configure, TypeOK
  <2> QED
    BY <1>0, <2>1, Frames DEF TypeOK
<1>10. changes' \in 0..MaxConfig
  <2>1. changes' = changes \/ (changes < MaxConfig /\ changes' = changes + 1)
    BY Frames DEF Configured, Register, Select, Drift, Configure, BreakLease
  <2> QED
    BY <1>0, <2>1, BoundsAssumption DEF TypeOK
<1>11. lease' \in [Op -> {"none", "prepared", "broken"}]
  <2>1. CASE Acquire
    BY <1>0, <1>2, <2>1 DEF Acquire, TypeOK, OpSteps
  <2>2. CASE \E o \in Op : BreakLease(o)
    BY <1>0, <2>2 DEF BreakLease, TypeOK
  <2> QED
    BY <1>0, <2>1, <2>2, Frames DEF TypeOK
<1>12. flying' \subseteq Op
  <2>0. flying \subseteq Op
    BY <1>0 DEF TypeOK
  <2>1. ASSUME NEW o, flying' = flying \ {o}
        PROVE  flying' \subseteq Op
    BY <2>0, <2>1
  <2>2. CASE \E o \in Op : ServeNothing(o) \/ ServeFailure(o) \/ ServeReservation(o)
                             \/ ServeStart(o)
    BY <2>1, <2>2 DEF ServeNothing, ServeFailure, ServeReservation, ServeStart, Answer
  <2>3. CASE Send
    <3>1. proc.op \in Op /\ flying' = flying \cup {proc.op}
      BY <1>2, <2>3 DEF Send, OpSteps
    <3> QED
      BY <2>0, <3>1
  <2>4. CASE Timeout
    BY <2>1, <2>4 DEF Timeout
  <2> QED
    BY <2>0, <2>2, <2>3, <2>4, Frames
<1>13. outcome' \in [Op -> {"not_found", "admitted", "started", "unknown", "failed", "cancelled"}]
  <2>1. CASE \E o \in Op : ServeFailure(o) \/ ServeReservation(o) \/ ServeStart(o)
    BY <1>0, <2>1 DEF ServeFailure, ServeReservation, ServeStart, TypeOK
  <2>2. CASE AskCancel
    <3>1. outcome' = outcome \/ outcome' = [outcome EXCEPT ![proc.op] = "cancelled"]
      BY <2>2 DEF AskCancel
    <3> QED
      BY <1>0, <3>1 DEF TypeOK
  <2> QED
    BY <1>0, <2>1, <2>2, Frames DEF TypeOK
<1>14. run' \in [Op -> [session : Op \cup {None}, gen : 0..MaxOps, state : RunState]]
  <2>1. ASSUME NEW o \in Op, ServeStart(o)
        PROVE  run' \in [Op -> [session : Op \cup {None}, gen : 0..MaxOps, state : RunState]]
    <3>1. run[o].state = "none" /\ request[o] # None
      BY <1>0, <2>1 DEF ServeStart, Durable, Generations, Numbered
    <3> DEFINE r == [session |-> IF request[o].target = None THEN o ELSE request[o].target,
                     gen |-> NextGen(OpStore(o)), state |-> "up"]
    <3>2. run' = [run EXCEPT ![o] = r] /\ UNCHANGED request
      BY <2>1 DEF ServeStart, launcherVars
    <3>3. NextGen(OpStore(o)) \in 1..(Cardinality(Started(OpStore(o))) + 1)
      BY <1>0, NextGenBound
    <3>4. r.state # "none"
      OBVIOUS
    <3>5. Cardinality(Started(OpStore(o))) + 1 =< MaxOps
      <4> HIDE DEF r
      <4> QED
        BY <1>0, <3>1, <3>2, <3>4, StartedGrows DEF TypeOK
    <3>6. NextGen(OpStore(o)) \in 0..MaxOps
      <4>1. Cardinality(Started(OpStore(o))) \in Nat /\ MaxOps \in Nat
        BY StartedFinite, BoundsAssumption
      <4> QED
        BY <3>3, <3>5, <4>1
    <3>7. r \in [session : Op \cup {None}, gen : 0..MaxOps, state : RunState]
      BY <1>0, <3>1, <3>6, Basics DEF RunState
    <3> HIDE DEF r
    <3> QED
      BY <1>0, <3>2, <3>7 DEF TypeOK
  <2>2. ASSUME NEW o \in Op, NEW state \in RunState, EndRun(o, state)
        PROVE  run' \in [Op -> [session : Op \cup {None}, gen : 0..MaxOps, state : RunState]]
    <3>1. run' = [run EXCEPT ![o].state = state]
      BY <2>2 DEF EndRun
    <3>2. [run[o] EXCEPT !.state = state] \in
             [session : Op \cup {None}, gen : 0..MaxOps, state : RunState]
      BY <1>0 DEF TypeOK
    <3>3. run' = [run EXCEPT ![o] = [run[o] EXCEPT !.state = state]]
      BY <1>0, <3>1 DEF TypeOK
    <3> HIDE DEF RunState
    <3> QED
      BY <1>0, <3>2, <3>3 DEF TypeOK
  <2>3. CASE \E o \in Op : ExternalStop(o)
    BY <2>2, <2>3 DEF ExternalStop, RunState
  <2>4. CASE StopCall
    <3>1. proc.row.op \in Op
      BY <1>0, <1>1, <2>4 DEF StopCall, UnderWay, Ready, ProcType, Row
    <3> QED
      BY <2>2, <2>4, <3>1 DEF StopCall, RunState
  <2> QED
    BY <1>0, <2>1, <2>3, <2>4, Frames DEF TypeOK
<1>15. key' \in [Store -> Op \cup {None}]
  <2>1. CASE \E o \in Op : ServeReservation(o) \/ ServeStart(o)
    BY <1>0, <2>1 DEF ServeReservation, ServeStart, TypeOK
  <2>2. CASE (\E o \in Op : ExternalStop(o)) \/ StopCall
    <3>1. key' = key \/ \E o : key' = [key EXCEPT ![OpStore(o)] = None]
      BY <2>2 DEF ExternalStop, StopCall, EndRun
    <3> QED
      BY <1>0, <3>1 DEF TypeOK
  <2> QED
    BY <1>0, <2>1, <2>2, Frames DEF TypeOK
<1>16. sent' \in [Op -> Nat]
  BY <1>0, Frames DEF Send, TypeOK
<1> QED
  BY <1>3, <1>4, <1>5, <1>6, <1>7, <1>8, <1>9, <1>10, <1>11, <1>12, <1>13, <1>14, <1>15, <1>16
  DEF TypeOK, ProcType

-----------------------------------------------------------------------------
(* What a step leaves of the files and of the managers.                    *)

\* What the lane and its managers never take back.
LEMMA Growth ==
    ASSUME IInv, Next
    PROVE  /\ \A o \in Op : request[o] # None => request'[o] = request[o]
           /\ \A o \in Op : outcome[o] # "not_found" => outcome'[o] = outcome[o]
           /\ \A o \in Op : run[o].state # "none" =>
                 /\ run'[o].session = run[o].session /\ run'[o].gen = run[o].gen
                 /\ run'[o].state # "none"
                 /\ run[o].state = "down" => run'[o].state = "down"
           /\ \A o \in Op : lease[o] = "broken" => lease'[o] = "broken"
           /\ abandoned \subseteq abandoned' /\ drifted \subseteq drifted'
           /\ \A o \in Op : Dead(o) => Dead(o)'
<1>0. Durable /\ UnderWay /\ TypeOK
  BY DEF IInv, Durable
<1>1. ASSUME NEW o \in Op, request[o] # None
      PROVE  request'[o] = request[o]
  <2>1. CASE WritePending
    <3>1. Requested = 1..Cardinality(Requested) /\ NextOp = Cardinality(Requested) + 1
      BY <1>0 DEF Durable, Numbered, NextOp, Requested
    <3>2. o \in 1..Cardinality(Requested)
      BY <1>1, <3>1 DEF Requested
    <3>3. o # NextOp
      <4>1. o \in Nat
        BY Basics, <1>0 DEF Op
      <4>2. Cardinality(Requested) \in Nat
        BY RequestedFinite
      <4> QED
        BY <3>1, <3>2, <4>1, <4>2
    <3> QED
      BY <1>0, <2>1, <3>3 DEF WritePending, TypeOK
  <2> QED
    BY <2>1, Frames
<1>2. ASSUME NEW o \in Op, outcome[o] # "not_found"
      PROVE  outcome'[o] = outcome[o]
  <2>1. CASE \E p \in Op : ServeFailure(p) \/ ServeReservation(p) \/ ServeStart(p)
    BY <1>0, <1>2, <2>1 DEF ServeFailure, ServeReservation, ServeStart, TypeOK
  <2>2. CASE AskCancel
    <3>1. outcome' = outcome \/ (/\ outcome' = [outcome EXCEPT ![proc.op] = "cancelled"]
                                 /\ outcome[proc.op] \in {"not_found", "cancelled"})
      BY <2>2, Zenon DEF AskCancel, OutcomeOf
    <3> QED
      BY <1>0, <1>2, <3>1 DEF TypeOK
  <2> QED
    BY <2>1, <2>2, Frames
<1>3. ASSUME NEW o \in Op, run[o].state # "none"
      PROVE  /\ run'[o].session = run[o].session /\ run'[o].gen = run[o].gen
             /\ run'[o].state # "none"
             /\ run[o].state = "down" => run'[o].state = "down"
  <2>1. CASE \E p \in Op : ServeStart(p)
    <3>1. PICK p \in Op : ServeStart(p)
      BY <2>1
    <3>2. p # o
      BY <1>0, <1>3, <3>1 DEF ServeStart, Durable, Generations
    <3>3. run'[o] = run[o]
      BY <1>0, <3>1, <3>2 DEF ServeStart, TypeOK
    <3> QED
      BY <1>3, <3>3
  <2>2. ASSUME NEW p \in Op, NEW state, state # "none", EndRun(p, state),
               ~Alive(p) => state = "down"
        PROVE  /\ run'[o].session = run[o].session /\ run'[o].gen = run[o].gen
               /\ run'[o].state # "none"
               /\ run[o].state = "down" => run'[o].state = "down"
    <3>1. run' = [run EXCEPT ![p].state = state]
      BY <2>2 DEF EndRun
    <3>2. CASE p = o
      BY <1>0, <2>2, <3>1, <3>2 DEF Alive, TypeOK
    <3>3. CASE p # o
      BY <1>0, <1>3, <3>1, <3>3 DEF TypeOK
    <3> QED
      BY <3>2, <3>3
  <2>3. CASE \E p \in Op : ExternalStop(p)
    BY <2>2, <2>3 DEF ExternalStop
  <2>4. CASE StopCall
    <3>1. proc.row.op \in Op
      BY <1>0, <2>4 DEF StopCall, UnderWay, Ready, TypeOK, Row
    <3>2. \E state \in {"draining", "down"} : /\ EndRun(proc.row.op, state)
                                              /\ ~Alive(proc.row.op) => state = "down"
      BY <2>4 DEF StopCall
    <3> QED
      BY <2>2, <3>1, <3>2
  <2> QED
    BY <1>3, <2>1, <2>3, <2>4, Frames
<1>4. ASSUME NEW o \in Op, lease[o] = "broken"
      PROVE  lease'[o] = "broken"
  <2>1. CASE Acquire
    BY <1>0, <1>4, <2>1 DEF Acquire, TypeOK
  <2>2. CASE \E p \in Op : BreakLease(p)
    BY <1>0, <1>4, <2>2 DEF BreakLease, TypeOK
  <2> QED
    BY <1>4, <2>1, <2>2, Frames
<1>5. abandoned \subseteq abandoned'
  <2>1. CASE AbandonLiveness
    BY <2>1 DEF AbandonLiveness
  <2>2. CASE Finish \/ UpList \/ RefreshStep \/ StatusCommand \/ Rebind
    BY <2>2 DEF Finish, UpList, RefreshStep, Refresh, StatusCommand, Rebind, launcherVars
  <2> QED
    BY <2>1, <2>2, Frames
<1>6. drifted \subseteq drifted'
  BY Frames DEF Configured, Register, Select, Drift, Configure
<1>7. ASSUME NEW o \in Op, Dead(o)
      PROVE  Dead(o)'
  <2>1. CASE outcome[o] \in {"failed", "cancelled"}
    BY <1>2, <2>1 DEF Dead
  <2>2. CASE Disowned(o)
    <3>1. run[o].session \in Op
      BY <1>0, <2>2 DEF Disowned, TypeOK
    <3>2. run[o].state # "none"
      BY <1>0, <3>1, Basics
    <3> QED
      BY <1>3, <1>6, <2>2, <3>2 DEF Dead, Disowned
  <2>3. CASE outcome[o] = "not_found" /\ sent[o] = 1 /\ o \notin flying
    <3>1. sent'[o] = 1 /\ o \notin flying'
      <4>1. CASE Send
        <5>1. proc.op # o
          BY <1>0, <2>3, <4>1 DEF Send, UnderWay, Ready
        <5> QED
          BY <1>0, <2>3, <4>1, <5>1 DEF Send, TypeOK
      <4>2. CASE \E p \in Op : ServeNothing(p) \/ ServeFailure(p) \/ ServeReservation(p)
                               \/ ServeStart(p)
        BY <2>3, <4>2 DEF ServeNothing, ServeFailure, ServeReservation, ServeStart, Answer
      <4>3. CASE Timeout
        BY <2>3, <4>3 DEF Timeout
      <4>4. CASE flying' = flying /\ sent' = sent
        BY <2>3, <4>4
      <4> QED
        BY <4>1, <4>2, <4>3, <4>4, Frames, <2>3
    <3>2. outcome'[o] \in {"not_found", "cancelled"}
      <4>1. CASE \E p \in Op : ServeFailure(p) \/ ServeReservation(p) \/ ServeStart(p)
        BY <1>0, <2>3, <4>1 DEF ServeFailure, ServeReservation, ServeStart, TypeOK
      <4>2. CASE AskCancel
        <5>1. outcome' = outcome \/ outcome' = [outcome EXCEPT ![proc.op] = "cancelled"]
          BY <4>2 DEF AskCancel
        <5> QED
          BY <1>0, <2>3, <5>1 DEF TypeOK
      <4> QED
        BY <2>3, <4>1, <4>2, Frames
    <3> QED
      BY <3>1, <3>2 DEF Dead
  <2> QED
    BY <1>7, <2>1, <2>2, <2>3 DEF Dead
<1> QED
  BY <1>1, <1>2, <1>3, <1>4, <1>5, <1>6, <1>7

\* A pending operation is the last one requested, and requests leave no gap.
LEMMA NumberedStep ==
    ASSUME IInv, Next
    PROVE  Numbered'
<1>0. Durable /\ UnderWay /\ TypeOK
  BY DEF IInv, Durable
<1> DEFINE n == Cardinality(Requested)
<1>1. Requested = 1..n /\ n \in Nat
  BY <1>0, RequestedFinite DEF Durable, Numbered
<1>2. /\ Requested' = 1..Cardinality(Requested)'
      /\ journal' # None => journal'.op = Cardinality(Requested)'
  <2>1. CASE WritePending
    <3>1. NextOp = n + 1 /\ NextOp \in Op
      BY <2>1 DEF NextOp, WritePending, Requested
    <3>2. request' = [request EXCEPT ![NextOp] = [reg |-> entry[selected], target |-> proc.target]]
      BY <2>1 DEF WritePending
    <3>3. [reg |-> entry[selected], target |-> proc.target] # None
      <4>1. entry[selected] \in Registration /\ proc.target \in Op \cup {None}
        BY <1>0, <2>1 DEF WritePending, UnderWay, Place, TypeOK
      <4> QED
        BY <4>1, NoneAssumption DEF Request
    <3>4. Requested' = Requested \cup {NextOp}
      BY <1>0, <3>1, <3>2, <3>3 DEF Requested, TypeOK
    <3>5. Requested' = 1..(n + 1)
      BY <1>1, <3>1, <3>4
    <3>6. Cardinality(Requested') = n + 1
      <4> HIDE DEF n
      <4>1. Cardinality(1..(n + 1)) = n + 1
        BY <1>1, FS_Interval
      <4> QED
        BY <3>5, <4>1
    <3>7. journal' = [op |-> NextOp, phase |-> "lease_requested"]
      BY <2>1 DEF WritePending
    <3> QED
      BY <3>1, <3>5, <3>6, <3>7
  <2>2. CASE request' = request
    <3>1. Requested' = Requested
      BY <2>2 DEF Requested
    <3>2. journal' # None => journal # None /\ journal'.op = journal.op
      <4>1. CASE Clear
        BY <4>1 DEF Clear
      <4>2. CASE CheckOwner \/ MarkSubmitted \/ Bind
        <5>1. journal # None /\ journal \in Pending
          BY <1>0, <4>2, Basics DEF CheckOwner, MarkSubmitted, Bind, UnderWay, Place, OpSteps
        <5>2. journal' = journal \/ \E p : journal' = [journal EXCEPT !.phase = p]
          BY <4>2 DEF CheckOwner, MarkSubmitted, Bind, SetPhase
        <5> QED
          BY <5>1, <5>2 DEF Pending
      <4>3. CASE WritePending
        <5>1. NextOp \in Op /\ NextOp = n + 1
          BY <4>3 DEF WritePending, NextOp, Requested
        <5>2. NextOp \notin Requested
          BY <1>1, <5>1
        <5>3. request'[NextOp] = [reg |-> entry[selected], target |-> proc.target]
          BY <1>0, <4>3, <5>1 DEF WritePending, TypeOK
        <5>4. entry[selected] \in Registration /\ proc.target \in Op \cup {None}
          BY <1>0, <4>3 DEF WritePending, UnderWay, Place, TypeOK
        <5>5. request'[NextOp] # None
          BY <5>3, <5>4, NoneAssumption DEF Request
        <5> QED
          BY <2>2, <5>1, <5>2, <5>5 DEF Requested
      <4> QED
        BY <4>1, <4>2, <4>3, Frames
    <3> QED
      BY <1>0, <1>1, <3>1, <3>2 DEF Durable, Numbered
  <2> QED
    BY <2>1, <2>2, Frames
<1>3. ASSUME NEW o \in Op, request'[o] = None
      PROVE  outcome'[o] = "not_found" /\ sent'[o] = 0 /\ o \notin flying'
  <2>1. request[o] = None
    BY <1>3, Growth
  <2>2. outcome[o] = "not_found" /\ sent[o] = 0 /\ o \notin flying
    BY <1>0, <2>1 DEF Durable, Numbered
  <2>3. proc.at \in OpSteps => proc.op # o
    BY <1>0, <2>1, Basics DEF UnderWay, Place
  <2>4. outcome'[o] = "not_found"
    <3>1. CASE \E p \in Op : ServeFailure(p) \/ ServeReservation(p) \/ ServeStart(p)
      BY <1>0, <2>2, <3>1 DEF ServeFailure, ServeReservation, ServeStart, TypeOK
    <3>2. CASE AskCancel
      <4>1. proc.op # o
        BY <2>3, <3>2 DEF AskCancel, OpSteps
      <4>2. outcome' = outcome \/ \E w : outcome' = [outcome EXCEPT ![proc.op] = w]
        BY <3>2 DEF AskCancel
      <4> QED
        BY <1>0, <2>2, <4>1, <4>2 DEF TypeOK
    <3> QED
      BY <2>2, <3>1, <3>2, Frames
  <2>5. sent'[o] = 0 /\ o \notin flying'
    <3>1. CASE Send
      <4>1. proc.op # o
        BY <2>3, <3>1 DEF Send, OpSteps
      <4> QED
        BY <1>0, <2>2, <3>1, <4>1 DEF Send, TypeOK
    <3>2. CASE \E p \in Op : ServeNothing(p) \/ ServeFailure(p) \/ ServeReservation(p)
                             \/ ServeStart(p)
      BY <2>2, <3>2 DEF ServeNothing, ServeFailure, ServeReservation, ServeStart, Answer
    <3>3. CASE Timeout
      BY <2>2, <3>3 DEF Timeout
    <3>4. CASE sent' = sent /\ flying' = flying
      BY <2>2, <3>4
    <3> QED
      BY <2>2, <3>1, <3>2, <3>3, <3>4, Frames
  <2> QED
    BY <2>4, <2>5
<1> QED
  BY <1>2, <1>3 DEF Numbered

\* A manager's stores and requests: what a step leaves of a generation.
LEMMA GenerationsStep ==
    ASSUME IInv, Next
    PROVE  Generations'
<1>0. Durable /\ UnderWay /\ TypeOK
  BY DEF IInv, Durable
<1>1. \A o \in Op : request[o] # None => OpStore(o)' = OpStore(o)
  BY Growth DEF OpStore
<1>2. ASSUME NEW o \in Op
      PROVE  (run'[o].state # "none") <=> (outcome'[o] \in {"started", "unknown"})
  <2>0. (run[o].state # "none") <=> (outcome[o] \in {"started", "unknown"})
    BY <1>0 DEF Durable, Generations
  <2>1. CASE \E p \in Op : ServeFailure(p) \/ ServeReservation(p)
    BY <1>0, <2>0, <2>1 DEF ServeFailure, ServeReservation, TypeOK
  <2>2. CASE \E p \in Op : ServeStart(p)
    <3>1. PICK p \in Op : ServeStart(p)
      BY <2>2
    <3>2. CASE p = o
      BY <1>0, <3>1, <3>2 DEF ServeStart, TypeOK
    <3>3. CASE p # o
      BY <1>0, <2>0, <3>1, <3>3 DEF ServeStart, TypeOK
    <3> QED
      BY <3>2, <3>3
  <2>3. CASE AskCancel
    <3>1. run' = run
      BY <2>3 DEF AskCancel
    <3>2. outcome' = outcome \/ (/\ outcome' = [outcome EXCEPT ![proc.op] = "cancelled"]
                                 /\ outcome[proc.op] \in {"not_found", "cancelled"})
      BY <2>3, Zenon DEF AskCancel, OutcomeOf
    <3> QED
      BY <1>0, <2>0, <3>1, <3>2 DEF TypeOK
  <2>4. CASE \E p \in Op, state \in RunState \ {"none"} : EndRun(p, state)
                            /\ run[p].state # "none" /\ outcome' = outcome
    <3>1. PICK p \in Op, state \in RunState \ {"none"} :
             EndRun(p, state) /\ run[p].state # "none" /\ outcome' = outcome
      BY <2>4
    <3>2. run' = [run EXCEPT ![p].state = state]
      BY <3>1 DEF EndRun
    <3> QED
      BY <1>0, <2>0, <3>1, <3>2 DEF TypeOK
  <2>5. CASE \E p \in Op : ExternalStop(p)
    BY <2>4, <2>5 DEF ExternalStop, Alive, RunState
  <2>6. CASE StopCall
    <3>1. proc.row # None /\ proc.row.op \in Op
      BY <1>0, <2>6 DEF StopCall, UnderWay, Ready, TypeOK, Row
    <3>2. run[proc.row.op].session # None
      BY <1>0, <3>1 DEF UnderWay, RowStands, HasSession
    <3>3. run[proc.row.op].state # "none"
      BY <1>0, <3>1, <3>2, Basics
    <3>4. \E state \in {"draining", "down"} : EndRun(proc.row.op, state)
      BY <2>6 DEF StopCall
    <3> QED
      BY <2>4, <2>6, <3>1, <3>3, <3>4 DEF StopCall, RunState
  <2>7. CASE run' = run /\ outcome' = outcome
    BY <2>0, <2>7
  <2> QED
    BY <2>1, <2>2, <2>3, <2>5, <2>6, <2>7, Frames
<1>3. ASSUME NEW o \in Op, run[o].state = "none"
      PROVE  run'[o] = NoRun \/ ServeStart(o)
  <2>0. run[o] = NoRun
    BY <1>0, <1>3 DEF Durable, Generations
  <2>1. CASE \E p \in Op : ServeStart(p)
    <3>1. PICK p \in Op : ServeStart(p)
      BY <2>1
    <3> QED
      BY <1>0, <2>0, <3>1 DEF ServeStart, TypeOK
  <2>2. CASE \E p \in Op : ExternalStop(p)
    <3>1. PICK p \in Op : ExternalStop(p)
      BY <2>2
    <3>2. p # o
      BY <1>3, <3>1 DEF ExternalStop, Alive
    <3> QED
      BY <1>0, <2>0, <3>1, <3>2 DEF ExternalStop, EndRun, TypeOK
  <2>3. CASE StopCall
    <3>1. proc.row # None /\ proc.row.op \in Op
      BY <1>0, <2>3 DEF StopCall, UnderWay, Ready, TypeOK, Row
    <3>2. run[proc.row.op].session # None
      BY <1>0, <3>1 DEF UnderWay, RowStands, HasSession
    <3>3. proc.row.op # o
      BY <1>0, <1>3, <3>1, <3>2, Basics
    <3>4. \E state : run' = [run EXCEPT ![proc.row.op].state = state]
      BY <2>3 DEF StopCall, EndRun
    <3> QED
      BY <1>0, <2>0, <3>3, <3>4 DEF TypeOK
  <2> QED
    BY <2>0, <2>1, <2>2, <2>3, Frames
<1>4. ASSUME NEW o \in Op, run'[o].state = "none"
      PROVE  run'[o] = NoRun
  <2>1. run[o].state = "none"
    BY <1>4, Growth
  <2>2. ~ServeStart(o)
    BY <1>0, <1>4 DEF ServeStart, TypeOK
  <2> QED
    BY <1>3, <2>1, <2>2
<1>5. ASSUME NEW o \in Op, run[o].state # "none"
      PROVE  /\ run'[o].session \in Op
             /\ run'[run'[o].session].session = run'[o].session
             /\ OpStore(run[o].session)' = OpStore(o)'
             /\ run'[o].gen \in 1..Cardinality(Started(OpStore(o)))'
  <2> DEFINE s == run[o].session
             k == OpStore(o)
  <2>1. /\ s \in Op /\ run[s].session = s /\ OpStore(s) = k
        /\ run[o].gen \in 1..Cardinality(Started(k))
    BY <1>0, <1>5 DEF Durable, Generations
  <2>2. run'[o].session = s /\ run'[o].gen = run[o].gen
    BY <1>5, Growth
  <2>3. run[s].state # "none"
    BY <1>0, <2>1, Basics
  <2>4. run'[s].session = s
    BY <2>1, <2>3, Growth
  <2>5. request[o] # None /\ request[s] # None
    BY <1>0, <1>5, <2>1, <2>3, Basics
  <2>6. OpStore(s)' = k /\ OpStore(o)' = k
    <3>1. OpStore(o)' = OpStore(o)
      BY <1>1, <2>5
    <3>2. request'[s] = request[s]
      BY <2>1, <2>5, Growth
    <3>3. StoreOf[request'[s].reg] = StoreOf[request[s].reg]
      BY <3>2
    <3>4. StoreOf[request'[run'[o].session].reg] = StoreOf[request[s].reg]
      BY <2>2, <3>2
    <3> QED
      BY <2>1, <3>1, <3>3, <3>4 DEF OpStore
  <2>7. Started(k) \subseteq {p \in Op : run'[p].state # "none" /\ OpStore(p)' = k}
    <3>1. ASSUME NEW p \in Started(k)
          PROVE  p \in Op /\ run'[p].state # "none" /\ OpStore(p)' = k
      <4>1. p \in Op /\ run[p].state # "none" /\ OpStore(p) = k
        BY DEF Started
      <4>2. request[p] # None
        BY <1>0, <4>1, Basics
      <4>3. run'[p].state # "none"
        BY <4>1, Growth
      <4> QED
        BY <1>1, <4>1, <4>2, <4>3
    <3> QED
      BY <3>1
  <2>8. Cardinality(Started(k)) =< Cardinality({p \in Op : run'[p].state # "none" /\ OpStore(p)' = k})
        /\ Cardinality({p \in Op : run'[p].state # "none" /\ OpStore(p)' = k}) \in Nat
        /\ Cardinality(Started(k)) \in Nat
    <3>1. MaxOps \in Nat
      BY BoundsAssumption
    <3>2. IsFiniteSet(Op)
      BY <3>1, FS_Interval DEF Op
    <3>3. {p \in Op : run'[p].state # "none" /\ OpStore(p)' = k} \subseteq Op
      OBVIOUS
    <3>4. IsFiniteSet({p \in Op : run'[p].state # "none" /\ OpStore(p)' = k})
      BY <3>2, <3>3, FS_Subset
    <3> HIDE DEF k
    <3> QED
      BY <2>7, <3>4, FS_Subset, FS_CardinalityType
  <2>9. Started(OpStore(o))' = {p \in Op : run'[p].state # "none" /\ OpStore(p)' = k}
    BY <2>6 DEF Started
  <2>10. run[o].gen \in 1..Cardinality({p \in Op : run'[p].state # "none" /\ OpStore(p)' = k})
    <3> HIDE DEF k
    <3> QED
      BY <2>1, <2>8
  <2> QED
    BY <2>1, <2>2, <2>4, <2>6, <2>9, <2>10
<1>6. ASSUME NEW o \in Op, run[o].state = "none", run'[o].state # "none"
      PROVE  /\ run'[o].session \in Op
             /\ run'[run'[o].session].session = run'[o].session
             /\ OpStore(run[o].session)' = OpStore(o)'
             /\ run'[o].gen \in 1..Cardinality(Started(OpStore(o)))'
  <2> DEFINE k == OpStore(o)
             r == [session |-> IF request[o].target = None THEN o ELSE request[o].target,
                   gen |-> NextGen(k), state |-> "up"]
  <2>1. ServeStart(o)
    BY <1>3, <1>6 DEF NoRun
  <2>2. run' = [run EXCEPT ![o] = r] /\ request' = request
    BY <2>1 DEF ServeStart, launcherVars
  <2>3. run'[o] = r
    BY <1>0, <2>2 DEF TypeOK
  <2>4. request[o] # None /\ request[o].target \in Op \cup {None}
    BY <1>0, <2>1, Basics DEF ServeStart, Requested
  <2>5. /\ r.session \in Op
        /\ run'[r.session].session = r.session
        /\ OpStore(r.session) = k
    <3>1. CASE request[o].target = None
      BY <2>3, <3>1
    <3>2. CASE request[o].target # None
      <4> DEFINE t == request[o].target
      <4>1. t \in Op /\ run[t].session = t /\ OpStore(t) = k
        BY <1>0, <2>4, <3>2 DEF Durable, Targets
      <4>2. t # o
        BY <1>0, <1>6, <4>1, Basics
      <4>3. run'[t].session = t
        BY <1>0, <2>2, <4>1, <4>2 DEF TypeOK
      <4> QED
        BY <3>2, <4>1, <4>3
    <3> QED
      BY <3>1, <3>2
  <2>6. \A p : OpStore(p)' = OpStore(p)
    BY <2>2 DEF OpStore
  <2>7. /\ Started(OpStore(o))' = Started(k) \cup {o}
        /\ Cardinality(Started(OpStore(o))') = Cardinality(Started(k)) + 1
    <3>1. r.state # "none"
      OBVIOUS
    <3> HIDE DEF r
    <3> QED
      BY <1>0, <1>6, <2>2, <3>1, StartedGrows DEF TypeOK
  <2>8. NextGen(k) \in 1..(Cardinality(Started(k)) + 1)
    BY <1>0, NextGenBound
  <2>9. OpStore(run[o].session)' = OpStore(o)'
    <3>1. StoreOf[request'[run'[o].session].reg] = StoreOf[request[r.session].reg]
      BY <2>2, <2>3
    <3> QED
      BY <2>2, <2>5, <3>1 DEF OpStore
  <2> QED
    BY <2>3, <2>5, <2>7, <2>8, <2>9
<1> QED
  BY <1>2, <1>4, <1>5, <1>6 DEF Generations

\* The session a resume names stays one of the manager it was found at.
LEMMA TargetsStep ==
    ASSUME IInv, Next
    PROVE  Targets'
<1>0. Durable /\ UnderWay /\ TypeOK
  BY DEF IInv, Durable
<1> SUFFICES ASSUME NEW o \in Op, request'[o] # None, request'[o].target # None
             PROVE  /\ run'[request'[o].target].session = request'[o].target
                    /\ StoreOf[request'[request'[o].target].reg] = StoreOf[request'[o].reg]
  BY DEF Targets, OpStore
<1> DEFINE t == request'[o].target
<1>1. ASSUME t \in Op, run[t].session = t
      PROVE  run'[t].session = t /\ request'[t] = request[t]
  <2>1. run[t].state # "none" /\ request[t] # None
    BY <1>0, <1>1, Basics
  <2> QED
    BY <1>1, <2>1, Growth
<1>2. CASE request[o] # None
  <2>1. request'[o] = request[o]
    BY <1>2, Growth
  <2>2. t \in Op /\ run[t].session = t /\ StoreOf[request[t].reg] = StoreOf[request[o].reg]
    BY <1>0, <1>2, <2>1, Basics DEF Durable, Targets, OpStore
  <2>3. run'[t].session = t /\ request'[t] = request[t]
    BY <1>1, <2>2
  <2> QED
    BY <2>1, <2>2, <2>3
<1>3. CASE request[o] = None
  <2>1. WritePending
    BY <1>3, Frames
  <2>2. request' = [request EXCEPT ![NextOp] = [reg |-> entry[selected], target |-> proc.target]]
    BY <2>1 DEF WritePending
  <2>3. request'[o] = [reg |-> entry[selected], target |-> proc.target]
    BY <1>0, <1>3, <2>1, <2>2 DEF WritePending, TypeOK
  <2>4. t = proc.target /\ t \in Op /\ request'[o].reg = entry[selected]
    BY <1>0, <2>3 DEF TypeOK
  <2>5. run[t].session = t /\ StoreOf[request[t].reg] = StoreOf[entry[selected]]
    BY <1>0, <2>1, <2>4 DEF WritePending, UnderWay, Place, OpStore
  <2>6. run'[t].session = t /\ request'[t] = request[t]
    BY <1>1, <2>4, <2>5
  <2> QED
    BY <2>4, <2>5, <2>6
<1> QED
  BY <1>2, <1>3

\* Only the step from possibly_submitted calls, and only once.
LEMMA CallsStep ==
    ASSUME IInv, Next
    PROVE  Calls'
<1>0. Durable /\ UnderWay /\ TypeOK
  BY DEF IInv, Durable
<1>1. Calls /\ TypeOK
  BY <1>0 DEF Durable
<1>2. CASE Send
  <2>1. proc.op \in Op /\ sent[proc.op] = 0
    BY <1>0, <1>2, Basics DEF Send, UnderWay, Place, Ready, OpSteps
  <2>2. flying' = flying \cup {proc.op} /\ sent' = [sent EXCEPT ![proc.op] = @ + 1]
    BY <1>2 DEF Send
  <2> QED
    BY <1>1, <2>1, <2>2 DEF Calls, TypeOK
<1>3. CASE sent' = sent /\ flying' = flying
  BY <1>1, <1>3 DEF Calls
<1>4. CASE \E o \in Op : ServeNothing(o) \/ ServeFailure(o) \/ ServeReservation(o)
                         \/ ServeStart(o)
  BY <1>1, <1>4 DEF ServeNothing, ServeFailure, ServeReservation, ServeStart, Answer, Calls
<1>5. CASE Timeout
  BY <1>1, <1>5 DEF Timeout, Calls
<1> QED
  BY <1>2, <1>3, <1>4, <1>5, Frames

\* A record that no longer stands in the way does not come to stand in it by a
\* step of anyone else.
LEMMA ClearedStays ==
    ASSUME IInv, Next, Cleared, liveness' = liveness
    PROVE  Cleared'
<1>1. CASE liveness = None \/ liveness.source = "operator_override"
  BY <1>1 DEF Cleared
<1>2. CASE liveness # None /\ liveness.source # "operator_override"
  <2>1. liveness.op # None
    BY <1>2 DEF IInv, Durable, Recorded
  <2>2. liveness.op \in Op
    BY <1>2, <2>1, Basics DEF IInv
  <2>3. run[liveness.op].state = "down"
    BY <1>2 DEF Cleared
  <2>4. run'[liveness.op].state = "down"
    BY <2>2, <2>3, Growth
  <2> QED
    BY <2>4 DEF Cleared
<1> QED
  BY <1>1, <1>2

\* Until the journal says possibly_submitted, no call has been made for its
\* operation and the record does not stand against one.
LEMMA UnsentStep ==
    ASSUME IInv, Next
    PROVE  Unsent'
<1>0. Durable /\ UnderWay /\ TypeOK
  BY DEF IInv, Durable
<1> SUFFICES ASSUME journal' # None, ~Submitted'
             PROVE  sent'[journal'.op] = 0 /\ outcome'[journal'.op] = "not_found" /\ Cleared'
  BY DEF Unsent
<1>1. CASE WritePending
  <2>1. journal'.op = NextOp /\ NextOp \in Op
    BY <1>1 DEF WritePending
  <2>2. request[NextOp] = None
    <3>1. Requested = 1..Cardinality(Requested) /\ Cardinality(Requested) \in Nat
          /\ NextOp = Cardinality(Requested) + 1
      BY <1>0, RequestedFinite DEF Durable, Numbered, NextOp, Requested
    <3>2. NextOp \notin Requested
      BY <3>1
    <3> QED
      BY <2>1, <3>2 DEF Requested
  <2>3. sent[NextOp] = 0 /\ outcome[NextOp] = "not_found"
    BY <1>0, <2>1, <2>2 DEF Durable, Numbered
  <2>4. Cleared
    BY <1>0, <1>1 DEF WritePending, UnderWay, Ready
  <2>5. UNCHANGED <<liveness, sent, outcome>>
    BY <1>1 DEF WritePending, Local, managerVars
  <2>6. Cleared'
    BY <2>4, <2>5, ClearedStays
  <2> QED
    BY <2>1, <2>3, <2>5, <2>6
<1>2. CASE ~WritePending
  <2>1. journal # None /\ ~Submitted /\ journal'.op = journal.op
    <3>1. CASE CheckOwner \/ MarkSubmitted \/ Bind
      <4>1. journal # None /\ journal \in Pending
        BY <1>0, <3>1, Basics DEF CheckOwner, MarkSubmitted, Bind, UnderWay, Place, OpSteps
      <4>2. \/ journal' = journal
            \/ journal' = [journal EXCEPT !.phase = "possibly_submitted"]
            \/ journal' = [journal EXCEPT !.phase = "bind_pending"]
            \/ /\ journal' = [journal EXCEPT !.phase = "lease_prepared"]
               /\ journal.phase = "lease_requested"
        BY <3>1 DEF CheckOwner, MarkSubmitted, Bind, SetPhase
      <4> QED
        BY <4>1, <4>2 DEF Pending, Submitted
    <3>2. CASE journal' = journal
      BY <3>2 DEF Submitted
    <3>3. ~Clear
      BY DEF Clear
    <3> QED
      BY <1>2, <3>1, <3>2, <3>3, Frames
  <2> DEFINE o == journal.op
  <2>2. o \in Op /\ sent[o] = 0 /\ outcome[o] = "not_found" /\ Cleared
    BY <1>0, <2>1, Basics DEF Durable, Unsent
  <2>3. proc.at \notin CallSteps /\ proc.at \notin LaneSteps
    BY <1>0, <2>1 DEF UnderWay, Place
  <2>4. o \notin flying
    BY <1>0, <2>2 DEF Durable, Calls
  <2>5. sent' = sent
    BY <2>3, Frames DEF Send, CallSteps
  <2>6. outcome'[o] = "not_found"
    <3>1. ~AskCancel
      BY <2>3 DEF AskCancel, CallSteps
    <3>2. CASE \E p \in Op : ServeFailure(p) \/ ServeReservation(p) \/ ServeStart(p)
      BY <1>0, <2>2, <2>4, <3>2 DEF ServeFailure, ServeReservation, ServeStart, TypeOK
    <3> QED
      BY <2>2, <3>1, <3>2, Frames
  <2>7. Cleared'
    <3>1. CASE liveness' = liveness
      BY <2>2, <3>1, ClearedStays
    <3>2. CASE AbandonLiveness
      <4>1. \/ liveness' = [reg |-> request[o].reg, op |-> None, gen |-> 0, session |-> None,
                            state |-> "down", source |-> "operator_override"]
            \/ liveness # None /\ liveness' = [liveness EXCEPT !.state = "down",
                                                   !.source = "operator_override"]
            \/ liveness' = liveness
        BY <2>1, <3>2 DEF AbandonLiveness
      <4>2. liveness # None => liveness \in Record
        BY <1>0, Basics
      <4>3. CASE liveness # None /\ liveness' = [liveness EXCEPT !.state = "down",
                                                   !.source = "operator_override"]
        BY <4>2, <4>3 DEF Record, Cleared
      <4> QED
        BY <3>1, <4>1, <4>3 DEF Cleared
    <3>3. ~Finish /\ ~UpList /\ ~RefreshStep /\ ~StatusCommand /\ ~Rebind
      BY <2>3 DEF Finish, UpList, RefreshStep, StatusCommand, Rebind, CallSteps, LaneSteps
    <3> QED
      BY <3>1, <3>2, <3>3, Frames
  <2> QED
    BY <2>1, <2>2, <2>5, <2>6, <2>7
<1> QED
  BY <1>1, <1>2

\* A verdict that holds goes on holding.
LEMMA UpheldStays ==
    ASSUME IInv, Next, NEW o \in Op, NEW v, Upheld(o, v)
    PROVE  Upheld(o, v)'
<1>1. lease[o] = "broken" => lease'[o] = "broken"
  BY Growth
<1>2. o \in abandoned => o \in abandoned'
  BY Growth
<1>3. Dead(o) => Dead(o)'
  BY Growth
<1> QED
  BY <1>1, <1>2, <1>3 DEF Upheld

\* Every verdict goes on holding, and only a pending operation lacks one.
LEMMA SettlementsStep ==
    ASSUME IInv, Next
    PROVE  Settlements'
<1>0. Durable /\ UnderWay /\ TypeOK
  BY DEF IInv, Durable
<1>1. ASSUME Settle
      PROVE  /\ proc.op \in Op /\ proc.verdict # "none" /\ Upheld(proc.op, proc.verdict)
             /\ settled' = [settled EXCEPT ![proc.op] = proc.verdict]
  BY <1>0, <1>1, Basics DEF Settle, UnderWay, Place, InHand, OpSteps
<1>2. ASSUME NEW o \in Op
      PROVE  Upheld(o, settled[o])'
  <2>1. Upheld(o, settled[o])
    BY <1>0 DEF Durable, Settlements
  <2>2. \E v : Upheld(o, v) /\ settled'[o] = v
    <3>1. CASE Settle /\ o = proc.op
      BY <1>0, <1>1, <3>1 DEF TypeOK
    <3>2. CASE Settle /\ o # proc.op
      BY <1>0, <1>1, <2>1, <3>2 DEF TypeOK
    <3>3. CASE settled' = settled
      BY <2>1, <3>3
    <3> QED
      BY <3>1, <3>2, <3>3, Frames
  <2>3. PICK v : Upheld(o, v) /\ settled'[o] = v
    BY <2>2
  <2>4. Upheld(o, v)'
    BY <2>3, UpheldStays
  <2> QED
    BY <2>3, <2>4 DEF Upheld
<1>3. ASSUME NEW o \in Op, request'[o] # None
      PROVE  settled'[o] # "none" \/ (journal' # None /\ journal'.op = o)
  <2>1. CASE request[o] = None
    <3>1. WritePending
      BY <1>3, <2>1, Frames
    <3>2. o = NextOp
      BY <1>0, <1>3, <2>1, <3>1 DEF WritePending, TypeOK
    <3>3. journal' = [op |-> NextOp, phase |-> "lease_requested"] /\ journal' \in Pending
      BY <3>1 DEF WritePending, Pending, Phase
    <3>4. journal' # None
      BY <3>3, NoneAssumption
    <3> QED
      BY <3>2, <3>3, <3>4
  <2>2. CASE request[o] # None
    <3>1. settled[o] # "none" \/ (journal # None /\ journal.op = o)
      BY <1>0, <2>2 DEF Durable, Settlements, Requested
    <3>2. settled[o] # "none" => settled'[o] # "none"
      <4>1. CASE Settle
        BY <1>0, <1>1, <4>1 DEF TypeOK
      <4> QED
        BY <4>1, Frames
    <3>3. CASE journal # None /\ journal.op = o
      <4>1. CASE Clear
        <5>1. settled[o] # "none"
          BY <1>0, <3>3, <4>1 DEF Clear, UnderWay, InHand
        <5> QED
          BY <3>2, <5>1
      <4>2. CASE CheckOwner \/ MarkSubmitted \/ Bind
        <5>1. journal \in Pending
          BY <1>0, <3>3, Basics
        <5>2. journal' = journal \/ \E p \in Phase : journal' = [journal EXCEPT !.phase = p]
          BY <4>2 DEF CheckOwner, MarkSubmitted, Bind, SetPhase, Phase
        <5>3. journal' \in Pending /\ journal'.op = o
          BY <3>3, <5>1, <5>2 DEF Pending
        <5> QED
          BY <5>3, NoneAssumption
      <4>3. CASE journal' = journal
        BY <3>3, <4>3
      <4>4. ~WritePending
        BY <3>3 DEF WritePending
      <4> QED
        BY <4>1, <4>2, <4>3, <4>4, Frames
    <3> QED
      BY <3>1, <3>2, <3>3
  <2> QED
    BY <2>1, <2>2
<1> QED
  BY <1>2, <1>3 DEF Settlements, Requested

\* Two generations of one session are on one manager.
LEMMA SameSession ==
    ASSUME Durable, NEW o \in Op, NEW p \in Op,
           run[o].session # None, run[p].session = run[o].session
    PROVE  OpStore(p) = OpStore(o) /\ run[p].state # "none"
<1>1. run[o].state # "none" /\ run[p].state # "none"
  BY Basics
<1>2. OpStore(run[o].session) = OpStore(o) /\ OpStore(run[p].session) = OpStore(p)
  BY <1>1 DEF Durable, Generations
<1> QED
  BY <1>1, <1>2

\* The row an invocation commits names a generation of the record's session.
LEMMA RefreshedRecord ==
    ASSUME IInv, Next, proc.row # None, Refresh(proc.row)
    PROVE  /\ Recorded' /\ liveness' # None
           /\ liveness'.session = proc.row.session /\ liveness'.session # None
           /\ liveness'.reg = liveness.reg
           /\ liveness'.source = "manager" /\ liveness'.state = proc.row.state
           /\ liveness'.op = proc.row.op
<1>0. Durable /\ UnderWay /\ TypeOK
  BY DEF IInv, Durable
<1> DEFINE p == proc.row.op
<1>1. /\ p \in Op /\ proc.row.session \in Op
      /\ HasSession /\ proc.row.session = liveness.session
      /\ run[p].session = liveness.session /\ run[p].gen = proc.row.gen
      /\ proc.row.state = "down" => run[p].state = "down"
  BY <1>0 DEF TypeOK, Row, UnderWay, RowStands
<1>2. liveness # None /\ liveness.session # None /\ liveness \in Record
  BY <1>0, <1>1, Basics DEF HasSession
<1>3. liveness' = [liveness EXCEPT !.op = proc.row.op, !.gen = proc.row.gen,
                                   !.session = proc.row.session,
                                   !.state = proc.row.state, !.source = "manager"]
  BY DEF Refresh, Fresh
<1>4. /\ liveness'.op = p /\ liveness'.gen = proc.row.gen
      /\ liveness'.session = proc.row.session /\ liveness'.state = proc.row.state
      /\ liveness'.source = "manager" /\ liveness'.reg = liveness.reg
  BY <1>2, <1>3 DEF Record
<1>5. liveness.op # None /\ liveness.op \in Op
  BY <1>0, <1>2, Basics DEF Durable, Recorded
<1>6. run[liveness.op].session = liveness.session /\ OpStore(liveness.op) = StoreOf[liveness.reg]
  BY <1>0, <1>2, <1>5 DEF Durable, Recorded
<1>7. OpStore(p) = StoreOf[liveness.reg] /\ run[p].state # "none"
  BY <1>0, <1>1, <1>2, <1>5, <1>6, SameSession
<1>8. /\ run'[p].session = run[p].session /\ run'[p].gen = run[p].gen
      /\ run'[p].state # "none"
      /\ run[p].state = "down" => run'[p].state = "down"
  BY <1>1, <1>7, Growth
<1>9. request'[p] = request[p]
  BY <1>0, <1>1, <1>7, Basics, Growth
<1>10. p # None
  BY <1>0, <1>1, Basics
<1>11. Recorded'
  BY <1>1, <1>4, <1>7, <1>8, <1>9, <1>10 DEF Recorded, OpStore
<1>12. liveness' # None
  <2>1. /\ proc.row.gen \in 0..MaxOps /\ proc.row.state \in RunState
    BY <1>0, Basics DEF TypeOK, Row
  <2>2. liveness' \in Record
    BY <1>1, <1>2, <1>3, <2>1 DEF Record
  <2> QED
    BY <2>2, NoneAssumption
<1> QED
  BY <1>0, <1>1, <1>4, <1>11, <1>12, Basics

\* The liveness record names a generation as its manager started it.
LEMMA RecordedStep ==
    ASSUME IInv, Next
    PROVE  Recorded'
<1>0. Durable /\ UnderWay /\ TypeOK
  BY DEF IInv, Durable
<1>1. ASSUME NEW o \in Op, run[o].state # "none"
      PROVE  /\ run'[o].session = run[o].session /\ run'[o].gen = run[o].gen
             /\ run'[o].state # "none"
             /\ run[o].state = "down" => run'[o].state = "down"
             /\ StoreOf[request'[o].reg] = StoreOf[request[o].reg]
  <2>1. request'[o] = request[o]
    BY <1>0, <1>1, Basics, Growth
  <2> QED
    BY <1>1, <2>1, Growth
<1>2. ASSUME liveness # None, liveness.op # None
      PROVE  /\ liveness.op \in Op /\ run[liveness.op].state # "none"
             /\ run[liveness.op].session = liveness.session
             /\ run[liveness.op].gen = liveness.gen
             /\ StoreOf[request[liveness.op].reg] = StoreOf[liveness.reg]
             /\ liveness.state = "down" /\ liveness.source = "manager" =>
                   run[liveness.op].state = "down"
  BY <1>0, <1>2, Basics DEF Durable, Recorded, OpStore
<1>3. ASSUME liveness # None, liveness.op = None
      PROVE  /\ liveness.session = None /\ liveness.gen = 0
             /\ liveness.state = "down" /\ liveness.source = "operator_override"
  BY <1>0, <1>3 DEF Durable, Recorded
<1>4. liveness # None => liveness \in Record
  BY <1>0, Basics
<1>5. CASE liveness' = liveness
  <2>1. CASE liveness # None /\ liveness.op # None
    BY <1>1, <1>2, <1>5, <2>1 DEF Recorded, OpStore
  <2>2. CASE liveness # None /\ liveness.op = None
    BY <1>3, <1>5, <2>2 DEF Recorded
  <2>3. CASE liveness = None
    BY <1>5, <2>3 DEF Recorded
  <2> QED
    BY <2>1, <2>2, <2>3
<1>6. CASE AbandonLiveness
  <2>1. CASE liveness # None /\ liveness' = [liveness EXCEPT !.state = "down",
                                                   !.source = "operator_override"]
    <3>1. /\ liveness'.op = liveness.op /\ liveness'.session = liveness.session
          /\ liveness'.gen = liveness.gen /\ liveness'.reg = liveness.reg
          /\ liveness'.state = "down" /\ liveness'.source = "operator_override"
      BY <1>4, <2>1 DEF Record
    <3>2. CASE liveness.op # None
      BY <1>1, <1>2, <2>1, <3>1, <3>2 DEF Recorded, OpStore
    <3>3. CASE liveness.op = None
      BY <1>3, <2>1, <3>1, <3>3 DEF Recorded
    <3> QED
      BY <3>2, <3>3
  <2>2. \/ liveness' = liveness
        \/ \E r : liveness' = [reg |-> r, op |-> None, gen |-> 0, session |-> None,
                              state |-> "down", source |-> "operator_override"]
        \/ liveness # None /\ liveness' = [liveness EXCEPT !.state = "down",
                                                   !.source = "operator_override"]
    BY <1>6 DEF AbandonLiveness
  <2>3. CASE \E r : liveness' = [reg |-> r, op |-> None, gen |-> 0, session |-> None,
                              state |-> "down", source |-> "operator_override"]
    BY <2>3 DEF Recorded
  <2> QED
    BY <1>5, <2>1, <2>2, <2>3
<1>7. CASE Finish
  <2> DEFINE o == proc.op
  <2>1. o \in Op /\ outcome[o] = "started"
    BY <1>0, <1>7, Basics DEF Finish, UnderWay, Place, Answers, OpSteps
  <2>2. run[o].state # "none"
    BY <1>0, <2>1 DEF Durable, Generations
  <2>3. liveness' = [reg |-> request[o].reg, op |-> o, gen |-> run[o].gen,
                     session |-> run[o].session, state |-> "up", source |-> "manager"]
    BY <1>7 DEF Finish
  <2>4. o # None
    BY <1>0, <2>1, Basics
  <2>5. /\ liveness'.reg = request[o].reg /\ liveness'.op = o /\ liveness'.gen = run[o].gen
        /\ liveness'.session = run[o].session /\ liveness'.state = "up"
    BY <2>3
  <2>6. /\ run'[o].session = run[o].session /\ run'[o].gen = run[o].gen
        /\ run'[o].state # "none" /\ StoreOf[request'[o].reg] = StoreOf[request[o].reg]
    BY <1>1, <2>1, <2>2
  <2> HIDE DEF o
  <2> QED
    BY <2>4, <2>5, <2>6 DEF Recorded, OpStore
<1>8. CASE UpList
  <2>1. (proc.row # None /\ Refresh(proc.row)) \/ liveness' = liveness
    BY <1>8 DEF UpList, launcherVars
  <2> QED
    BY <1>5, <2>1, RefreshedRecord
<1>9. CASE RefreshStep
  BY <1>0, <1>9, RefreshedRecord DEF RefreshStep, UnderWay, Ready
<1>10. CASE StatusCommand
  <2>1. liveness # None /\ liveness.op # None
    BY <1>3, <1>10 DEF StatusCommand, HasSession
  <2>2. \/ liveness' = liveness
        \/ \E source \in {liveness.source, "manager"} :
               liveness' = [liveness EXCEPT !.state = "unknown", !.source = source]
    BY <1>10 DEF StatusCommand, launcherVars
  <2>3. CASE \E source \in {liveness.source, "manager"} :
               liveness' = [liveness EXCEPT !.state = "unknown", !.source = source]
    <3>1. /\ liveness'.op = liveness.op /\ liveness'.session = liveness.session
          /\ liveness'.gen = liveness.gen /\ liveness'.reg = liveness.reg
          /\ liveness'.state = "unknown"
      BY <1>4, <2>1, <2>3 DEF Record
    <3> QED
      BY <1>1, <1>2, <2>1, <3>1 DEF Recorded, OpStore
  <2> QED
    BY <1>5, <2>2, <2>3
<1>11. CASE Rebind
  <2> DEFINE r == entry[IdOf[liveness.reg]]
  <2>1. liveness # None /\ liveness.session # None /\ liveness.op # None
    BY <1>3, <1>11 DEF Rebind, HasSession
  <2>2. liveness' = [liveness EXCEPT !.reg = r]
    BY <1>11 DEF Rebind
  <2>3. /\ liveness'.op = liveness.op /\ liveness'.session = liveness.session
        /\ liveness'.gen = liveness.gen /\ liveness'.reg = r
        /\ liveness'.state = liveness.state /\ liveness'.source = liveness.source
    <3> HIDE DEF r
    <3> QED
      BY <1>4, <2>1, <2>2 DEF Record
  <2>4. PICK o \in Started(StoreOf[r]) : run[o].session = liveness.session
    BY <1>11 DEF Rebind
  <2>5. o \in Op /\ OpStore(o) = StoreOf[r]
    BY DEF Started
  <2>6. OpStore(liveness.op) = StoreOf[r]
    BY <1>0, <1>2, <2>1, <2>4, <2>5, SameSession
  <2> HIDE DEF r
  <2> QED
    BY <1>1, <1>2, <2>1, <2>3, <2>6 DEF Recorded, OpStore
<1> QED
  BY <1>5, <1>6, <1>7, <1>8, <1>9, <1>10, <1>11, Frames

-----------------------------------------------------------------------------
(* What a step leaves of the ground an invocation stands on.               *)

\* An invocation that has read nothing yet relies on nothing.
LEMMA IdleWay ==
    ASSUME proc'.at \in {"idle", "abandon", "pending"}, proc'.row = None
    PROVE  UnderWay'
BY DEF UnderWay, Place, Answers, InHand, RowStands, Ready, OpSteps, LaneSteps, CallSteps

\* What another's step leaves of the ground an invocation stands on.
LEMMA StayWay ==
    ASSUME IInv, Next, UNCHANGED <<journal, settled, liveness, abandoned>>,
           proc.at = "idle" \/ UNCHANGED <<entry, selected>>,
           proc'.at = proc.at, proc'.cmd = proc.cmd, proc'.op = proc.op,
           proc'.row = proc.row, proc'.target = proc.target,
           proc'.verdict = proc.verdict, sent' = sent,
           proc.at = "send" => outcome'[proc.op] = outcome[proc.op]
    PROVE  Place' /\ InHand' /\ RowStands' /\ Ready'
<1>0. Durable /\ UnderWay /\ TypeOK
  BY DEF IInv, Durable
<1>1. Place'
  <2>1. ASSUME proc.at = "journal", proc.target # None
        PROVE  /\ run'[proc.target].session = proc.target
               /\ StoreOf[request'[proc.target].reg] = StoreOf[entry[selected]]
    <3>1. /\ proc.target \in Op /\ run[proc.target].session = proc.target
          /\ StoreOf[request[proc.target].reg] = StoreOf[entry[selected]]
      BY <1>0, <2>1 DEF UnderWay, Place, OpStore, TypeOK
    <3>2. run[proc.target].state # "none" /\ request[proc.target] # None
      BY <1>0, <2>1, <3>1, Basics
    <3>3. run'[proc.target].session = proc.target /\ request'[proc.target] = request[proc.target]
      BY <3>1, <3>2, Growth
    <3> QED
      BY <3>1, <3>3
  <2>2. /\ proc.at \in OpSteps => journal # None /\ proc.op = journal.op
        /\ proc.at \in LaneSteps => journal = None
        /\ proc.at \in {"check", "submit"} => journal.phase = "lease_prepared"
        /\ proc.at \in CallSteps => Submitted
        /\ proc.at \in {"list", "journal"} => entry[selected] # None
    BY <1>0 DEF UnderWay, Place
  <2>3. proc.at \in {"list", "journal"} => UNCHANGED <<entry, selected>>
    OBVIOUS
  <2>4. Submitted' <=> Submitted
    BY DEF Submitted
  <2> QED
    BY <2>1, <2>2, <2>3, <2>4 DEF Place, OpStore
<1>2. InHand'
  <2>1. ASSUME proc.at = "settle"
        PROVE  proc.verdict # "none" /\ Upheld(proc.op, proc.verdict)'
    <3>1. proc.op \in Op /\ proc.verdict # "none" /\ Upheld(proc.op, proc.verdict)
      BY <1>0, <2>1, Basics DEF UnderWay, Place, InHand, OpSteps
    <3>2. PICK o \in Op, v \in Verdict : o = proc.op /\ v = proc.verdict
      BY <1>0, <3>1 DEF TypeOK
    <3>3. Upheld(o, v)'
      BY <3>1, <3>2, UpheldStays
    <3> QED
      BY <3>1, <3>2, <3>3 DEF Upheld, Dead, Disowned
  <2>2. proc.at = "clear" => settled[proc.op] # "none"
    BY <1>0 DEF UnderWay, InHand
  <2> QED
    BY <2>1, <2>2 DEF InHand
<1>3. RowStands'
  <2>1. CASE proc.row = None
    BY <2>1 DEF RowStands
  <2>2. CASE proc.row # None
    <3> DEFINE p == proc.row.op
    <3>1. /\ proc.at \in LaneSteps
          /\ proc.at = "command" => proc.cmd = "recycle"
          /\ proc.at = "list" => proc.row.state = "down"
          /\ liveness # None /\ liveness.session # None
          /\ proc.row.session = liveness.session
          /\ run[p].session = liveness.session /\ run[p].gen = proc.row.gen
          /\ proc.row.state = "down" => run[p].state = "down"
      BY <1>0, <2>2 DEF UnderWay, RowStands, HasSession
    <3>2. p \in Op
      BY <1>0, <2>2 DEF TypeOK, Row
    <3>3. run[p].state # "none"
      BY <1>0, <3>1, <3>2, Basics
    <3>4. /\ run'[p].session = run[p].session /\ run'[p].gen = run[p].gen
          /\ run[p].state = "down" => run'[p].state = "down"
      BY <3>2, <3>3, Growth
    <3> QED
      BY <2>2, <3>1, <3>4 DEF RowStands, HasSession
  <2> QED
    BY <2>1, <2>2
<1>4. Ready'
  <2>1. Cleared => Cleared'
    BY ClearedStays
  <2> QED
    BY <1>0, <2>1 DEF UnderWay, Ready
<1> QED
  BY <1>1, <1>2, <1>3, <1>4

\* The managers answer, stop sessions and lose calls under any invocation.
LEMMA ManagersWay ==
    ASSUME IInv, Next, ManagerStep
    PROVE  UnderWay'
<1>0. Durable /\ UnderWay /\ TypeOK
  BY DEF IInv, Durable
<1>1. /\ UNCHANGED <<journal, settled, liveness, abandoned, request, entry, selected,
                     lease, drifted, sent>>
  BY DEF ManagerStep, ServeNothing, ServeFailure, ServeReservation, ServeStart, ExternalStop,
         launcherVars, configVars
<1>2. proc' = proc \/ \E r : proc' = [proc EXCEPT !.reply = r]
  BY DEF ManagerStep, ServeNothing, ServeFailure, ServeReservation, ServeStart, ExternalStop,
         Answer
<1>3. /\ proc'.at = proc.at /\ proc'.cmd = proc.cmd /\ proc'.op = proc.op
      /\ proc'.row = proc.row /\ proc'.target = proc.target
      /\ proc'.verdict = proc.verdict
  BY <1>0, <1>2 DEF TypeOK
<1>4. proc.op \in Op \/ proc.at \notin OpSteps
  BY <1>0, Basics DEF UnderWay, Place
<1>5. proc.at = "send" => outcome'[proc.op] = outcome[proc.op]
  <2> SUFFICES ASSUME proc.at = "send"
               PROVE  outcome'[proc.op] = outcome[proc.op]
    OBVIOUS
  <2>1. proc.op \in Op /\ proc.op \notin flying
    BY <1>0, <1>4 DEF UnderWay, Ready, OpSteps, Durable, Calls
  <2> QED
    BY <1>0, <2>1 DEF ManagerStep, ServeNothing, ServeFailure, ServeReservation, ServeStart,
                      ExternalStop, managerVars, TypeOK
<1>6. Place' /\ InHand' /\ RowStands' /\ Ready'
  BY <1>1, <1>3, <1>5, StayWay
<1>7. Answers'
  <2>1. CASE proc' = proc
    <3>1. proc.at \in {"calling", "finish"} => proc.op \in Op
      BY <1>4 DEF OpSteps
    <3>2. ASSUME proc.at = "calling", proc.reply = "refused"
          PROVE  Dead(proc.op)'
      <4>1. PICK o \in Op : o = proc.op /\ Dead(o)
        BY <1>0, <3>1, <3>2 DEF UnderWay, Answers
      <4>2. Dead(o)'
        BY <4>1, Growth
      <4> QED
        BY <2>1, <4>1, <4>2 DEF Dead, Disowned
    <3>3. /\ proc.at = "calling" /\ proc.reply = "session" => outcome'[proc.op] = "started"
          /\ proc.at = "finish" => outcome'[proc.op] = "started"
      BY <1>0, <3>1, Growth DEF UnderWay, Answers
    <3> QED
      BY <1>0, <2>1, <3>2, <3>3 DEF UnderWay, Answers
  <2>2. ASSUME NEW o \in Op, NEW r, Answer(o, r), proc' # proc,
               r = "refused" => Dead(o)',
               r = "session" => outcome'[o] = "started"
        PROVE  Answers'
    <3>1. proc.at = "calling" /\ proc.op = o /\ proc' = [proc EXCEPT !.reply = r]
      BY <2>2 DEF Answer
    <3>2. proc'.reply = r
      BY <1>0, <3>1 DEF TypeOK
    <3>3. r = "refused" => Dead(proc.op)'
      BY <1>3, <2>2, <3>1 DEF Dead, Disowned
    <3> QED
      BY <1>3, <2>2, <3>1, <3>2, <3>3 DEF Answers
  <2>3. ASSUME NEW o \in Op, ServeNothing(o), proc' # proc
        PROVE  Answers'
    <3>1. CASE Answer(o, "unavailable")
      BY <2>2, <2>3, <3>1
    <3>2. CASE outcome[o] = "not_found" /\ Answer(o, "refused")
      <4>1. sent[o] = 1
        BY <1>0, <2>3 DEF ServeNothing, Durable, Calls
      <4>2. Dead(o)'
        BY <1>1, <2>3, <3>2, <4>1 DEF ServeNothing, managerVars, Answer, Dead
      <4> QED
        BY <2>2, <2>3, <3>2, <4>2
    <3> QED
      BY <2>3, <3>1, <3>2 DEF ServeNothing
  <2>4. ASSUME NEW o \in Op, ServeFailure(o), proc' # proc
        PROVE  Answers'
    <3>1. outcome'[o] = "failed"
      BY <1>0, <2>4 DEF ServeFailure, TypeOK
    <3>2. Dead(o)'
      BY <3>1 DEF Dead
    <3> QED
      BY <2>2, <2>4, <3>2 DEF ServeFailure
  <2>5. ASSUME NEW o \in Op, ServeReservation(o), proc' # proc
        PROVE  Answers'
    BY <2>2, <2>5 DEF ServeReservation
  <2>6. ASSUME NEW o \in Op, ServeStart(o), proc' # proc
        PROVE  Answers'
    <3>1. PICK out \in {"started", "unknown"}, reply \in {"session", "unavailable"} :
             /\ out = "unknown" => reply = "unavailable"
             /\ outcome' = [outcome EXCEPT ![o] = out]
             /\ Answer(o, reply)
      BY <2>6 DEF ServeStart
    <3>2. outcome'[o] = out
      BY <1>0, <3>1 DEF TypeOK
    <3> QED
      BY <2>2, <2>6, <3>1, <3>2
  <2>7. (\E o \in Op : ExternalStop(o)) => proc' = proc
    BY DEF ExternalStop
  <2> QED
    BY <2>1, <2>3, <2>4, <2>5, <2>6, <2>7 DEF ManagerStep
<1> QED
  BY <1>6, <1>7 DEF UnderWay

\* The journal's own steps.
LEMMA JournalWay ==
    ASSUME IInv, Next, JournalStep
    PROVE  UnderWay'
<1>0. Durable /\ UnderWay /\ TypeOK
  BY DEF IInv, Durable
<1> DEFINE o == proc.op
<1>1. proc.at \in OpSteps => /\ journal # None /\ o = journal.op /\ o \in Op
                             /\ journal \in Pending /\ proc.row = None
  BY <1>0, Basics DEF UnderWay, Place, RowStands, OpSteps, LaneSteps
<1>2. proc.row # None => proc.at \in LaneSteps
  BY <1>0 DEF UnderWay, RowStands
<1>3. CASE AbandonLiveness
  <2>1. CASE journal = None \/ proc' = Idle
    <3>1. proc' = Idle
      BY <1>3, <2>1 DEF AbandonLiveness, Leave
    <3> QED
      BY <3>1, IdleWay DEF Idle
  <2>2. CASE journal # None /\ proc' # Idle
    <3>1. /\ proc' = [Idle EXCEPT !.at = "settle", !.op = journal.op, !.verdict = "abandoned"]
          /\ abandoned' = abandoned \cup {journal.op} /\ journal' = journal
      BY <1>3, <2>2 DEF AbandonLiveness, Leave
    <3>2. /\ proc'.at = "settle" /\ proc'.op = journal.op /\ proc'.verdict = "abandoned"
          /\ proc'.row = None
      BY <3>1 DEF Idle
    <3> QED
      BY <2>2, <3>1, <3>2
      DEF UnderWay, Place, Answers, InHand, Upheld, RowStands, Ready, OpSteps, LaneSteps, CallSteps
  <2> QED
    BY <2>1, <2>2
<1>4. CASE Settle
  <2>1. o \in Op /\ journal # None /\ o = journal.op /\ proc.row = None
    BY <1>1, <1>4 DEF Settle, OpSteps
  <2>2. /\ proc'.at = "clear" /\ proc'.op = o /\ proc'.row = None
        /\ settled'[o] = proc.verdict /\ proc.verdict # "none" /\ journal' = journal
    BY <1>0, <1>4, <2>1 DEF Settle, Goto, TypeOK, UnderWay, InHand
  <2> QED
    BY <2>1, <2>2
    DEF UnderWay, Place, Answers, InHand, RowStands, Ready, OpSteps, LaneSteps, CallSteps
<1>5. CASE Clear
  BY <1>5, IdleWay DEF Clear, Leave, Idle
<1>6. CASE CheckPending
  <2>1. journal' = journal /\ proc.row = None
    BY <1>2, <1>6 DEF CheckPending, launcherVars, LaneSteps
  <2>2. CASE journal = None
    <3>1. proc'.at = "command" /\ proc'.row = None
      BY <1>0, <1>6, <2>1, <2>2 DEF CheckPending, TypeOK
    <3> QED
      BY <2>1, <2>2, <3>1
      DEF UnderWay, Place, Answers, InHand, RowStands, Ready, OpSteps, LaneSteps, CallSteps
  <2>3. CASE journal # None
    <3>1. /\ proc'.at = "acquire" /\ proc'.op = journal.op /\ proc'.row = None
          /\ proc'.reply = "none"
      BY <1>6, <2>3 DEF CheckPending, Idle
    <3> QED
      BY <2>1, <2>3, <3>1
      DEF UnderWay, Place, Answers, InHand, RowStands, Ready, OpSteps, LaneSteps, CallSteps
  <2> QED
    BY <2>2, <2>3
<1>7. CASE Acquire
  <2>1. /\ journal # None /\ o = journal.op /\ o \in Op /\ proc.row = None
        /\ journal' = journal /\ proc.reply = "none"
    BY <1>0, <1>1, <1>7 DEF Acquire, OpSteps, launcherVars, UnderWay, Answers
  <2>2. CASE lease[o] = "broken"
    <3>1. /\ proc'.at = "settle" /\ proc'.op = o /\ proc'.verdict = "not_started"
          /\ proc'.row = None /\ lease'[o] = "broken"
      BY <1>0, <1>7, <2>1, <2>2 DEF Acquire, TypeOK
    <3> QED
      BY <2>1, <3>1
      DEF UnderWay, Place, Answers, InHand, Upheld, RowStands, Ready, OpSteps, LaneSteps, CallSteps
  <2>3. CASE lease[o] # "broken"
    <3>1. Goto("owner") \/ proc' = Idle
      BY <1>7, <2>3 DEF Acquire, Leave
    <3>2. CASE Goto("owner")
      <4>1. /\ proc'.at = "owner" /\ proc'.op = o /\ proc'.row = None /\ proc'.reply = "none"
        BY <1>0, <2>1, <3>2 DEF Goto, TypeOK
      <4> QED
        BY <2>1, <4>1
        DEF UnderWay, Place, Answers, InHand, RowStands, Ready, OpSteps, LaneSteps, CallSteps
    <3> QED
      BY <3>1, <3>2, IdleWay DEF Idle
  <2> QED
    BY <2>2, <2>3
<1>8. CASE CheckOwner
  <2>1. /\ journal # None /\ o = journal.op /\ o \in Op /\ proc.row = None
        /\ journal \in Pending /\ proc.reply = "none"
    BY <1>0, <1>1, <1>8 DEF CheckOwner, OpSteps, UnderWay, Answers
  <2>2. CASE Submitted
    <3>1. journal' = journal
      BY <1>8, <2>2 DEF CheckOwner, Submitted
    <3>2. /\ proc'.at = "status" /\ proc'.op = o /\ proc'.row = None
      BY <1>0, <1>8, <2>1, <2>2 DEF CheckOwner, Goto, TypeOK
    <3> QED
      BY <2>1, <2>2, <3>1, <3>2
      DEF UnderWay, Place, Answers, InHand, RowStands, Ready, OpSteps, LaneSteps, CallSteps,
          Submitted
  <2>3. CASE ~Submitted
    <3>1. journal' \in Pending /\ journal'.op = o /\ journal'.phase = "lease_prepared"
      BY <1>8, <2>1, <2>3 DEF CheckOwner, SetPhase, Pending, Phase, Submitted
    <3>2. journal' # None
      BY <3>1, NoneAssumption
    <3>3. /\ proc'.at = "check" /\ proc'.op = o /\ proc'.row = None /\ proc'.reply = "none"
      BY <1>0, <1>8, <2>1, <2>3 DEF CheckOwner, Goto, TypeOK
    <3> QED
      BY <3>1, <3>2, <3>3
      DEF UnderWay, Place, Answers, InHand, RowStands, Ready, OpSteps, LaneSteps, CallSteps
  <2> QED
    BY <2>2, <2>3
<1>9. CASE CheckAllocation
  <2>1. /\ journal # None /\ o = journal.op /\ proc.row = None
        /\ journal' = journal /\ proc.reply = "none" /\ journal.phase = "lease_prepared"
    BY <1>0, <1>1, <1>9 DEF CheckAllocation, OpSteps, launcherVars, UnderWay, Answers, Place
  <2>2. /\ proc'.at = "submit" /\ proc'.op = o /\ proc'.row = None /\ proc'.reply = "none"
    BY <1>0, <1>9, <2>1 DEF CheckAllocation, Goto, TypeOK
  <2> QED
    BY <2>1, <2>2
    DEF UnderWay, Place, Answers, InHand, RowStands, Ready, OpSteps, LaneSteps, CallSteps
<1>10. CASE MarkSubmitted
  <2>1. /\ journal # None /\ o = journal.op /\ o \in Op /\ proc.row = None
        /\ journal \in Pending /\ proc.reply = "none" /\ journal.phase = "lease_prepared"
    BY <1>0, <1>1, <1>10 DEF MarkSubmitted, OpSteps, UnderWay, Answers, Place
  <2>2. sent[o] = 0 /\ outcome[o] = "not_found" /\ Cleared
    BY <1>0, <2>1 DEF Durable, Unsent, Submitted
  <2>3. UNCHANGED <<sent, outcome, liveness>>
    BY <1>10 DEF MarkSubmitted, Local, managerVars
  <2>4. Cleared'
    BY <2>2, <2>3, ClearedStays
  <2>5. journal' \in Pending /\ journal'.op = o /\ journal'.phase = "possibly_submitted"
    BY <1>10, <2>1 DEF MarkSubmitted, SetPhase, Pending, Phase
  <2>6. journal' # None
    BY <2>5, NoneAssumption
  <2>7. /\ proc'.at = "send" /\ proc'.op = o /\ proc'.row = None /\ proc'.reply = "none"
    BY <1>0, <1>10, <2>1 DEF MarkSubmitted, Goto, TypeOK
  <2> QED
    BY <2>2, <2>3, <2>4, <2>5, <2>6, <2>7
    DEF UnderWay, Place, Answers, InHand, RowStands, Ready, OpSteps, LaneSteps, CallSteps,
        Submitted
<1>11. CASE Send
  <2>1. /\ journal # None /\ o = journal.op /\ o \in Op /\ proc.row = None
        /\ journal' = journal /\ proc.reply = "none" /\ Submitted /\ sent[o] = 0
    BY <1>0, <1>1, <1>11
    DEF Send, OpSteps, CallSteps, launcherVars, UnderWay, Answers, Place, Ready
  <2>2. /\ proc'.at = "calling" /\ proc'.op = o /\ proc'.row = None /\ proc'.reply = "none"
    BY <1>0, <1>11, <2>1 DEF Send, Goto, TypeOK
  <2>3. sent'[o] = 1
    BY <1>0, <1>11, <2>1 DEF Send, TypeOK
  <2> QED
    BY <2>1, <2>2, <2>3
    DEF UnderWay, Place, Answers, InHand, RowStands, Ready, OpSteps, LaneSteps, CallSteps,
        Submitted
<1> DEFINE Called == /\ journal # None /\ o = journal.op /\ o \in Op /\ proc.row = None
                     /\ journal' = journal /\ Submitted
\* Every continuation of a call.
<1>12. ASSUME Called, proc' = Idle
       PROVE  UnderWay'
  BY <1>12, IdleWay DEF Idle
<1>13. ASSUME Called, NEW s \in {"status", "cancel", "bind"}, Goto(s)
       PROVE  UnderWay'
  <2>1. proc'.at = s /\ proc'.op = o /\ proc'.row = None
    BY <1>0, <1>13 DEF Goto, TypeOK
  <2> QED
    BY <1>13, <2>1
    DEF UnderWay, Place, Answers, InHand, RowStands, Ready, OpSteps, LaneSteps, CallSteps,
        Submitted
<1>14. ASSUME Called, outcome[o] = "started", Goto("finish")
       PROVE  UnderWay'
  <2>1. proc'.at = "finish" /\ proc'.op = o /\ proc'.row = None
    BY <1>0, <1>14 DEF Goto, TypeOK
  <2>2. outcome'[o] = "started"
    BY <1>14, Growth
  <2> QED
    BY <1>14, <2>1, <2>2
    DEF UnderWay, Place, Answers, InHand, RowStands, Ready, OpSteps, LaneSteps, CallSteps,
        Submitted
<1>15. ASSUME Called, NEW v \in {"failed", "cancelled"}, Dead(o)',
              proc' = [proc EXCEPT !.at = "settle", !.verdict = v]
       PROVE  UnderWay'
  <2>1. proc'.at = "settle" /\ proc'.op = o /\ proc'.row = None /\ proc'.verdict = v
    BY <1>0, <1>15 DEF TypeOK
  <2>2. Dead(proc.op)'
    BY <1>15, <2>1 DEF Dead, Disowned
  <2> QED
    BY <1>15, <2>1, <2>2
    DEF UnderWay, Place, Answers, InHand, Upheld, RowStands, Ready, OpSteps, LaneSteps, CallSteps
<1>16. ASSUME proc.at \in CallSteps \ {"send"}, journal' = journal
       PROVE  Called
  BY <1>0, <1>1, <1>16 DEF OpSteps, CallSteps, UnderWay, Place
<1>17. ASSUME Called, NEW out \in {"started", "failed", "cancelled", "not_found", "admitted",
                                   "unknown"},
              React(out),
              out = "started" => outcome[o] = "started",
              out \in {"failed", "cancelled"} => \E p \in Op : p = o /\ Dead(p)'
       PROVE  UnderWay'
  <2> HIDE DEF Called
  <2>1. CASE out = "started"
    <3>1. Goto("finish")
      BY <1>17, <2>1 DEF React
    <3> QED
      BY <1>14, <1>17, <2>1, <3>1
  <2>2. CASE out \in {"failed", "cancelled"}
    <3>1. proc' = [proc EXCEPT !.at = "settle", !.verdict = out]
      BY <1>17, <2>2 DEF React
    <3>2. PICK p \in Op : p = o /\ Dead(p)'
      BY <1>17, <2>2
    <3>3. /\ proc'.op = o
      BY <1>0, <3>1 DEF TypeOK
    <3>4. Dead(o)'
      BY <3>2, <3>3 DEF Dead, Disowned
    <3> QED
      BY <1>15, <1>17, <2>2, <3>1, <3>4
  <2>3. CASE out = "not_found"
    <3>1. Goto("cancel")
      BY <1>17, <2>3 DEF React
    <3> QED
      BY <1>13, <1>17, <3>1
  <2>4. CASE out = "admitted"
    <3>1. Goto("status")
      BY <1>17, <2>4 DEF React
    <3> QED
      BY <1>13, <1>17, <3>1
  <2>5. CASE out = "unknown"
    <3>1. proc' = Idle
      BY <1>17, <2>5 DEF React, Leave
    <3> QED
      BY <1>12, <1>17, <3>1
  <2> QED
    BY <1>17, <2>1, <2>2, <2>3, <2>4, <2>5
<1>18. ASSUME Called
       PROVE  /\ OutcomeOf(o) \in {"started", "failed", "cancelled", "not_found", "admitted",
                                   "unknown"}
              /\ OutcomeOf(o) = "started" => outcome[o] = "started"
              /\ OutcomeOf(o) \in {"failed", "cancelled"} => Dead(o)
  BY <1>0, <1>18 DEF OutcomeOf, Dead, Disowned, TypeOK
<1>19. CASE Receive
  <2>1. proc.at = "calling" /\ journal' = journal
    BY <1>19 DEF Receive, launcherVars
  <2>2. Called
    BY <1>16, <2>1 DEF CallSteps
  <2>3. CASE proc.reply = "refused" /\ proc' = [proc EXCEPT !.at = "settle", !.verdict = "failed"]
    <3>1. PICK p \in Op : p = o /\ Dead(p)
      BY <1>0, <2>1, <2>2, <2>3 DEF UnderWay, Answers
    <3>2. Dead(p)'
      BY <3>1, Growth
    <3>3. proc'.op = o
      BY <1>0, <2>3 DEF TypeOK
    <3>4. Dead(o)'
      BY <3>1, <3>2, <3>3 DEF Dead, Disowned
    <3> HIDE DEF Called
    <3> QED
      BY <1>15, <2>2, <2>3, <3>4
  <2>4. CASE proc.reply = "session" /\ Goto("finish")
    <3>1. outcome[o] = "started"
      BY <1>0, <2>1, <2>4 DEF UnderWay, Answers
    <3> HIDE DEF Called
    <3> QED
      BY <1>14, <2>2, <2>4, <3>1
  <2>5. CASE Goto("status")
    BY <1>13, <2>2, <2>5
  <2> QED
    BY <1>19, <2>3, <2>4, <2>5 DEF Receive
<1>20. CASE Timeout
  <2>1. Called /\ Goto("status")
    BY <1>16, <1>20 DEF Timeout, launcherVars, CallSteps
  <2> QED
    BY <1>13, <2>1
<1>21. CASE AskStatus
  <2>1. Called /\ React(OutcomeOf(o))
    BY <1>16, <1>21 DEF AskStatus, launcherVars, CallSteps
  <2>2. OutcomeOf(o) \in {"failed", "cancelled"} => \E p \in Op : p = o /\ Dead(p)'
    BY <1>18, <2>1, Growth
  <2> HIDE DEF Called
  <2> QED
    BY <1>17, <1>18, <2>1, <2>2
<1>22. CASE AskCancel
  <2>1. Called
    BY <1>16, <1>22 DEF AskCancel, launcherVars, CallSteps
  <2>2. CASE outcome[o] = "not_found"
    <3>1. outcome'[o] = "cancelled"
      BY <1>0, <1>22, <2>1, <2>2 DEF AskCancel, TypeOK
    <3>2. \E p \in Op : p = o /\ Dead(p)'
      BY <2>1, <3>1 DEF Dead
    <3>3. React("cancelled") \/ proc' = Idle
      BY <1>22, <2>2 DEF AskCancel, Leave
    <3> HIDE DEF Called
    <3> QED
      BY <1>12, <1>17, <2>1, <3>2, <3>3
  <2>3. CASE outcome[o] # "not_found"
    <3>1. React(OutcomeOf(o)) \/ proc' = Idle
      BY <1>22, <2>3 DEF AskCancel, Leave
    <3>2. OutcomeOf(o) \in {"failed", "cancelled"} => \E p \in Op : p = o /\ Dead(p)'
      BY <1>18, <2>1, Growth
    <3> HIDE DEF Called
    <3> QED
      BY <1>12, <1>17, <1>18, <2>1, <3>1, <3>2
  <2> QED
    BY <2>2, <2>3
<1>23. CASE Finish
  <2>1. Called /\ Goto("bind")
    BY <1>16, <1>23 DEF Finish, CallSteps
  <2> QED
    BY <1>13, <2>1
<1>24. CASE Bind
  BY <1>24, IdleWay DEF Bind, Leave, Idle
<1> QED
  BY <1>3, <1>4, <1>5, <1>6, <1>7, <1>8, <1>9, <1>10, <1>11, <1>19, <1>20, <1>21, <1>22, <1>23,
     <1>24 DEF JournalStep

\* A row just read, or kept by a step that leaves the record's session alone.
LEMMA RowWay ==
    ASSUME IInv, Next, journal' = None, proc'.at \in LaneSteps,
           proc'.at \notin {"list", "journal"},
           proc'.row # None => /\ proc'.at = "command" => proc'.cmd = "recycle"
                               /\ HasSession' /\ proc'.row.session = liveness'.session
                               /\ run'[proc'.row.op].session = liveness'.session
                               /\ run'[proc'.row.op].gen = proc'.row.gen
                               /\ proc'.row.state = "down" => run'[proc'.row.op].state = "down",
           proc'.at \in {"stop", "refresh"} => proc'.row # None
    PROVE  UnderWay'
BY DEF UnderWay, Place, Answers, InHand, RowStands, Ready, OpSteps, LaneSteps, CallSteps,
       HasSession

\* The commands of a lane without a pending operation.
LEMMA CommandWay ==
    ASSUME IInv, Next, CommandStep
    PROVE  UnderWay'
<1>0. Durable /\ UnderWay /\ TypeOK
  BY DEF IInv, Durable
<1>1. proc.at \in LaneSteps /\ journal = None
  <2>1. proc.at \in LaneSteps
    BY DEF CommandStep, UpOwner, UpList, WritePending, DownOwner, StopCall, RefreshStep, Poll,
           StatusCommand, Rebind, LaneSteps
  <2> QED
    BY <1>0, <2>1 DEF UnderWay, Place
<1>2. proc.row # None => /\ proc.row \in Row /\ proc.row.op \in Op
                         /\ proc.at = "command" => proc.cmd = "recycle"
                         /\ HasSession /\ proc.row.session = liveness.session
                         /\ run[proc.row.op].session = liveness.session
                         /\ run[proc.row.op].gen = proc.row.gen
                         /\ proc.row.state = "down" => run[proc.row.op].state = "down"
  BY <1>0 DEF UnderWay, RowStands, TypeOK, Row
<1>3. ASSUME NEW p \in Op, run[p].session # None
      PROVE  /\ run'[p].session = run[p].session /\ run'[p].gen = run[p].gen
             /\ run[p].state = "down" => run'[p].state = "down"
  BY <1>0, <1>3, Basics, Growth
<1>4. ASSUME NEW row \in Row, OwnerReads(row), UNCHANGED <<liveness, run>>
      PROVE  /\ HasSession' /\ row.session = liveness'.session
             /\ run'[row.op].session = liveness'.session
             /\ run'[row.op].gen = row.gen
             /\ row.state = "down" => run'[row.op].state = "down"
  BY <1>0, <1>4, OwnersRow DEF HasSession
<1>5. \A row \in Row : row # None
  BY NoneAssumption
<1>6. CASE UpOwner
  <2>1. /\ journal' = None /\ UNCHANGED <<liveness, run, entry, selected>> /\ entry[selected] # None
        /\ proc.row = None
    BY <1>1, <1>2, <1>6 DEF UpOwner, Local, launcherVars, managerVars, configVars
  <2>2. CASE HasSession /\ liveness.state # "down"
    <3>1. PICK row \in Row : /\ OwnerReads(row) /\ row.state = "down"
                             /\ proc' = [proc EXCEPT !.at = "list", !.row = row]
      BY <1>6, <2>2 DEF UpOwner
    <3>2. proc'.at = "list" /\ proc'.row = row
      BY <1>0, <3>1 DEF TypeOK
    <3>3. /\ HasSession' /\ row.session = liveness'.session
          /\ run'[row.op].session = liveness'.session
          /\ run'[row.op].gen = row.gen
          /\ row.state = "down" => run'[row.op].state = "down"
      BY <1>4, <2>1, <3>1
    <3> QED
      BY <1>5, <2>1, <3>1, <3>2, <3>3
      DEF UnderWay, Place, Answers, InHand, RowStands, Ready, OpSteps, LaneSteps, CallSteps
  <2>3. CASE ~(HasSession /\ liveness.state # "down")
    <3>1. proc'.at = "list" /\ proc'.row = None
      BY <1>0, <1>6, <2>1, <2>3 DEF UpOwner, Goto, TypeOK
    <3>2. Cleared
      <4>1. CASE liveness # None /\ liveness.source # "operator_override"
        <5>1. liveness.op # None /\ liveness.op \in Op
          BY <1>0, <4>1, Basics DEF Durable, Recorded
        <5>2. liveness.session # None /\ liveness.source = "manager"
          <6>1. liveness.session = run[liveness.op].session /\ run[liveness.op].state # "none"
            BY <1>0, <4>1, <5>1 DEF Durable, Recorded
          <6>2. liveness.session \in Op
            BY <1>0, <5>1, <6>1 DEF Durable, Generations
          <6>3. liveness \in Record
            BY <1>0, <4>1, Basics
          <6>4. liveness.source = "manager"
            BY <4>1, <6>3 DEF Record
          <6> QED
            BY <1>0, <6>2, <6>4, Basics
        <5>3. liveness.state = "down"
          BY <2>3, <4>1, <5>2 DEF HasSession
        <5> QED
          BY <1>0, <4>1, <5>1, <5>2, <5>3 DEF Durable, Recorded, Cleared
      <4> QED
        BY <4>1 DEF Cleared
    <3>3. Cleared'
      BY <2>1, <3>2, ClearedStays
    <3> QED
      BY <2>1, <3>1, <3>3
      DEF UnderWay, Place, Answers, InHand, RowStands, Ready, OpSteps, LaneSteps, CallSteps
  <2> QED
    BY <2>2, <2>3
<1>7. CASE UpList
  <2>1. /\ journal' = None /\ UNCHANGED <<run, entry, selected, request>>
        /\ entry[selected] # None /\ proc.at = "list"
    BY <1>0, <1>1, <1>7
    DEF UpList, Refresh, Local, launcherVars, managerVars, configVars, UnderWay, Place
  <2>2. (proc.row # None /\ Refresh(proc.row)) \/ (proc.row = None /\ liveness' = liveness)
    BY <1>7 DEF UpList, launcherVars
  <2> DEFINE reg == entry[selected]
  <2>3. PICK t : /\ proc' = [proc EXCEPT !.at = "journal", !.target = t]
                 /\ t # None => \E o \in Started(StoreOf[reg]) : run[o].session = t
    <3> DEFINE here == Started(StoreOf[reg])
               sessions == {run[o].session : o \in here}
    <3>1. PICK t \in {None} \cup sessions : proc' = [proc EXCEPT !.at = "journal", !.target = t]
      BY <1>7 DEF UpList, Listed
    <3> QED
      BY <3>1
  <2>4. proc'.at = "journal" /\ proc'.target = t /\ proc'.row = proc.row
    BY <1>0, <2>3 DEF TypeOK
  <2>5. t # None => run'[t].session = t /\ StoreOf[request'[t].reg] = StoreOf[entry'[selected']]
    <3> SUFFICES ASSUME t # None
                 PROVE  run[t].session = t /\ OpStore(t) = StoreOf[reg]
      BY <2>1 DEF OpStore
    <3>1. PICK o \in Started(StoreOf[reg]) : run[o].session = t
      BY <2>3
    <3>2. o \in Op /\ run[o].state # "none" /\ OpStore(o) = StoreOf[reg]
      BY DEF Started
    <3> QED
      BY <1>0, <3>1, <3>2 DEF Durable, Generations
  <2>6. Cleared' /\ RowStands'
    <3>1. CASE proc.row # None /\ Refresh(proc.row)
      <4>1. /\ liveness' # None /\ liveness'.session = proc.row.session
            /\ liveness'.session # None /\ liveness'.op = proc.row.op
        BY <3>1, RefreshedRecord
      <4>2. proc.row.state = "down" /\ run[proc.row.op].state = "down"
        BY <1>0, <1>2, <2>1, <3>1 DEF UnderWay, RowStands
      <4>3. Cleared'
        BY <2>1, <4>1, <4>2 DEF Cleared
      <4>4. /\ proc.row.session = liveness.session /\ run[proc.row.op].session = liveness.session
            /\ run[proc.row.op].gen = proc.row.gen
        BY <1>2, <3>1
      <4>5. RowStands'
        BY <2>1, <2>4, <3>1, <4>1, <4>2, <4>4 DEF RowStands, HasSession, LaneSteps
      <4> QED
        BY <4>3, <4>5
    <3>2. CASE proc.row = None /\ liveness' = liveness
      <4>1. Cleared
        BY <1>0, <2>1, <3>2 DEF UnderWay, Ready
      <4>2. Cleared'
        BY <3>2, <4>1, ClearedStays
      <4> QED
        BY <2>4, <3>2, <4>2 DEF RowStands
    <3> QED
      BY <2>2, <3>1, <3>2
  <2> QED
    BY <2>1, <2>4, <2>5, <2>6
    DEF UnderWay, Place, Answers, InHand, Ready, OpSteps, LaneSteps, CallSteps, OpStore
<1>8. CASE WritePending
  <2>1. /\ journal' = [op |-> NextOp, phase |-> "lease_requested"] /\ NextOp \in Op
        /\ proc' = [Idle EXCEPT !.at = "acquire", !.op = NextOp]
    BY <1>8 DEF WritePending
  <2>2. journal' # None
    <3>1. journal' \in Pending
      BY <2>1 DEF Pending, Phase
    <3> QED
      BY <3>1, NoneAssumption
  <2>3. /\ proc'.at = "acquire" /\ proc'.op = journal'.op /\ proc'.row = None
        /\ proc'.reply = "none"
    BY <2>1 DEF Idle
  <2> QED
    BY <2>2, <2>3
    DEF UnderWay, Place, Answers, InHand, RowStands, Ready, OpSteps, LaneSteps, CallSteps
<1>9. CASE DownOwner
  <2>1. /\ journal' = None /\ UNCHANGED <<liveness, run>> /\ proc.row = None /\ proc.at = "command"
    BY <1>1, <1>9 DEF DownOwner, Local, launcherVars, managerVars
  <2>2. CASE proc' = Idle
    BY <2>2, IdleWay DEF Idle
  <2>3. CASE proc' = [proc EXCEPT !.cmd = "new"]
    <3>1. proc'.at = "command" /\ proc'.row = None
      BY <1>0, <2>1, <2>3 DEF TypeOK
    <3> QED
      BY <2>1, <3>1, RowWay DEF LaneSteps
  <2>4. ASSUME NEW row \in Row, OwnerReads(row),
               proc' = [proc EXCEPT !.row = row,
                          !.at = IF row.state = "down" THEN "refresh" ELSE "stop"]
        PROVE  UnderWay'
    <3>1. proc'.row = row /\ proc'.at \in {"refresh", "stop"}
      BY <1>0, <2>4 DEF TypeOK
    <3>2. /\ HasSession' /\ row.session = liveness'.session
          /\ run'[row.op].session = liveness'.session
          /\ run'[row.op].gen = row.gen
          /\ row.state = "down" => run'[row.op].state = "down"
      BY <1>4, <2>1, <2>4
    <3> QED
      BY <1>5, <2>1, <3>1, <3>2, RowWay DEF LaneSteps
  <2> QED
    BY <1>9, <2>2, <2>3, <2>4 DEF DownOwner, Leave
<1>10. CASE StopCall
  <2> DEFINE p == proc.row.op
  <2>1. /\ journal' = None /\ UNCHANGED liveness /\ proc.row # None /\ proc.at = "stop"
    BY <1>0, <1>1, <1>10 DEF StopCall, launcherVars, UnderWay, Ready
  <2>2. PICK state \in {"draining", "down"} :
           /\ EndRun(p, state)
           /\ proc' = [proc EXCEPT !.at = "refresh", !.row.state = state]
    BY <1>10 DEF StopCall
  <2>3. /\ proc'.at = "refresh" /\ proc'.row = [proc.row EXCEPT !.state = state]
    BY <1>0, <2>2 DEF TypeOK
  <2>4. /\ proc'.row.op = p /\ proc'.row.session = proc.row.session
        /\ proc'.row.gen = proc.row.gen /\ proc'.row.state = state
        /\ proc'.row \in Row
    BY <1>2, <2>1, <2>3 DEF Row, RunState
  <2>5. /\ run'[p].session = run[p].session /\ run'[p].gen = run[p].gen
    BY <1>2, <1>3, <2>1 DEF HasSession
  <2>6. state = "down" => run'[p].state = "down"
    BY <1>0, <1>2, <2>1, <2>2 DEF EndRun, TypeOK
  <2>7. HasSession'
    BY <1>2, <2>1 DEF HasSession
  <2> QED
    BY <1>2, <1>5, <2>1, <2>3, <2>4, <2>5, <2>6, <2>7, RowWay DEF LaneSteps
<1>11. CASE RefreshStep
  <2>1. /\ journal' = None /\ UNCHANGED run /\ proc.row # None /\ Refresh(proc.row)
    BY <1>0, <1>1, <1>11
    DEF RefreshStep, Refresh, Local, managerVars, UnderWay, Ready
  <2>2. CASE proc' = Idle
    BY <2>2, IdleWay DEF Idle
  <2>3. CASE proc.cmd = "recycle" /\ Goto("command")
    <3>1. proc'.at = "command" /\ proc'.row = proc.row /\ proc'.cmd = "recycle"
      BY <1>0, <2>3 DEF Goto, TypeOK
    <3>2. liveness' # None /\ liveness'.session = proc.row.session /\ liveness'.session # None
      BY <2>1, RefreshedRecord
    <3> QED
      BY <1>2, <2>1, <3>1, <3>2, RowWay DEF LaneSteps, HasSession
  <2>4. CASE proc' = [proc EXCEPT !.at = "command", !.cmd = "new", !.row = None]
    <3>1. proc'.at = "command" /\ proc'.row = None
      BY <1>0, <2>4 DEF TypeOK
    <3> QED
      BY <2>1, <3>1, RowWay DEF LaneSteps
  <2>5. CASE proc.cmd # "recycle"
    BY <1>11, <2>2, <2>5 DEF RefreshStep, Leave
  <2>6. CASE proc.cmd = "recycle" /\ proc.row.state = "draining"
    BY <1>11, <2>3, <2>6 DEF RefreshStep
  <2>7. CASE proc.cmd = "recycle" /\ proc.row.state # "draining"
    BY <1>11, <2>4, <2>7 DEF RefreshStep
  <2> QED
    BY <2>5, <2>6, <2>7
<1>12. ASSUME NEW row \in Row, OwnerReads(row), proc' = [proc EXCEPT !.at = "refresh", !.row = row],
              journal' = journal, UNCHANGED <<liveness, run>>
       PROVE  UnderWay'
  <2>1. proc'.at = "refresh" /\ proc'.row = row
    BY <1>0, <1>12 DEF TypeOK
  <2>2. /\ HasSession' /\ row.session = liveness'.session
        /\ run'[row.op].session = liveness'.session
        /\ run'[row.op].gen = row.gen
        /\ row.state = "down" => run'[row.op].state = "down"
    BY <1>4, <1>12
  <2> QED
    BY <1>1, <1>5, <1>12, <2>1, <2>2, RowWay DEF LaneSteps
<1>13. CASE Poll
  BY <1>12, <1>13 DEF Poll, launcherVars, Local, managerVars
<1>14. CASE StatusCommand
  <2>1. CASE proc' = Idle
    BY <2>1, IdleWay DEF Idle
  <2>2. CASE \E row \in Row : /\ OwnerReads(row)
                              /\ proc' = [proc EXCEPT !.at = "refresh", !.row = row]
                              /\ UNCHANGED launcherVars
    BY <1>12, <1>14, <2>2 DEF StatusCommand, launcherVars, Local, managerVars
  <2> QED
    BY <1>14, <2>1, <2>2 DEF StatusCommand, Leave
<1>15. CASE Rebind
  <2>1. journal' = None /\ proc' = [proc EXCEPT !.cmd = "status"] /\ proc.row = None
        /\ proc.at = "command"
    BY <1>1, <1>2, <1>15 DEF Rebind
  <2>2. proc'.at = "command" /\ proc'.row = None
    BY <1>0, <2>1 DEF TypeOK
  <2> QED
    BY <2>1, <2>2, RowWay DEF LaneSteps
<1> QED
  BY <1>6, <1>7, <1>8, <1>9, <1>10, <1>11, <1>13, <1>14, <1>15 DEF CommandStep

\* The operator configures between invocations, and breaks a lease under one.
LEMMA OperatorWay ==
    ASSUME IInv, Next, OperatorStep
    PROVE  UnderWay'
<1>0. Durable /\ UnderWay /\ TypeOK
  BY DEF IInv, Durable
<1>1. CASE \E cmd \in Commands : Invoke(cmd)
  <2>1. proc'.at \in {"abandon", "pending"} /\ proc'.row = None
    BY <1>1 DEF Invoke, Idle
  <2> QED
    BY <2>1, IdleWay
<1>2. CASE Configured
  <2>1. proc.at = "idle" /\ proc' = proc
    BY <1>2 DEF Configured, Register, Select, Drift, Configure
  <2>2. proc.row = None
    BY <1>0, <2>1 DEF UnderWay, RowStands, LaneSteps
  <2> QED
    BY <2>1, <2>2, IdleWay
<1>3. CASE \E o \in Op : BreakLease(o)
  <2>1. UNCHANGED <<journal, settled, liveness, abandoned, request, proc, entry, selected,
                    flying, outcome, run, key, drifted, sent>>
    BY <1>3 DEF BreakLease, launcherVars, managerVars
  <2>2. Place' /\ InHand' /\ RowStands' /\ Ready'
    BY <2>1, StayWay
  <2>3. Answers'
    BY <1>0, <2>1 DEF UnderWay, Answers, Dead, Disowned
  <2> QED
    BY <2>2, <2>3 DEF UnderWay
<1> QED
  BY <1>1, <1>2, <1>3 DEF OperatorStep, Configured

-----------------------------------------------------------------------------
(* The invariant, and the properties it implies.                           *)

\* A step that changes nothing keeps everything.
LEMMA StutterStep ==
    ASSUME IInv, UNCHANGED vars
    PROVE  IInv'
<1> USE DEF vars, launcherVars, configVars, managerVars
<1>1. TypeOK'
  BY DEF IInv, Durable, TypeOK
<1>2. Requested' = Requested /\ (\A o : OpStore(o)' = OpStore(o)) /\ Submitted' = Submitted
  BY DEF Requested, OpStore, Submitted
<1>3. Numbered'
  BY <1>2 DEF IInv, Durable, Numbered
<1>4. \A s : Started(s)' = Started(s)
  BY DEF Started, OpStore
<1>5. Generations'
  <2>1. \A o \in Op : Cardinality(Started(OpStore(o)))' = Cardinality(Started(OpStore(o)))
    BY DEF Started, OpStore
  <2> QED
    BY <1>2, <2>1 DEF IInv, Durable, Generations, OpStore
<1>6. Targets' /\ Calls' /\ Unsent' /\ Recorded'
  BY DEF IInv, Durable, Targets, Calls, Unsent, Submitted, Cleared, Recorded, OpStore
<1>7. Settlements'
  BY DEF IInv, Durable, Settlements, Upheld, Dead, Disowned, Requested
<1>8. UnderWay'
  BY DEF IInv, UnderWay, Place, Answers, InHand, RowStands, Ready, Submitted, OpStore, Cleared,
         HasSession, Upheld, Dead, Disowned
<1> QED
  BY <1>1, <1>3, <1>5, <1>6, <1>7, <1>8 DEF IInv, Durable

\* A lane without operations satisfies the invariant.
LEMMA InitHolds == Init => IInv
<1> SUFFICES ASSUME Init
             PROVE  IInv
  OBVIOUS
<1>0. None \notin Op /\ MaxOps \in Nat /\ MaxConfig \in Nat
  BY NoneAssumption, BoundsAssumption
<1>1. TypeOK
  <2>1. entry \in [Id -> Registration \cup {None}]
    BY DEF Init
  <2>2. proc \in ProcType
    BY DEF Init, Idle, ProcType, Step, AllCommands, Verdict
  <2>3. run \in [Op -> [session : Op \cup {None}, gen : 0..MaxOps, state : RunState]]
    BY <1>0 DEF Init, NoRun, RunState
  <2> QED
    BY <1>0, <2>1, <2>2, <2>3 DEF Init, TypeOK, Verdict, ProcType
<1>2. Requested = {}
  BY DEF Init, Requested
<1>3. Numbered
  <2>1. Cardinality({}) = 0
    BY FS_EmptySet
  <2> QED
    BY <1>2, <2>1 DEF Init, Numbered
<1>4. Generations /\ Targets /\ Calls /\ Unsent /\ Settlements /\ Recorded
  BY <1>0, <1>2 DEF Init, Generations, NoRun, Targets, Calls, Unsent, Settlements, Upheld,
                    Recorded
<1>5. UnderWay
  BY DEF Init, Idle, UnderWay, Place, Answers, InHand, RowStands, Ready, OpSteps, LaneSteps,
         CallSteps
<1> QED
  BY <1>1, <1>3, <1>4, <1>5 DEF IInv, Durable

\* Every step of an invocation, a manager or the operator keeps the invariant.
LEMMA StepHolds == IInv /\ [Next]_vars => IInv'
<1>1. ASSUME IInv, Next
      PROVE  IInv'
  <2>1. Durable'
    BY <1>1, TypeStep, NumberedStep, GenerationsStep, TargetsStep, CallsStep, UnsentStep,
       SettlementsStep, RecordedStep DEF Durable
  <2>2. UnderWay'
    <3>1. CASE End
      BY <3>1, IdleWay DEF End, Leave, Idle
    <3> QED
      BY <1>1, <3>1, ManagersWay, JournalWay, CommandWay, OperatorWay DEF Next
  <2> QED
    BY <2>1, <2>2 DEF IInv
<1> QED
  BY <1>1, StutterStep

\* The lane's invariant, for every set of registrations and any number of
\* operations and changes.
THEOREM LaneInvariant == Spec => []IInv
BY InitHolds, StepHolds, PTL DEF Spec

\* The lane, its invocations and its managers stay in the states the code has.
THEOREM TypeCorrect == Spec => []TypeOK
<1>1. IInv => TypeOK
  BY DEF IInv, Durable
<1> QED
  BY <1>1, LaneInvariant, PTL

\* No crash, timeout, recovery or abandon makes a second launch or resume call
\* for an operation (possibly_submitted is written before the call).
THEOREM SendsOnce == Spec => []SentAtMostOnce
<1>1. IInv => SentAtMostOnce
  BY DEF IInv, Durable, Calls, SentAtMostOnce
<1> QED
  BY <1>1, LaneInvariant, PTL

\* A live generation is recorded, pending, overridden or disowned.
LEMMA CoveredByJournal == IInv => JournalCovers
<1> SUFFICES ASSUME IInv, NEW o \in Op, MayLive(o), ~Overridden(o), ~Disowned(o)
             PROVE  journal # None /\ journal.op = o
  BY DEF JournalCovers
<1>0. Durable
  BY DEF IInv
<1>1. \/ outcome[o] \in {"started", "unknown", "admitted"}
      \/ (o \in flying /\ outcome[o] = "not_found")
  BY <1>0 DEF MayLive, Alive, Durable, Generations
<1>2. o \in Requested
  BY <1>0, <1>1 DEF Durable, Numbered, Requested
<1>3. ~Dead(o)
  BY <1>1 DEF Dead
<1>4. settled[o] = "none"
  <2>1. Upheld(o, settled[o]) /\ settled[o] \in Verdict
    BY <1>0 DEF Durable, Settlements, TypeOK
  <2> QED
    BY <1>3, <2>1 DEF Upheld, Overridden, Verdict
<1> QED
  BY <1>0, <1>2, <1>4 DEF Durable, Settlements

\* What may live is what the journal has pending, unless the operator took it
\* upon himself or the session's identity drifted.
THEOREM PendingIsKept == Spec => []JournalCovers
BY CoveredByJournal, LaneInvariant, PTL

\* What the lane has recorded as over, in its verdicts and in its liveness
\* record, is over.
THEOREM EndsHold == Spec => []RecordedEndsHold
<1>1. IInv => RecordedEndsHold
  <2> SUFFICES ASSUME IInv
               PROVE  VerdictsHold /\ DownMeansDown
    BY DEF RecordedEndsHold
  <2>0. Durable
    BY DEF IInv
  <2>1. ASSUME NEW o \in Op, settled[o] \in {"failed", "cancelled"}
        PROVE  run[o].state = "none" \/ Disowned(o)
    <3>1. Dead(o)
      BY <2>0, <2>1 DEF Durable, Settlements, Upheld
    <3> QED
      BY <2>0, <3>1 DEF Durable, Generations, Dead
  <2>2. ASSUME liveness # None, liveness.state = "down", liveness.source = "manager"
        PROVE  run[liveness.op].state = "down"
    BY <2>0, <2>2 DEF Durable, Recorded
  <2> QED
    BY <2>1, <2>2 DEF VerdictsHold, DownMeansDown
<1> QED
  BY <1>1, LaneInvariant, PTL

\* Two generations that are alive at once: the operator gave up the earlier one,
\* or its manager disowned it because its identity drifted.
SecondOnlyOverTheOperator ==
    \A a, b \in Op : a < b /\ Alive(a) /\ Alive(b) => Overridden(a) \/ Disowned(a)

\* Of two live generations the operator overrode, or drift disowned, the first.
LEMMA OneGeneration == IInv => SecondOnlyOverTheOperator
<1> SUFFICES ASSUME IInv, NEW a \in Op, NEW b \in Op, a < b, Alive(a), Alive(b),
                    ~Overridden(a), ~Disowned(a)
             PROVE  FALSE
  BY DEF SecondOnlyOverTheOperator
<1>0. Durable
  BY DEF IInv
<1>1. journal # None /\ journal.op = a
  BY CoveredByJournal DEF JournalCovers, MayLive
<1>2. a = Cardinality(Requested) /\ a \in Nat
  BY <1>0, <1>1, RequestedFinite DEF Durable, Numbered
<1>3. run[b].state # "none"
  BY DEF Alive
<1>4. b \in 1..a
  BY <1>0, <1>2, <1>3, Basics DEF Durable, Numbered, Requested
<1> QED
  BY <1>2, <1>4

\* The launcher starts no second generation while the first may live, whatever
\* managers the two have.
THEOREM NoSecondStart == Spec => []SecondOnlyOverTheOperator
BY OneGeneration, LaneInvariant, PTL

\* Without drift of Curator identities nothing is ever disowned.
Undrifted == drifted = {}

\* Where no identity may drift, none does.
LEMMA NothingDrifts ==
    ASSUME MayDrift = FALSE
    PROVE  Spec => []Undrifted
<1>1. Init => Undrifted
  BY DEF Init, Undrifted
<1>2. Undrifted /\ [Next]_vars => Undrifted'
  <2> SUFFICES ASSUME Undrifted, [Next]_vars
               PROVE  Undrifted'
    OBVIOUS
  <2>1. CASE Next
    <3>1. CASE Configured
      BY <3>1 DEF Configured, Register, Select, Drift, Configure, Undrifted
    <3> QED
      BY <2>1, <3>1, Frames DEF Undrifted
  <2>2. CASE UNCHANGED vars
    BY <2>2 DEF vars, Undrifted
  <2> QED
    BY <2>1, <2>2
<1> QED
  BY <1>1, <1>2, PTL DEF Spec

\* Without drift only the operator's override lets a second generation start.
THEOREM NoSecondWithoutDrift ==
    ASSUME MayDrift = FALSE
    PROVE  Spec => []NoSecondGeneration
<1>1. Spec => []Undrifted
  BY NothingDrifts
<1>2. IInv /\ Undrifted => NoSecondGeneration
  BY OneGeneration DEF SecondOnlyOverTheOperator, NoSecondGeneration, Disowned, Undrifted
<1> QED
  BY <1>1, <1>2, LaneInvariant, PTL

\* The liveness record is what its manager said, and no call is made while the
\* generation the manager put into it is alive.
THEOREM OwnerIsObeyed == Spec => []OwnerEvidenceHolds
<1>1. IInv => OwnerEvidenceHolds
  <2> SUFFICES ASSUME IInv
               PROVE  LivenessNamesAStart /\ NoStartOverOwnerEvidence
    BY DEF OwnerEvidenceHolds
  <2>1. LivenessNamesAStart
    BY DEF IInv, Durable, Recorded, LivenessNamesAStart
  <2>2. NoStartOverOwnerEvidence
    BY DEF IInv, UnderWay, Ready, Cleared, NoStartOverOwnerEvidence, Alive
  <2> QED
    BY <2>1, <2>2
<1> QED
  BY <1>1, LaneInvariant, PTL

\* Under one binding the record never goes back to an older generation
\* (compareAndSwap admits the same or the next one).
THEOREM LivenessOnlyAdvances == Spec => LivenessAdvances
<1> DEFINE Ahead == liveness # None /\ liveness'.reg = liveness.reg
                       => liveness'.gen \geq liveness.gen
<1>1. ASSUME IInv, Next
      PROVE  Ahead
  <2> SUFFICES ASSUME liveness # None, liveness'.reg = liveness.reg
               PROVE  liveness'.gen \geq liveness.gen
    OBVIOUS
  <2>0. Durable /\ UnderWay /\ TypeOK
    BY <1>1 DEF IInv, Durable
  <2>1. liveness \in Record /\ liveness.gen \in Nat
    BY <2>0, Basics DEF Record
  <2>2. CASE \/ liveness' = liveness
             \/ \E s, t : liveness' = [liveness EXCEPT !.state = s, !.source = t]
    <3>1. ASSUME NEW s, NEW t, liveness' = [liveness EXCEPT !.state = s, !.source = t]
          PROVE  liveness'.gen = liveness.gen
      BY <2>1, <3>1 DEF Record
    <3>2. liveness'.gen = liveness.gen
      BY <2>2, <3>1
    <3> QED
      BY <2>1, <3>2
  <2>3. ASSUME NEW next, NEW read, Commits(next, read), next.reg = liveness.reg, next.gen \in Nat
        PROVE  next.gen \geq liveness.gen
    BY <2>1, <2>3 DEF Commits
  <2>4. CASE Finish
    <3> DEFINE next == [reg |-> request[proc.op].reg, op |-> proc.op, gen |-> run[proc.op].gen,
                        session |-> run[proc.op].session, state |-> "up", source |-> "manager"]
    <3>1. liveness' = next /\ Commits(next, FALSE)
      BY <2>4 DEF Finish
    <3>2. proc.op \in Op
      BY <2>0, <2>4, Basics DEF Finish, UnderWay, Place, OpSteps
    <3>3. next.gen \in Nat
      BY <2>0, <3>2, Basics
    <3> HIDE DEF next
    <3> QED
      BY <2>3, <3>1, <3>3
  <2>5. ASSUME proc.row # None, Refresh(proc.row)
        PROVE  liveness'.gen \geq liveness.gen
    <3>1. liveness' = Fresh(proc.row) /\ Commits(Fresh(proc.row), TRUE)
      BY <2>5 DEF Refresh
    <3>2. proc.row.gen \in Nat
      BY <2>0, <2>5 DEF TypeOK, Row
    <3>3. Fresh(proc.row).gen \in Nat
      BY <2>1, <3>2 DEF Fresh, Record
    <3> QED
      BY <2>3, <3>1, <3>3
  <2>6. CASE UpList
    BY <2>2, <2>5, <2>6 DEF UpList, launcherVars
  <2>7. CASE RefreshStep
    BY <2>0, <2>5, <2>7 DEF RefreshStep, UnderWay, Ready
  <2>8. CASE AbandonLiveness
    BY <2>2, <2>8 DEF AbandonLiveness
  <2>9. CASE StatusCommand
    BY <2>2, <2>9 DEF StatusCommand, launcherVars
  <2>10. CASE Rebind
    <3>1. \E r : liveness' = [liveness EXCEPT !.reg = r]
      BY <2>10 DEF Rebind
    <3> QED
      BY <2>1, <3>1 DEF Record
  <2> QED
    BY <1>1, <2>2, <2>4, <2>6, <2>7, <2>8, <2>9, <2>10, Frames
<1>2. IInv /\ [Next]_vars => [Ahead]_vars
  BY <1>1
<1> QED
  BY <1>2, LaneInvariant, PTL DEF Spec, LivenessAdvances

-----------------------------------------------------------------------------
(* The managers behind the lane keep the promise of Admission.             *)

\* A lane without operations has no key held.
LEMMA AdmissionInit == Init => A!AInit
BY DEF Init, A!AInit, fateOf

\* Every step is a beginning, a death or the freeing of a key, or none of them.
LEMMA AdmissionStep == IInv /\ [Next]_vars => [A!ANext]_(A!avars)
<1> SUFFICES ASSUME IInv, [Next]_vars
             PROVE  [A!ANext]_(A!avars)
  OBVIOUS
<1>0. Durable /\ UnderWay /\ TypeOK
  BY DEF IInv, Durable
<1>1. ASSUME UNCHANGED <<outcome, key>>
      PROVE  UNCHANGED A!avars
  BY <1>1 DEF A!avars, fateOf
<1>2. ASSUME NEW o \in Op
      PROVE  fateOf[o] = CASE outcome[o] = "not_found" -> "open"
                           [] outcome[o] \in {"failed", "cancelled"} -> "dead"
                           [] OTHER -> "begun"
  BY DEF fateOf
<1>3. ASSUME NEW o \in Op, outcome[o] = "not_found", key' = key,
             NEW w \in {"failed", "cancelled"}, outcome' = [outcome EXCEPT ![o] = w]
      PROVE  [A!ANext]_(A!avars)
  <2>1. fateOf[o] = "open"
    BY <1>2, <1>3
  <2>2. fateOf' = [fateOf EXCEPT ![o] = "dead"]
    BY <1>0, <1>3 DEF fateOf, TypeOK
  <2>3. A!Die(o)
    BY <1>3, <2>1, <2>2 DEF A!Die
  <2> QED
    BY <2>3 DEF A!ANext
<1>4. ASSUME NEW o \in Op, o \in flying, outcome[o] = "not_found", Vacant(o),
             NEW w \in {"admitted", "started", "unknown"}, outcome' = [outcome EXCEPT ![o] = w],
             key' = [key EXCEPT ![OpStore(o)] = o]
      PROVE  [A!ANext]_(A!avars)
  <2>1. fateOf[o] = "open"
    BY <1>2, <1>4
  <2>2. fateOf' = [fateOf EXCEPT ![o] = "begun"]
    BY <1>0, <1>4 DEF fateOf, TypeOK
  <2>3. OpStore(o) \in Store
    BY <1>0, <1>4, Basics DEF Requested, OpStore, Store
  <2>4. key[OpStore(o)] = None /\ OpStore(o) # None
    BY <1>4, <2>3, RegistryAssumption DEF Vacant
  <2>5. A!Begin(o, OpStore(o))
    BY <1>4, <2>1, <2>2, <2>4 DEF A!Begin
  <2> QED
    BY <2>3, <2>5 DEF A!ANext
<1>5. ASSUME NEW o \in Op, NEW state, EndRun(o, state), outcome' = outcome
      PROVE  [A!ANext]_(A!avars)
  <2>1. CASE key' = key
    BY <1>1, <1>5, <2>1
  <2>2. CASE key' # key
    <3>1. key[OpStore(o)] = o /\ key' = [key EXCEPT ![OpStore(o)] = None]
      BY <1>5, <2>2 DEF EndRun
    <3>2. OpStore(o) \in Store
      BY <1>0, <2>2, <3>1 DEF TypeOK
    <3>3. o # None
      BY NoneAssumption
    <3>4. UNCHANGED fateOf
      BY <1>5 DEF fateOf
    <3>5. A!Free(OpStore(o))
      BY <3>1, <3>2, <3>3, <3>4 DEF A!Free
    <3> QED
      BY <3>2, <3>5 DEF A!ANext
  <2> QED
    BY <2>1, <2>2
<1>6. CASE Next
  <2>1. CASE \E o \in Op : ServeFailure(o)
    BY <1>3, <2>1 DEF ServeFailure
  <2>2. CASE \E o \in Op : ServeReservation(o)
    BY <1>4, <2>2 DEF ServeReservation
  <2>3. CASE \E o \in Op : ServeStart(o)
    <3>1. PICK o \in Op : ServeStart(o)
      BY <2>3
    <3>2. PICK out \in {"started", "unknown"} : outcome' = [outcome EXCEPT ![o] = out]
      BY <3>1 DEF ServeStart
    <3> QED
      BY <1>4, <3>1, <3>2 DEF ServeStart
  <2>4. CASE \E o \in Op : ExternalStop(o)
    BY <1>5, <2>4 DEF ExternalStop
  <2>5. CASE AskCancel
    <3>1. proc.op \in Op /\ key' = key
      BY <1>0, <2>5, Basics DEF AskCancel, UnderWay, Place, OpSteps
    <3>2. CASE outcome[proc.op] = "not_found"
      <4>1. outcome' = [outcome EXCEPT ![proc.op] = "cancelled"]
        BY <2>5, <3>2 DEF AskCancel
      <4> QED
        BY <1>3, <3>1, <3>2, <4>1
    <3>3. CASE outcome[proc.op] # "not_found"
      <4>1. outcome' = outcome \/ (/\ outcome' = [outcome EXCEPT ![proc.op] = "cancelled"]
                                   /\ outcome[proc.op] = "cancelled")
        BY <2>5, <3>3, Zenon DEF AskCancel, OutcomeOf
      <4>2. outcome' = outcome
        BY <1>0, <3>1, <4>1 DEF TypeOK
      <4> QED
        BY <1>1, <3>1, <4>2
    <3> QED
      BY <3>2, <3>3
  <2>6. CASE StopCall
    <3>1. proc.row.op \in Op
      BY <1>0, <2>6 DEF StopCall, UnderWay, Ready, TypeOK, Row
    <3> QED
      BY <1>5, <2>6, <3>1 DEF StopCall
  <2> QED
    BY <1>1, <1>6, <2>1, <2>2, <2>3, <2>4, <2>5, <2>6, Frames
<1>7. CASE UNCHANGED vars
  BY <1>1, <1>7 DEF vars, managerVars
<1> QED
  BY <1>6, <1>7

\* Whatever the lane's invocations do, the managers behind it implement the
\* admission protocol of FRONT-DOOR.md 5.7.
THEOREM Implementation == Spec => ImplementsAdmission
BY AdmissionInit, AdmissionStep, LaneInvariant, PTL DEF Spec, ImplementsAdmission, A!ASpec
=============================================================================
