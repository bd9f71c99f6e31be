-------------------------- MODULE GatewayLease_proofs --------------------------
(***************************************************************************)
(* Proofs about GatewayLease, for any number of signals.  Path says what      *)
(* exists before the child does, Held where a signal that must abort the      *)
(* launch can be, Room that the channel and the watcher hold no signal twice, *)
(* and Calls which requests can give the launch its verdict.                  *)
(***************************************************************************)
EXTENDS GatewayLease, TLAPS

\* Nothing runs before the start, and no watcher after its stage.
Path ==
    /\ at \in {"watch", "stop", "check", "start"} => child = "none" /\ forwarder = "off"
    /\ at \notin {"watch", "stop"} => watcher = "exited"

\* An early signal is in the channel or in the watcher's hand until the launch is aborted.
Held ==
    /\ early /\ at \in {"watch", "stop", "check"} => queue > 0 \/ watcher = "holding"
    /\ early => at \notin {"start", "wait", "join"} /\ child = "none"

\* Every signal is in one place.
Room == queue + (IF watcher = "holding" THEN 1 ELSE 0) <= arrived

\* The main goroutine asks for nothing but the end, and its verdict is its last word.
Calls ==
    /\ \A c \in wire : c.by = "main" => c = Request("end", "main") /\ at = "calling"
    /\ verdict # "none" => at = "over"
    /\ verdict = "ended" => service = "ended"

IInv == TypeOK /\ Path /\ Held /\ Room /\ Calls

-----------------------------------------------------------------------------
(* Lemmas on the requests.                                                 *)

LEMMA RequestTyped ==
    ASSUME NEW op \in {"activate", "renew", "end"}, NEW by \in {"duty", "main", "nobody"}
    PROVE  /\ Request(op, by) \in Requests
           /\ Request(op, by).op = op /\ Request(op, by).by = by
  BY DEF Request, Requests

\* A caller that goes on leaves its request to nobody.
LEMMA OrphanedKeeps ==
    ASSUME NEW op \in {"activate", "renew", "end"}, NEW by \in {"duty", "main"}, wire \subseteq Requests
    PROVE  /\ Orphaned(op, by) \subseteq Requests
           /\ \A c \in Orphaned(op, by) : c.by = "main" => c \in wire /\ c # Request(op, by)
  BY RequestTyped DEF Orphaned

LEMMA OpTyped == \A d \in InFlight : OpOf(d) \in {"activate", "renew", "end"}
  BY DEF InFlight, OpOf

\* The ways out of a check.
LEMMA CheckSteps ==
    ASSUME TypeOK, Check
    PROVE  /\ at = "check"
           /\ \/ /\ at' = "drain" /\ stage' = stage /\ watcher' = watcher
                 /\ queue' = queue \/ (queue > 0 /\ queue' = queue - 1)
              \/ /\ queue = 0 /\ queue' = queue
                 /\ \/ at' = "start" /\ stage' = stage /\ watcher' = watcher
                    \/ at' = "watch" /\ stage' \in {"recheck", "inject"} /\ watcher' = "waiting"
           /\ UNCHANGED <<ok, verdict, arrived, early, forwarder, fired, child, duty, stopped,
                          recovering, window, service, wire>>
<1> USE DEF TypeOK, Check, Watch, Goto, leaseVars, gatewayVars
<1>1. CASE stage = "prepare"
  BY <1>1
<1>2. CASE stage = "recheck"
  BY <1>2
<1>3. CASE stage = "inject"
  BY <1>3
<1> QED
  BY <1>1, <1>2, <1>3

\* The ways out of an error.
LEMMA AfterErrorTyped ==
    \A d \in InFlight : AfterError(d) \in {"activatePause", "activate", "endPause", "renewPause"}
  BY DEF InFlight, AfterError

\* What a served request does to the main goroutine.
LEMMA ServeSteps ==
    ASSUME NEW c \in Requests, Serve(c)
    PROVE  /\ \/ at' = at /\ verdict' = verdict
              \/ at' = "over" /\ verdict' = "ended" /\ c.by = "main"
           /\ stage' = stage /\ ok' = ok
<1> USE DEF Answer, Return, mainVars
<1>1. CASE UNCHANGED mainVars
  BY <1>1
<1>2. CASE Answer(c) /\ c.by = "main"
  BY <1>2
<1>3. CASE Answer(c) /\ c.by # "main"
  BY <1>3
<1> QED
  BY <1>1, <1>2, <1>3 DEF Serve

-----------------------------------------------------------------------------
(* Initial states and steps.                                               *)

LEMMA InvInit == Init => IInv
<1> SUFFICES ASSUME Init PROVE IInv
  OBVIOUS
<1>1. queue \in 0..MaxSignals /\ arrived \in 0..MaxSignals /\ Room
  BY MaxSignalsAssumption DEF Init, Room
<1>2. TypeOK
  BY <1>1 DEF Init, TypeOK
<1>3. Path /\ Held /\ Calls
  BY DEF Init, Path, Held, Calls
<1> QED
  BY <1>1, <1>2, <1>3 DEF IInv

\* Every step keeps the types.
LEMMA TypeStep == IInv /\ [Next]_vars => TypeOK'
<1> SUFFICES ASSUME IInv, [Next]_vars PROVE TypeOK'
  OBVIOUS
<1> USE MaxSignalsAssumption DEF IInv, TypeOK, mainVars, signalVars, leaseVars, gatewayVars,
      Goto, Return, Duty, Path, Room, Calls
<1>1. CASE StageEnds
  BY <1>1 DEF StageEnds
<1>2. CASE StopWatch
  BY <1>2 DEF StopWatch
<1>3. CASE Check
  BY <1>3, CheckSteps
<1>4. CASE Start
  BY <1>4 DEF Start
<1>5. CASE Reap
  BY <1>5 DEF Reap
<1>6. CASE Join
  BY <1>6 DEF Join
<1>7. CASE Drain
  BY <1>7 DEF Drain
<1>8. CASE Finish
  BY <1>8 DEF Finish
<1>9. CASE JoinDuty
  BY <1>9 DEF JoinDuty
<1>10. CASE Call
  BY <1>10, RequestTyped DEF Call
<1>11. CASE CallTimeout
  BY <1>11, OrphanedKeeps DEF CallTimeout, Failed
<1>12. CASE Pause
  BY <1>12 DEF Pause
<1>13. CASE WatcherTakes
  BY <1>13 DEF WatcherTakes
<1>14. CASE WatcherPutsBack
  BY <1>14 DEF WatcherPutsBack
<1>15. CASE WatcherDone
  BY <1>15 DEF WatcherDone
<1>16. CASE Forward
  BY <1>16 DEF Forward
<1>17. CASE ForwarderDone
  BY <1>17 DEF ForwarderDone
<1>18. CASE Fire
  BY <1>18 DEF Fire
<1>19. CASE Activate
  BY <1>19, RequestTyped DEF Activate, DutyGoes, DutySends
<1>20. CASE Renew
  BY <1>20, RequestTyped DEF Renew, DutySends
<1>21. CASE Reactivate
  BY <1>21, RequestTyped DEF Reactivate, DutySends
<1>22. CASE End
  BY <1>22, RequestTyped DEF End, DutySends
<1>23. CASE Retry
  BY <1>23 DEF Retry, DutyGoes
<1>24. CASE Stopped
  BY <1>24 DEF Stopped, DutyGoes
<1>25. CASE DutyTimeout
  BY <1>25, OrphanedKeeps, OpTyped, AfterErrorTyped DEF DutyTimeout, InFlight
<1>26. CASE Signal
  BY <1>26 DEF Signal
<1>27. CASE ChildExits
  BY <1>27 DEF ChildExits
<1>28. CASE WindowPasses
  BY <1>28 DEF WindowPasses
<1>29. CASE ServiceMoves
  BY <1>29 DEF ServiceMoves
<1>30. ASSUME NEW c \in Requests, Serve(c) PROVE TypeOK'
  <2>1. service' \in {"none", "pending", "active", "ended"} /\ wire' \subseteq Requests
    BY <1>30 DEF Serve
  <2>2. at' \in {at, "over"} /\ stage' = stage /\ ok' = ok /\ verdict' \in {verdict, "ended"}
    BY <1>30, ServeSteps DEF Serve
  <2>3. duty' \in {duty, "done", "renewPause", "reactivate", "end"}
    BY <1>30 DEF Serve, Answer, AfterReply, ReplyTo
  <2> QED
    BY <1>30, <2>1, <2>2, <2>3 DEF Serve
<1>31. ASSUME NEW c \in Requests, Lose(c) PROVE TypeOK'
  BY <1>31 DEF Lose
<1>32. CASE UNCHANGED vars
  BY <1>32 DEF vars
<1> QED
  BY <1>1, <1>2, <1>3, <1>4, <1>5, <1>6, <1>7, <1>8, <1>9, <1>10, <1>11, <1>12,
     <1>13, <1>14, <1>15, <1>16, <1>17, <1>18, <1>19, <1>20, <1>21, <1>22, <1>23, <1>24,
     <1>25, <1>26, <1>27, <1>28, <1>29, <1>30, <1>31, <1>32
     DEF Next, MainStep, SignalStep, DutyStep, Environment

\* The child comes after the last stage, and every stage ends its watcher.
LEMMA PathStep == IInv /\ [Next]_vars => Path'
<1> SUFFICES ASSUME IInv, [Next]_vars PROVE Path'
  OBVIOUS
<1> USE MaxSignalsAssumption DEF IInv, TypeOK, mainVars, signalVars, leaseVars, gatewayVars,
      Goto, Return, Duty, Path, Calls
<1>1. CASE StageEnds
  BY <1>1 DEF StageEnds
<1>2. CASE StopWatch
  BY <1>2 DEF StopWatch
<1>3. CASE Check
  BY <1>3, CheckSteps
<1>4. CASE Start
  BY <1>4 DEF Start
<1>5. CASE Reap
  BY <1>5 DEF Reap
<1>6. CASE Join
  BY <1>6 DEF Join
<1>7. CASE Drain
  BY <1>7 DEF Drain
<1>8. CASE Finish
  BY <1>8 DEF Finish
<1>9. CASE JoinDuty
  BY <1>9 DEF JoinDuty
<1>10. CASE Call
  BY <1>10 DEF Call
<1>11. CASE CallTimeout
  BY <1>11 DEF CallTimeout, Failed
<1>12. CASE Pause
  BY <1>12 DEF Pause
<1>13. CASE WatcherTakes
  BY <1>13 DEF WatcherTakes
<1>14. CASE WatcherPutsBack
  BY <1>14 DEF WatcherPutsBack
<1>15. CASE WatcherDone
  BY <1>15 DEF WatcherDone
<1>16. CASE Forward
  BY <1>16 DEF Forward
<1>17. CASE ForwarderDone
  BY <1>17 DEF ForwarderDone
<1>18. CASE Fire
  BY <1>18 DEF Fire
<1>19. CASE Activate
  BY <1>19 DEF Activate, DutyGoes, DutySends
<1>20. CASE Renew
  BY <1>20 DEF Renew, DutySends
<1>21. CASE Reactivate
  BY <1>21 DEF Reactivate, DutySends
<1>22. CASE End
  BY <1>22 DEF End, DutySends
<1>23. CASE Retry
  BY <1>23 DEF Retry, DutyGoes
<1>24. CASE Stopped
  BY <1>24 DEF Stopped, DutyGoes
<1>25. CASE DutyTimeout
  BY <1>25 DEF DutyTimeout, InFlight
<1>26. CASE Signal
  BY <1>26 DEF Signal
<1>27. CASE ChildExits
  BY <1>27 DEF ChildExits
<1>28. CASE WindowPasses
  BY <1>28 DEF WindowPasses
<1>29. CASE ServiceMoves
  BY <1>29 DEF ServiceMoves
<1>30. ASSUME NEW c \in Requests, Serve(c) PROVE Path'
  BY <1>30, ServeSteps DEF Serve
<1>31. ASSUME NEW c \in Requests, Lose(c) PROVE Path'
  BY <1>31 DEF Lose
<1>32. CASE UNCHANGED vars
  BY <1>32 DEF vars
<1> QED
  BY <1>1, <1>2, <1>3, <1>4, <1>5, <1>6, <1>7, <1>8, <1>9, <1>10, <1>11, <1>12,
     <1>13, <1>14, <1>15, <1>16, <1>17, <1>18, <1>19, <1>20, <1>21, <1>22, <1>23, <1>24,
     <1>25, <1>26, <1>27, <1>28, <1>29, <1>30, <1>31, <1>32
     DEF Next, MainStep, SignalStep, DutyStep, Environment

\* Only a step that aborts the launch loses an early signal.
LEMMA HeldStep == IInv /\ [Next]_vars => Held'
<1> SUFFICES ASSUME IInv, [Next]_vars PROVE Held'
  OBVIOUS
<1> USE MaxSignalsAssumption DEF IInv, TypeOK, mainVars, signalVars, leaseVars, gatewayVars,
      Goto, Return, Duty, Path, Held, Calls
<1>1. CASE StageEnds
  BY <1>1 DEF StageEnds
<1>2. CASE StopWatch
  BY <1>2 DEF StopWatch
<1>3. CASE Check
  BY <1>3, CheckSteps
<1>4. CASE Start
  BY <1>4 DEF Start
<1>5. CASE Reap
  BY <1>5 DEF Reap
<1>6. CASE Join
  BY <1>6 DEF Join
<1>7. CASE Drain
  BY <1>7 DEF Drain
<1>8. CASE Finish
  BY <1>8 DEF Finish
<1>9. CASE JoinDuty
  BY <1>9 DEF JoinDuty
<1>10. CASE Call
  BY <1>10 DEF Call
<1>11. CASE CallTimeout
  BY <1>11 DEF CallTimeout, Failed
<1>12. CASE Pause
  BY <1>12 DEF Pause
<1>13. CASE WatcherTakes
  BY <1>13 DEF WatcherTakes
<1>14. CASE WatcherPutsBack
  BY <1>14 DEF WatcherPutsBack
<1>15. CASE WatcherDone
  BY <1>15 DEF WatcherDone
<1>16. CASE Forward
  BY <1>16 DEF Forward
<1>17. CASE ForwarderDone
  BY <1>17 DEF ForwarderDone
<1>18. CASE Fire
  BY <1>18 DEF Fire
<1>19. CASE Activate
  BY <1>19 DEF Activate, DutyGoes, DutySends
<1>20. CASE Renew
  BY <1>20 DEF Renew, DutySends
<1>21. CASE Reactivate
  BY <1>21 DEF Reactivate, DutySends
<1>22. CASE End
  BY <1>22 DEF End, DutySends
<1>23. CASE Retry
  BY <1>23 DEF Retry, DutyGoes
<1>24. CASE Stopped
  BY <1>24 DEF Stopped, DutyGoes
<1>25. CASE DutyTimeout
  BY <1>25 DEF DutyTimeout, InFlight
<1>26. CASE Signal
  BY <1>26 DEF Signal
<1>27. CASE ChildExits
  BY <1>27 DEF ChildExits
<1>28. CASE WindowPasses
  BY <1>28 DEF WindowPasses
<1>29. CASE ServiceMoves
  BY <1>29 DEF ServiceMoves
<1>30. ASSUME NEW c \in Requests, Serve(c) PROVE Held'
  BY <1>30, ServeSteps DEF Serve
<1>31. ASSUME NEW c \in Requests, Lose(c) PROVE Held'
  BY <1>31 DEF Lose
<1>32. CASE UNCHANGED vars
  BY <1>32 DEF vars
<1> QED
  BY <1>1, <1>2, <1>3, <1>4, <1>5, <1>6, <1>7, <1>8, <1>9, <1>10, <1>11, <1>12,
     <1>13, <1>14, <1>15, <1>16, <1>17, <1>18, <1>19, <1>20, <1>21, <1>22, <1>23, <1>24,
     <1>25, <1>26, <1>27, <1>28, <1>29, <1>30, <1>31, <1>32
     DEF Next, MainStep, SignalStep, DutyStep, Environment

\* A watcher takes a signal out of the channel before it puts it back.
LEMMA RoomStep == IInv /\ [Next]_vars => Room'
<1> SUFFICES ASSUME IInv, [Next]_vars PROVE Room'
  OBVIOUS
<1> USE MaxSignalsAssumption DEF IInv, TypeOK, mainVars, signalVars, leaseVars, gatewayVars,
      Goto, Return, Duty, Room
<1>1. CASE StageEnds
  BY <1>1 DEF StageEnds
<1>2. CASE StopWatch
  BY <1>2 DEF StopWatch
<1>3. CASE Check
  BY <1>3, CheckSteps
<1>4. CASE Start
  BY <1>4 DEF Start
<1>5. CASE Reap
  BY <1>5 DEF Reap
<1>6. CASE Join
  BY <1>6 DEF Join
<1>7. CASE Drain
  BY <1>7 DEF Drain
<1>8. CASE Finish
  BY <1>8 DEF Finish
<1>9. CASE JoinDuty
  BY <1>9 DEF JoinDuty
<1>10. CASE Call
  BY <1>10 DEF Call
<1>11. CASE CallTimeout
  BY <1>11 DEF CallTimeout, Failed
<1>12. CASE Pause
  BY <1>12 DEF Pause
<1>13. CASE WatcherTakes
  BY <1>13 DEF WatcherTakes
<1>14. CASE WatcherPutsBack
  BY <1>14 DEF WatcherPutsBack
<1>15. CASE WatcherDone
  BY <1>15 DEF WatcherDone
<1>16. CASE Forward
  BY <1>16 DEF Forward
<1>17. CASE ForwarderDone
  BY <1>17 DEF ForwarderDone
<1>18. CASE Fire
  BY <1>18 DEF Fire
<1>19. CASE Activate
  BY <1>19 DEF Activate, DutyGoes, DutySends
<1>20. CASE Renew
  BY <1>20 DEF Renew, DutySends
<1>21. CASE Reactivate
  BY <1>21 DEF Reactivate, DutySends
<1>22. CASE End
  BY <1>22 DEF End, DutySends
<1>23. CASE Retry
  BY <1>23 DEF Retry, DutyGoes
<1>24. CASE Stopped
  BY <1>24 DEF Stopped, DutyGoes
<1>25. CASE DutyTimeout
  BY <1>25 DEF DutyTimeout, InFlight
<1>26. CASE Signal
  BY <1>26 DEF Signal
<1>27. CASE ChildExits
  BY <1>27 DEF ChildExits
<1>28. CASE WindowPasses
  BY <1>28 DEF WindowPasses
<1>29. CASE ServiceMoves
  BY <1>29 DEF ServiceMoves
<1>30. ASSUME NEW c \in Requests, Serve(c) PROVE Room'
  BY <1>30, ServeSteps DEF Serve
<1>31. ASSUME NEW c \in Requests, Lose(c) PROVE Room'
  BY <1>31 DEF Lose
<1>32. CASE UNCHANGED vars
  BY <1>32 DEF vars
<1> QED
  BY <1>1, <1>2, <1>3, <1>4, <1>5, <1>6, <1>7, <1>8, <1>9, <1>10, <1>11, <1>12,
     <1>13, <1>14, <1>15, <1>16, <1>17, <1>18, <1>19, <1>20, <1>21, <1>22, <1>23, <1>24,
     <1>25, <1>26, <1>27, <1>28, <1>29, <1>30, <1>31, <1>32
     DEF Next, MainStep, SignalStep, DutyStep, Environment

\* Only a served request to end the session gives the verdict that it ended.
LEMMA CallsStep == IInv /\ [Next]_vars => Calls'
<1> SUFFICES ASSUME IInv, [Next]_vars PROVE Calls'
  OBVIOUS
<1> USE MaxSignalsAssumption DEF IInv, TypeOK, mainVars, signalVars, leaseVars, gatewayVars,
      Goto, Return, Duty, Calls
<1>1. CASE StageEnds
  BY <1>1 DEF StageEnds
<1>2. CASE StopWatch
  BY <1>2 DEF StopWatch
<1>3. CASE Check
  BY <1>3, CheckSteps
<1>4. CASE Start
  BY <1>4 DEF Start
<1>5. CASE Reap
  BY <1>5 DEF Reap
<1>6. CASE Join
  BY <1>6 DEF Join
<1>7. CASE Drain
  BY <1>7 DEF Drain
<1>8. CASE Finish
  BY <1>8 DEF Finish
<1>9. CASE JoinDuty
  BY <1>9 DEF JoinDuty
<1>10. CASE Call
  BY <1>10, RequestTyped DEF Call
<1>11. CASE CallTimeout
  BY <1>11, OrphanedKeeps DEF CallTimeout, Failed
<1>12. CASE Pause
  BY <1>12 DEF Pause
<1>13. CASE WatcherTakes
  BY <1>13 DEF WatcherTakes
<1>14. CASE WatcherPutsBack
  BY <1>14 DEF WatcherPutsBack
<1>15. CASE WatcherDone
  BY <1>15 DEF WatcherDone
<1>16. CASE Forward
  BY <1>16 DEF Forward
<1>17. CASE ForwarderDone
  BY <1>17 DEF ForwarderDone
<1>18. CASE Fire
  BY <1>18 DEF Fire
<1>19. CASE Activate
  BY <1>19, RequestTyped DEF Activate, DutyGoes, DutySends
<1>20. CASE Renew
  BY <1>20, RequestTyped DEF Renew, DutySends
<1>21. CASE Reactivate
  BY <1>21, RequestTyped DEF Reactivate, DutySends
<1>22. CASE End
  BY <1>22, RequestTyped DEF End, DutySends
<1>23. CASE Retry
  BY <1>23 DEF Retry, DutyGoes
<1>24. CASE Stopped
  BY <1>24 DEF Stopped, DutyGoes
<1>25. CASE DutyTimeout
  BY <1>25, OrphanedKeeps, OpTyped, AfterErrorTyped DEF DutyTimeout, InFlight
<1>26. CASE Signal
  BY <1>26 DEF Signal
<1>27. CASE ChildExits
  BY <1>27 DEF ChildExits
<1>28. CASE WindowPasses
  BY <1>28 DEF WindowPasses
<1>29. CASE ServiceMoves
  BY <1>29 DEF ServiceMoves
<1>30. ASSUME NEW c \in Requests, Serve(c) PROVE Calls'
  <2>1. wire' = wire \ {c} /\ (service = "ended" => service' = "ended")
    BY <1>30 DEF Serve
  <2>2. CASE at' = at /\ verdict' = verdict
    BY <2>1, <2>2
  <2>3. CASE at' = "over" /\ verdict' = "ended" /\ c.by = "main"
    <3>1. c = Request("end", "main") /\ c \in wire
      BY <1>30, <2>3 DEF Serve
    <3>2. service' = "ended"
      BY <1>30, <3>1, RequestTyped DEF Serve
    <3> QED
      BY <2>1, <2>3, <3>1, <3>2
  <2> QED
    BY <1>30, <2>2, <2>3, ServeSteps
<1>31. ASSUME NEW c \in Requests, Lose(c) PROVE Calls'
  BY <1>31 DEF Lose
<1>32. CASE UNCHANGED vars
  BY <1>32 DEF vars
<1> QED
  BY <1>1, <1>2, <1>3, <1>4, <1>5, <1>6, <1>7, <1>8, <1>9, <1>10, <1>11, <1>12,
     <1>13, <1>14, <1>15, <1>16, <1>17, <1>18, <1>19, <1>20, <1>21, <1>22, <1>23, <1>24,
     <1>25, <1>26, <1>27, <1>28, <1>29, <1>30, <1>31, <1>32
     DEF Next, MainStep, SignalStep, DutyStep, Environment

LEMMA InvStep == IInv /\ [Next]_vars => IInv'
  BY TypeStep, PathStep, HeldStep, RoomStep, CallsStep DEF IInv

LEMMA Invariance == Spec => []IInv
  BY InvInit, InvStep, PTL DEF Spec

-----------------------------------------------------------------------------
(* Theorems.                                                               *)

\* Type correctness: the goroutines and the gateway stay in the states that the code has.
THEOREM TypeCorrect == Spec => []TypeOK
<1> IInv => TypeOK
  BY DEF IInv
<1> QED
  BY Invariance, PTL

\* cancelOnSignal's watchers swallow no signal: one that arrives before the last check of
\* the launch leaves it without a child.
THEOREM InterruptsAbort == Spec => []InterruptAborts
<1> IInv => InterruptAborts
  BY DEF IInv, Held, InterruptAborts
<1> QED
  BY Invariance, PTL

\* When Lease.Finish reports the end, the gateway's session has ended, and no request that
\* was left on its way brings it back.
THEOREM EndIsEnd == Spec => []EndedMeansEnded
<1> IInv => EndedMeansEnded
  BY DEF IInv, Calls, EndedMeansEnded
<1> QED
  BY Invariance, PTL
=============================================================================
