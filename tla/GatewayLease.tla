----------------------------- MODULE GatewayLease -----------------------------
(***************************************************************************)
(* One native launch through the filtering gateway, from its registration  *)
(* to the end of curator-run: the main goroutine (main.go), the watcher of *)
(* held signals (lease_owner.go), the signal forwarder of the child        *)
(* (execution/process.go), the lease's duty goroutine and Finish           *)
(* (netproxy/lease.go).  The gateway is external.  Requests time out while *)
(* they are served, so one may take effect after its caller went on.       *)
(***************************************************************************)
EXTENDS Naturals

CONSTANT
    MaxSignals   \* bound: SIGINT and SIGTERM that arrive, below the channel's 8

ASSUME MaxSignalsAssumption == MaxSignals \in 0..8

VARIABLES
    at,         \* where the main goroutine stands
    stage,      \* which watched stage of the launch that is
    ok,         \* whether that stage succeeded
    verdict,    \* what Finish returned
    queue,      \* signals in the owner's channel
    arrived,    \* signals that have arrived
    early,      \* one of them arrived before the last check
    watcher,    \* cancelOnSignal's goroutine
    forwarder,  \* execution's signal goroutine
    fired,      \* Finish's context was cancelled by a signal
    child,      \* the provider process
    duty,       \* the lease's goroutine
    stopped,    \* Finish has told it to stop
    window,     \* the launcher's activation window
    service,    \* the registration at the gateway
    wire,       \* requests on their way
    recovering  \* the lease completes through the recovery journal

mainVars == <<at, stage, ok, verdict>>
signalVars == <<queue, arrived, early, watcher, forwarder, fired>>
leaseVars == <<duty, stopped, recovering>>
gatewayVars == <<window, service, wire>>
vars == <<mainVars, signalVars, child, leaseVars, gatewayVars>>

Request(op, by) == [op |-> op, by |-> by]
Requests == [op : {"activate", "renew", "end"}, by : {"duty", "main", "nobody"}]

TypeOK ==
    /\ at \in {"watch", "stop", "check", "start", "wait", "join", "drain", "finish",
               "joinDuty", "call", "calling", "pause", "over"}
    /\ stage \in {"prepare", "recheck", "inject"}
    /\ ok \in BOOLEAN
    /\ verdict \in {"none", "ended", "abandoned", "unknown"}
    /\ queue \in 0..MaxSignals /\ arrived \in 0..MaxSignals
    /\ early \in BOOLEAN
    /\ watcher \in {"waiting", "holding", "exited"}
    /\ forwarder \in {"off", "on", "exited"}
    /\ fired \in BOOLEAN
    /\ child \in {"none", "running", "exited"}
    /\ duty \in {"none", "activate", "activating", "activatePause", "renewPause",
                 "renewing", "reactivate", "reactivating", "end", "ending", "endPause",
                 "done"}
    /\ stopped \in BOOLEAN
    /\ window \in {"open", "passed"}
    /\ service \in {"none", "pending", "active", "ended"}
    /\ wire \subseteq Requests
    /\ recovering \in BOOLEAN

Init ==
    /\ at = "watch" /\ stage = "prepare" /\ ok = TRUE /\ verdict = "none"
    /\ queue = 0 /\ arrived = 0 /\ early = FALSE
    /\ watcher = "waiting" /\ forwarder = "off" /\ fired = FALSE
    /\ child = "none" /\ duty = "none" /\ stopped = FALSE
    /\ window = "open" /\ service = "none" /\ wire = {}
    /\ recovering \in BOOLEAN

(***************************************************************************)
(* Before the child                                                        *)
(***************************************************************************)
Goto(step) == at' = step /\ UNCHANGED <<stage, ok, verdict>>

\* A watched stage ends: preparation registers, the others check.
StageEnds ==
    /\ at = "watch"
    /\ ok' \in BOOLEAN
    /\ service' \in IF stage # "prepare" THEN {service}
                    ELSE IF ok' THEN {"pending"} ELSE {"none", "pending"}
    /\ at' = "stop"
    /\ UNCHANGED <<stage, verdict, signalVars, child, leaseVars, window, wire>>

\* Mutant of StopWatch: the watcher is told, but not waited for.
StopUnjoined ==
    /\ at = "stop"
    /\ Goto(IF ok THEN "check" ELSE IF stage = "prepare" THEN "over" ELSE "drain")
    /\ UNCHANGED <<signalVars, child, leaseVars, gatewayVars>>

\* stop waits for the watcher.  A launch without a lease is over.
StopWatch ==
    /\ at = "stop" /\ watcher = "exited"
    /\ Goto(IF ok THEN "check" ELSE IF stage = "prepare" THEN "over" ELSE "drain")
    /\ UNCHANGED <<signalVars, child, leaseVars, gatewayVars>>

Watch(next) ==
    /\ at' = "watch" /\ stage' = next /\ watcher' = "waiting"
    /\ UNCHANGED <<ok, verdict>>

\* A signal held so far, or any other refusal, aborts the launch.
Check ==
    /\ at = "check"
    /\ \/ queue > 0 /\ queue' = queue - 1 /\ Goto("drain") /\ UNCHANGED watcher
       \/ Goto("drain") /\ UNCHANGED <<queue, watcher>>
       \/ /\ queue = 0 /\ UNCHANGED queue
          /\ CASE stage = "prepare" -> Watch("recheck")
               [] stage = "recheck" -> Watch("inject") \/ (Goto("start") /\ UNCHANGED watcher)
               [] stage = "inject" -> Goto("start") /\ UNCHANGED watcher
    /\ UNCHANGED <<arrived, early, forwarder, fired, child, leaseVars, gatewayVars>>

\* The provider cannot be started, or it is, and the lease's duties with it.
Start ==
    /\ at = "start"
    /\ \/ Goto("drain") /\ UNCHANGED <<child, forwarder, duty>>
       \/ Goto("wait") /\ child' = "running" /\ forwarder' = "on" /\ duty' = "activate"
    /\ UNCHANGED <<queue, arrived, early, watcher, fired, stopped, recovering, gatewayVars>>

ChildExits ==
    /\ child = "running"
    /\ child' = "exited"
    /\ UNCHANGED <<mainVars, signalVars, leaseVars, gatewayVars>>

Reap ==
    /\ at = "wait" /\ child = "exited"
    /\ Goto("join")
    /\ UNCHANGED <<signalVars, child, leaseVars, gatewayVars>>

Join ==
    /\ at = "join" /\ forwarder = "exited"
    /\ Goto("drain")
    /\ UNCHANGED <<signalVars, child, leaseVars, gatewayVars>>

(***************************************************************************)
(* Signals                                                                 *)
(***************************************************************************)
\* The signals are held until the launch is over; early ones must abort it.
Signal ==
    /\ at # "over" /\ arrived < MaxSignals
    /\ arrived' = arrived + 1 /\ queue' = queue + 1
    /\ early' = (early \/ at \in {"watch", "stop", "check"})
    /\ UNCHANGED <<mainVars, watcher, forwarder, fired, child, leaseVars, gatewayVars>>

\* Mutant of WatcherTakes: the signal stays in the channel as well.
WatcherCopies ==
    /\ watcher = "waiting" /\ queue > 0
    /\ watcher' = "holding"
    /\ UNCHANGED <<mainVars, queue, arrived, early, forwarder, fired, child, leaseVars,
                   gatewayVars>>

\* The watcher takes a signal, cancels the stage's context, and puts it back.
WatcherTakes ==
    /\ watcher = "waiting" /\ queue > 0
    /\ queue' = queue - 1 /\ watcher' = "holding"
    /\ UNCHANGED <<mainVars, arrived, early, forwarder, fired, child, leaseVars, gatewayVars>>

WatcherPutsBack ==
    /\ watcher = "holding"
    /\ queue' = queue + 1 /\ watcher' = "exited"
    /\ UNCHANGED <<mainVars, arrived, early, forwarder, fired, child, leaseVars, gatewayVars>>

WatcherDone ==
    /\ watcher = "waiting" /\ at = "stop"
    /\ watcher' = "exited"
    /\ UNCHANGED <<mainVars, queue, arrived, early, forwarder, fired, child, leaseVars,
                   gatewayVars>>

\* Mutant of Forward: the owner's channel is not forwarded from.
ForwardNothing == FALSE

Forward ==
    /\ forwarder = "on" /\ queue > 0
    /\ queue' = queue - 1
    /\ UNCHANGED <<mainVars, arrived, early, watcher, forwarder, fired, child, leaseVars,
                   gatewayVars>>

ForwarderDone ==
    /\ forwarder = "on" /\ at = "join"
    /\ forwarder' = "exited"
    /\ UNCHANGED <<mainVars, queue, arrived, early, watcher, fired, child, leaseVars,
                   gatewayVars>>

\* A signal after the drain cancels Finish's context.
Fire ==
    /\ at \in {"finish", "joinDuty", "call", "calling", "pause"} /\ ~fired /\ queue > 0
    /\ queue' = queue - 1 /\ fired' = TRUE
    /\ UNCHANGED <<mainVars, arrived, early, watcher, forwarder, child, leaseVars, gatewayVars>>

(***************************************************************************)
(* Finish                                                                  *)
(***************************************************************************)
Drain ==
    /\ at = "drain"
    /\ \/ queue > 0 /\ queue' = queue - 1 /\ UNCHANGED mainVars
       \/ queue = 0 /\ UNCHANGED queue /\ Goto("finish")
    /\ UNCHANGED <<arrived, early, watcher, forwarder, fired, child, leaseVars, gatewayVars>>

Finish ==
    /\ at = "finish"
    /\ stopped' = TRUE
    /\ Goto("joinDuty")
    /\ UNCHANGED <<signalVars, child, duty, recovering, gatewayVars>>

JoinDuty ==
    /\ at = "joinDuty" /\ duty \in {"none", "done"}
    /\ Goto("call")
    /\ UNCHANGED <<signalVars, child, leaseVars, gatewayVars>>

Return(v) == at' = "over" /\ verdict' = v /\ UNCHANGED <<stage, ok>>

\* Mutant of Failed: an error is taken for the end of the session.
FailedQuietly == Return("ended")

\* Mutant of Failed: a completion that failed is tried again.
FailedRetries == Goto("pause")

\* The completion runs once; unregister is retried.
Failed == IF recovering THEN Return("unknown") ELSE Goto("pause")

\* A cancelled context ends the call before anything is sent.
Call ==
    /\ at = "call"
    /\ IF fired
       THEN Return(IF recovering THEN "unknown" ELSE "abandoned") /\ UNCHANGED wire
       ELSE /\ wire' = wire \cup {Request("end", "main")}
            /\ Goto("calling")
    /\ UNCHANGED <<signalVars, child, leaseVars, window, service>>

\* The request goes on without its caller.
Orphaned(op, by) ==
    IF Request(op, by) \in wire
    THEN (wire \ {Request(op, by)}) \cup {Request(op, "nobody")} ELSE wire

\* The client's timeout or the cancelled context.
CallTimeout ==
    /\ at = "calling"
    /\ wire' = Orphaned("end", "main")
    /\ Failed
    /\ UNCHANGED <<signalVars, child, leaseVars, window, service>>

Pause ==
    /\ at = "pause"
    /\ \/ Goto("call")
       \/ fired /\ Return("abandoned")
    /\ UNCHANGED <<signalVars, child, leaseVars, gatewayVars>>

(***************************************************************************)
(* The lease's goroutine                                                   *)
(***************************************************************************)
DutySends(op, waiting) ==
    /\ wire' = wire \cup {Request(op, "duty")}
    /\ duty' = waiting
    /\ UNCHANGED <<window, service>>
DutyGoes(next) == duty' = next /\ UNCHANGED gatewayVars

Duty == UNCHANGED <<mainVars, signalVars, child, stopped, recovering>>

\* No attempt starts once the window has passed: the token is ended instead.
Activate ==
    /\ duty = "activate"
    /\ IF window = "passed" THEN DutyGoes("end") ELSE DutySends("activate", "activating")
    /\ Duty

Renew == duty = "renewPause" /\ DutySends("renew", "renewing") /\ Duty

\* Renew found the session pending.
Reactivate == duty = "reactivate" /\ DutySends("activate", "reactivating") /\ Duty

End == duty = "end" /\ DutySends("end", "ending") /\ Duty

Retry ==
    /\ \/ duty = "activatePause" /\ DutyGoes("activate")
       \/ duty = "endPause" /\ DutyGoes("end")
    /\ Duty

\* Mutant of Stopped: the pause between renewals does not watch for Finish.
StoppedUnwatched ==
    /\ stopped
    /\ \/ duty = "activatePause" /\ DutyGoes("end")
       \/ duty = "endPause" /\ DutyGoes("done")
    /\ Duty

\* Every pause ends when Finish asks; an interrupted activation still ends the
\* token once.
Stopped ==
    /\ stopped
    /\ \/ duty = "activatePause" /\ DutyGoes("end")
       \/ duty \in {"renewPause", "endPause"} /\ DutyGoes("done")
    /\ Duty

InFlight == {"activating", "renewing", "reactivating", "ending"}
OpOf(d) == CASE d = "renewing" -> "renew" [] d = "ending" -> "end" [] OTHER -> "activate"

\* Mutant of AfterError: a failed unregister is left to Finish.
AfterErrorOnce(d) == CASE d = "activating" -> IF window = "open" THEN "activatePause" ELSE "activate"
                       [] d = "ending" -> "done"
                       [] OTHER -> "renewPause"

\* An error of any kind but unknown_token and not_active.
AfterError(d) == CASE d = "activating" -> IF window = "open" THEN "activatePause" ELSE "activate"
                   [] d = "ending" -> "endPause"
                   [] OTHER -> "renewPause"

DutyTimeout ==
    /\ duty \in InFlight
    /\ wire' = Orphaned(OpOf(duty), "duty")
    /\ duty' = AfterError(duty)
    /\ UNCHANGED <<window, service>> /\ Duty

AfterReply(d, reply) ==
    IF d = "ending" THEN "done"
    ELSE CASE reply = "ok" -> "renewPause"
           [] reply = "not_active" -> "reactivate"
           [] reply = "unknown_token" -> IF d = "renewing" THEN "done" ELSE "end"

(***************************************************************************)
(* The gateway                                                             *)
(***************************************************************************)
ReplyTo(op) ==
    CASE op # "end" /\ service = "ended" -> "unknown_token"
      [] op = "renew" /\ service = "pending" -> "not_active"
      [] OTHER -> "ok"

\* The caller hears of it if it still waits; an attempt to activate ends with
\* the window.
Answer(c) ==
    CASE c.by = "main" ->
            Return("ended") /\ UNCHANGED duty
      [] c.by = "duty" /\ ~(duty = "activating" /\ window = "passed") ->
            duty' = AfterReply(duty, ReplyTo(c.op)) /\ UNCHANGED mainVars
      [] OTHER -> UNCHANGED <<mainVars, duty>>

Serve(c) ==
    /\ c \in wire
    /\ wire' = wire \ {c}
    /\ service' = CASE c.op = "end" -> "ended"
                    [] c.op = "activate" /\ service = "pending" -> "active"
                    [] OTHER -> service
    /\ Answer(c) \/ UNCHANGED <<mainVars, duty>>
    /\ UNCHANGED <<signalVars, child, stopped, recovering, window>>

\* Nothing but the gateway itself need answer a call well.
Answered(by) == \E c \in wire : c.op = "end" /\ c.by = by /\ Serve(c) /\ Answer(c)

Lose(c) ==
    /\ c \in wire /\ wire' = wire \ {c}
    /\ UNCHANGED <<mainVars, signalVars, child, leaseVars, window, service>>

\* The launcher's window is never later than the gateway's.
WindowPasses ==
    /\ service # "none" /\ window = "open"
    /\ window' = "passed"
    /\ UNCHANGED <<mainVars, signalVars, child, leaseVars, service, wire>>

\* The window, or the idle bound, ends a session; a restart forgets that one was
\* activated.
ServiceMoves ==
    /\ \/ service = "pending" /\ window = "passed" /\ service' = "ended"
       \/ service = "active" /\ service' \in {"ended", "pending"}
    /\ UNCHANGED <<mainVars, signalVars, child, leaseVars, window, wire>>

(***************************************************************************)
(* Specification                                                           *)
(***************************************************************************)
MainStep ==
    \/ StageEnds \/ StopWatch \/ Check \/ Start \/ Reap \/ Join
    \/ Drain \/ Finish \/ JoinDuty \/ Call \/ CallTimeout \/ Pause
SignalStep == WatcherTakes \/ WatcherPutsBack \/ WatcherDone \/ Forward \/ ForwarderDone \/ Fire
DutyStep == Activate \/ Renew \/ Reactivate \/ End \/ Retry \/ Stopped \/ DutyTimeout
Environment ==
    \/ Signal \/ ChildExits \/ WindowPasses \/ ServiceMoves
    \/ \E c \in Requests : Serve(c) \/ Lose(c)

Next == MainStep \/ SignalStep \/ DutyStep \/ Environment

Spec == Init /\ [][Next]_vars

\* Goroutines run, timers expire and calls time out.  A pause that starts after
\* its channel was closed sees the channel first: Stopped is strongly fair.
Fairness ==
    /\ WF_vars(MainStep)
    /\ WF_vars(WatcherTakes \/ WatcherPutsBack \/ WatcherDone)
    /\ WF_vars(Forward) /\ WF_vars(ForwarderDone) /\ WF_vars(Fire)
    /\ WF_vars(DutyStep) /\ SF_vars(Stopped)

\* A gateway that answers unregister again and again gets through at last; of
\* the completion through the journal nothing is asked.
GatewayAnswers == SF_vars(~recovering /\ Answered("main")) /\ SF_vars(Answered("duty"))

FairSpec == Spec /\ Fairness /\ GatewayAnswers

(***************************************************************************)
(* Properties                                                              *)
(***************************************************************************)
\* "A signal before the child starts aborts the launch": none that arrived before
\* the last check is swallowed by a watcher that was looking at the time.
InterruptAborts == early => child = "none"

\* A verdict of success is true, and stays true whatever request arrives late.
EndedMeansEnded == verdict = "ended" => service = "ended"

\* "One after it reaches the child as soon as the child starts."
SignalsReachTheChild == child = "running" /\ queue > 0 ~> queue = 0 \/ child = "exited"

\* "Whatever its status, the launcher unregisters it": once the child has exited
\* the launch gets to its end, if the gateway answers at last.
LaunchReturns == child = "exited" ~> at = "over"

\* "A failed activation ends the token now, not at exit."
FailedActivationEnds == duty = "end" ~> service = "ended" \/ stopped

\* The completion "runs once with a 30-second budget": no gateway keeps the
\* launcher from ending.
CompletionIsBounded == recovering /\ at = "finish" ~> at = "over"

\* Nothing of a launch is left running: the launch comes to its end, and so does a token
\* that could not be activated (Lease.Finish, Lease.activate, the completion's budget).
LaunchEnds == LaunchReturns /\ FailedActivationEnds /\ CompletionIsBounded
===============================================================================
