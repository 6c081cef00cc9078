------------------------------- MODULE TaskRun -------------------------------
(***************************************************************************)
(* The life of one FilamentTaskRun (filament/types/task_run.py): call(),   *)
(* which a caller awaits, the task group it opens, _call and the context   *)
(* managers nested in it, the cancel monitor, and the row that the state   *)
(* events (filament/state/register.py) keep in the database, which an API  *)
(* call or the clean-up script may mark as cancelled.                      *)
(*                                                                         *)
(* An anyio cancellation is level-triggered: once a scope is cancelled,    *)
(* every await that is not shielded raises.  The state events run in       *)
(* shielded sessions, so a cancellation or a deadline waits for the next   *)
(* await after them.  Every event is a SELECT and, later, a COMMIT.        *)
(*                                                                         *)
(* Time is left out: a deadline, a lease and a sleep end at any moment.    *)
(* What the cache holds is up to the other runs and to its ttl.            *)
(***************************************************************************)
EXTENDS Naturals

CONSTANTS
  Configs,      \* the FilamentTaskConfigs considered, each with the stores that may fail
  Canceller     \* TRUE: the API or the clean-up script may cancel the row, once

Config == [timeout: BOOLEAN, semaphore: BOOLEAN, rate: BOOLEAN, delay: BOOLEAN,
           cache: {"off", "use", "refresh"}, monitor: BOOLEAN, retryable: BOOLEAN,
           tries: Nat \ {0}, faults: SUBSET {"db", "redis"}]

States == {"absent", "created", "running", "cancelled", "failure", "timeout", "success",
           "retrying", "cached"}
Terminal == {"cancelled", "failure", "success", "cached"}

ASSUME ConfigsAssumption == Configs \subseteq Config
ASSUME CancellerAssumption == Canceller \in BOOLEAN

VARIABLES
  config,
  host,       \* call(): "new", "init" in before_call, "group" in the task group, "joined"
              \* while it waits for _done_event after the group, "ended"
  answer,     \* what awaiting the run gives: "pending", "result" or an exception
  hostCancel, \* the task of call() was cancelled by whoever awaits it
  cancelEvent,\* _cancelled_event
  monitor,    \* _start_cancel_monitor: "off", "starting", "waiting" or "gone"
  scope,      \* TRUE: the task group's cancel scope is cancelled
  groupError, \* a background task of the group, or the after_call event, has failed
  pc,         \* _call; at "record" and "commit" it is in a state event
  writing,    \* the state that event records
  try,        \* _try_index
  raised,     \* what is being raised through the context managers
  expired,    \* the deadline of fail_after has passed
  lease,      \* this try's lease of the semaphore: "none", "held", "lapsed" or "leaked"
  got,        \* what the try is about to return
  result, exception, done,
  bodies,     \* ghost: how often the task's function has been called
  row,        \* the database row: its state and run_count
  seen,       \* the row as the event's transaction read it, NoRow if there is none
  api         \* the canceller: "idle", "read" or "done"

callVars == <<host, answer, hostCancel>>
groupVars == <<cancelEvent, monitor, scope, groupError>>
outcome == <<result, exception, done>>
runVars == <<pc, writing, try, raised, expired, lease, got, outcome, bodies>>
dbVars == <<row, seen, api>>
vars == <<config, callVars, groupVars, runVars, dbVars>>
\* What no step of _call touches while it has not finished.
others == <<config, callVars, groupVars, api>>

Exceptions == {"error", "timeout", "lost lease", "cancelled"}

LastTry == config.tries - 1
NoRow == [state |-> "none", runs |-> 0]

TypeOK ==
  /\ config \in Configs
  /\ host \in {"new", "init", "group", "joined", "ended"}
  /\ answer \in {"pending", "result", "group error"} \cup Exceptions
  /\ hostCancel \in BOOLEAN /\ cancelEvent \in BOOLEAN
  /\ monitor \in {"off", "starting", "waiting", "gone"}
  /\ scope \in BOOLEAN /\ groupError \in BOOLEAN
  /\ pc \in {"off", "acquire", "throttle", "lookup", "get", "hit", "body", "store", "release",
             "decide", "backoff", "record", "commit", "finish", "after", "over"}
  /\ writing \in States \cup {"none"}
  /\ try \in 0..LastTry /\ bodies \in Nat
  /\ raised \in Exceptions \cup {"none"}
  /\ expired \in BOOLEAN
  /\ lease \in {"none", "held", "lapsed", "leaked"}
  /\ got \in {"nothing", "value"} /\ result \in {"nothing", "value"}
  /\ exception \in Exceptions \cup {"none"}
  /\ done \in BOOLEAN
  /\ row \in [state: States, runs: Nat]
  /\ seen \in [state: States, runs: Nat] \cup {NoRow}
  /\ api \in {"idle", "read", "done"}

Init ==
  /\ config \in Configs
  /\ host = "new" /\ answer = "pending" /\ hostCancel = FALSE
  /\ cancelEvent = FALSE /\ monitor = "off" /\ scope = FALSE /\ groupError = FALSE
  /\ pc = "off" /\ writing = "none" /\ try = 0 /\ raised = "none" /\ expired = FALSE
  /\ lease = "none" /\ got = "nothing"
  /\ result = "nothing" /\ exception = "none" /\ done = FALSE /\ bodies = 0
  \* request() has created the row of a run that comes from the queue.
  /\ row \in {[state |-> s, runs |-> 0] : s \in {"absent", "created"}}
  /\ seen = NoRow /\ api = "idle"

-----------------------------------------------------------------------------
(* Where control goes next. *)

AfterThrottle == IF config.cache = "off" THEN "record" ELSE "lookup"
AfterAcquire == IF config.rate THEN "throttle" ELSE AfterThrottle
FirstAwait == IF config.semaphore THEN "acquire" ELSE AfterAcquire

\* A label of the nested context managers; "record" there records RUNNING.
Enter(label) == pc' = label /\ writing' = IF label = "record" THEN "running" ELSE "none"
Record(state) == pc' = "record" /\ writing' = state

\* Mutant: only a try that returns gives its lease back.
LeaveKeepingLease(exc) ==
  /\ Enter(IF config.semaphore /\ exc = "none" THEN "release" ELSE "decide")
  /\ raised' = exc
  /\ expired' = FALSE

\* Control leaves fail_after and the token bucket, raising `exc' if there is one.
Leave(exc) ==
  /\ Enter(IF config.semaphore THEN "release" ELSE "decide")
  /\ raised' = exc
  /\ expired' = FALSE

\* `fail_after' turns a CancelledError into a TimeoutError if its deadline has passed
\* and no scope around it is cancelled.
LeaveTimed(exc) ==
  IF exc = "timeout" \/ (exc = "cancelled" /\ expired /\ ~scope)
  THEN Record("timeout") /\ raised' = "timeout" /\ expired' = FALSE
  ELSE Leave(exc)

\* How an await of Redis can end other than well.
Breaks == (IF scope THEN {"cancelled"} ELSE {}) \cup (IF "redis" \in config.faults THEN {"error"} ELSE {})
Undisturbed == ~scope /\ ~expired

-----------------------------------------------------------------------------
(* call() *)

Start ==
  /\ host = "new"
  /\ host' = "init"
  /\ UNCHANGED <<config, answer, hostCancel, groupVars, runVars, dbVars>>

\* before_call: initialize_task_run_state creates the row unless request() has.
InitializedRow == IF row.state = "absent" THEN [row EXCEPT !.state = "created"] ELSE row

InitializeState ==
  /\ host = "init"
  /\ host' = "group"
  /\ row' = InitializedRow
  /\ monitor' = IF config.monitor THEN "starting" ELSE "gone"
  /\ Enter(FirstAwait)
  /\ UNCHANGED <<config, answer, hostCancel, cancelEvent, scope, groupError, try, raised, expired,
                 lease, got, outcome, bodies, seen, api>>

\* before_call is cancelled or fails, before or after it creates the row.
InitializeBreaks ==
  /\ host = "init"
  /\ host' = "ended"
  /\ \/ hostCancel' = TRUE /\ answer' = "cancelled"
     \/ config.faults # {} /\ answer' = "error" /\ UNCHANGED hostCancel
  /\ row' \in {row, InitializedRow}
  /\ UNCHANGED <<config, groupVars, runVars, seen, api>>

\* Whoever awaits the run is cancelled, and with it the task of call().
CancelHost ==
  /\ host \in {"group", "joined"} /\ ~hostCancel
  /\ hostCancel' = TRUE
  /\ scope' = TRUE
  /\ UNCHANGED <<config, host, answer, cancelEvent, monitor, groupError, runVars, dbVars>>

\* The group ends with its last task, and the heartbeat and the poll loop until they
\* are cancelled; a group swallows the cancellation of its own
\* scope, but not that of the task around it.
JoinGroup ==
  /\ host = "group" /\ pc = "over" /\ scope
  /\ IF groupError THEN host' = "ended" /\ answer' = "group error"
     ELSE IF hostCancel THEN host' = "ended" /\ answer' = "cancelled"
     ELSE host' = "joined" /\ UNCHANGED answer
  /\ UNCHANGED <<config, hostCancel, groupVars, runVars, dbVars>>

\* call() awaits _done_event, which a cancellation interrupts like any await, and result().
AwaitDone ==
  /\ host = "joined" /\ (done \/ hostCancel)
  /\ host' = "ended"
  /\ answer' = IF hostCancel THEN "cancelled"
               ELSE IF exception # "none" THEN exception ELSE "result"
  /\ UNCHANGED <<config, hostCancel, groupVars, runVars, dbVars>>

-----------------------------------------------------------------------------
(* Cancellation: cancel(), the monitor, and the poll of the row's state.   *)

CancelRun ==
  /\ ~cancelEvent /\ host # "ended"
  /\ cancelEvent' = TRUE
  /\ UNCHANGED <<config, callVars, monitor, scope, groupError, runVars, dbVars>>

StartMonitor ==
  /\ monitor = "starting"
  /\ monitor' = IF done \/ cancelEvent THEN "gone" ELSE "waiting"
  /\ UNCHANGED <<config, callVars, cancelEvent, scope, groupError, runVars, dbVars>>

MonitorCancels ==
  /\ monitor = "waiting" /\ cancelEvent /\ host = "group"
  /\ monitor' = "gone"
  /\ scope' = TRUE
  /\ UNCHANGED <<config, callVars, cancelEvent, groupError, runVars, dbVars>>

\* listen_for_task_cancelled reads the row every ten seconds.
PollCancels ==
  /\ host = "group" /\ ~scope
  /\ row.state = "cancelled"
  /\ scope' = TRUE
  /\ UNCHANGED <<config, callVars, cancelEvent, monitor, groupError, runVars, dbVars>>

\* The heartbeat or the poll fails, and the group cancels its other tasks.
BackgroundFails ==
  /\ host = "group" /\ ~groupError /\ "db" \in config.faults
  /\ groupError' = TRUE
  /\ scope' = TRUE
  /\ UNCHANGED <<config, callVars, cancelEvent, monitor, runVars, dbVars>>

\* cancel_task_run() of the API or of the clean-up script reads the row ...
ApiRead ==
  /\ Canceller /\ api = "idle" /\ row.state # "absent"
  /\ api' = IF row.state \in Terminal THEN "done" ELSE "read"
  /\ UNCHANGED <<config, callVars, groupVars, runVars, row, seen>>

\* ... and later commits, whatever has become of it.
ApiCommit ==
  /\ api = "read"
  /\ row' = [row EXCEPT !.state = "cancelled"]
  /\ api' = "done"
  /\ UNCHANGED <<config, callVars, groupVars, runVars, seen>>

-----------------------------------------------------------------------------
(* _call(), from the outside in: the semaphore, the token bucket, the      *)
(* deadline and, inside it, the cache and the task's function.             *)

Acquire ==
  /\ pc = "acquire" /\ ~scope
  /\ lease' = "held"
  /\ Enter(AfterAcquire)
  /\ UNCHANGED <<others, try, raised, expired, got, outcome, bodies, row, seen>>

\* The script that grants the lease may run although nobody reads its answer.
AcquireBreaks ==
  /\ pc = "acquire"
  /\ raised' \in Breaks
  /\ lease' \in {"none", "leaked"}
  /\ Enter("decide")
  /\ UNCHANGED <<others, try, expired, got, outcome, bodies, row, seen>>

\* The ttl runs out and another client's clean-up drops the lease.
LeaseLapses ==
  /\ lease = "held"
  /\ lease' = "lapsed"
  /\ UNCHANGED <<others, pc, writing, try, raised, expired, got, outcome, bodies, row, seen>>

Throttle ==
  /\ pc = "throttle" /\ ~scope
  /\ Enter(AfterThrottle)
  /\ UNCHANGED <<others, try, raised, expired, lease, got, outcome, bodies, row, seen>>

ThrottleBreaks ==
  /\ pc = "throttle"
  /\ \E exc \in Breaks : Leave(exc)
  /\ UNCHANGED <<others, try, lease, got, outcome, bodies, row, seen>>

\* The deadline covers the cache, the function and the events between them.
Timed == \/ pc \in {"lookup", "get", "hit", "body", "store"}
         \/ pc \in {"record", "commit"} /\ writing \in {"running", "success", "cached"}

Expire ==
  /\ config.timeout /\ ~expired /\ Timed
  /\ expired' = TRUE
  /\ UNCHANGED <<others, pc, writing, try, raised, lease, got, outcome, bodies, row, seen>>

\* The first await after the deadline or a cancellation, unless it is shielded.
Interrupt ==
  /\ pc \in {"lookup", "get", "hit", "body", "store"} /\ ~Undisturbed
  /\ LeaveTimed("cancelled")
  /\ UNCHANGED <<others, try, lease, got, outcome, bodies, row, seen>>

CacheFails ==
  /\ pc \in {"lookup", "get", "store"} /\ "redis" \in config.faults
  /\ LeaveTimed("error")
  /\ UNCHANGED <<others, try, lease, got, outcome, bodies, row, seen>>

CacheHasKey ==
  /\ pc = "lookup" /\ Undisturbed
  /\ \/ config.cache = "use" /\ Enter("get")
     \/ Record("running")
  /\ UNCHANGED <<others, try, raised, expired, lease, got, outcome, bodies, row, seen>>

\* The value may have expired since cache_has_key saw it: cache_get then gives None.
CacheGet ==
  /\ pc = "get" /\ Undisturbed
  /\ got' \in {"value", "nothing"}
  /\ Enter("hit")
  /\ UNCHANGED <<others, try, raised, expired, lease, outcome, bodies, row, seen>>

CacheHit ==
  /\ pc = "hit" /\ Undisturbed
  /\ Record("cached")
  /\ UNCHANGED <<others, try, raised, expired, lease, got, outcome, bodies, row, seen>>

CacheSet ==
  /\ pc = "store" /\ Undisturbed
  /\ Leave("none")
  /\ UNCHANGED <<others, try, lease, got, outcome, bodies, row, seen>>

\* The function may finish, or never; it may ignore a cancellation, and it may raise
\* the CancelledError of a run it awaits or a TimeoutError of its own.
BodyReturns ==
  /\ pc = "body"
  /\ got' = "value"
  /\ Record("success")
  /\ UNCHANGED <<others, try, raised, expired, lease, outcome, bodies, row, seen>>

BodyRaises ==
  /\ pc = "body"
  /\ \E exc \in {"error", "timeout", "cancelled"} : LeaveTimed(exc)
  /\ UNCHANGED <<others, try, lease, got, outcome, bodies, row, seen>>

Release ==
  /\ pc = "release" /\ ~scope
  /\ raised' = IF lease = "lapsed" THEN "lost lease" ELSE raised
  /\ lease' = "none"
  /\ Enter("decide")
  /\ UNCHANGED <<others, try, expired, got, outcome, bodies, row, seen>>

ReleaseBreaks ==
  /\ pc = "release"
  /\ raised' \in Breaks
  /\ lease' \in {"none", IF lease = "held" THEN "leaked" ELSE "none"}
  /\ Enter("decide")
  /\ UNCHANGED <<others, try, expired, got, outcome, bodies, row, seen>>

-----------------------------------------------------------------------------
(* _retry, and the handlers that record how the run ends.                  *)

NextTry == try' = try + 1 /\ raised' = "none" /\ lease' = "none" /\ Enter(FirstAwait)

\* Mutant: one retry too many.
RetriesOffByOne == config.retryable /\ try < config.tries

Retries == config.retryable /\ try < LastTry

TryReturns ==
  /\ pc = "decide" /\ raised = "none"
  /\ result' = got
  /\ Enter("finish")
  /\ UNCHANGED <<others, try, raised, expired, lease, got, exception, done, bodies, row, seen>>

TryRaises ==
  /\ pc = "decide" /\ raised # "none"
  /\ Record(IF raised = "cancelled" THEN "cancelled"
            ELSE IF Retries THEN "retrying" ELSE "failure")
  /\ UNCHANGED <<others, try, raised, expired, lease, got, outcome, bodies, row, seen>>

Backoff ==
  /\ pc = "backoff" /\ ~scope
  /\ NextTry
  /\ UNCHANGED <<others, expired, got, outcome, bodies, row, seen>>

BackoffCancelled ==
  /\ pc = "backoff" /\ scope
  /\ Record("cancelled") /\ raised' = "cancelled"
  /\ UNCHANGED <<others, try, expired, lease, got, outcome, bodies, row, seen>>

\* Mutant: closing the stream is an await like any other, as it is in trio; in a cancelled
\* scope it raises, and the rest of the finally clause is skipped.
FinishUnlessCancelled ==
  /\ pc = "finish"
  /\ done' = ~scope
  /\ Enter(IF scope THEN "over" ELSE "after")
  /\ UNCHANGED <<others, try, raised, expired, lease, got, result, exception, bodies, row, seen>>

\* The finally clause: the result stream, _done_event, the after_call event, and the group's
\* cancellation.  aclose() of anyio's memory stream is its close(): nothing in it waits, so
\* no cancellation is delivered before _done_event is set.
Finish ==
  /\ pc = "finish"
  /\ done' = TRUE
  /\ Enter("after")
  /\ UNCHANGED <<others, try, raised, expired, lease, got, result, exception, bodies, row, seen>>

AfterCall ==
  /\ pc = "after"
  /\ scope' = TRUE
  /\ \/ UNCHANGED groupError
     \/ "db" \in config.faults /\ groupError' = TRUE
  /\ Enter("over")
  /\ UNCHANGED <<config, callVars, cancelEvent, monitor, api, try, raised, expired, lease, got,
                 outcome, bodies, row, seen>>

-----------------------------------------------------------------------------
(* The state_transition event: transition_state() and what follows it.     *)

ReadRow ==
  /\ pc = "record"
  /\ seen' = row
  /\ pc' = "commit"
  /\ UNCHANGED <<others, writing, try, raised, expired, lease, got, outcome, bodies, row>>

\* Mutants: a terminal state is not left; run_count counts the first attempt only.
TransitionedUnlessTerminal ==
  IF seen.state = writing \/ seen.state \in Terminal THEN row
  ELSE [state |-> writing, runs |-> IF writing = "running" THEN seen.runs + 1 ELSE row.runs]
TransitionedCountingOnce ==
  IF seen.state = writing THEN row
  ELSE [state |-> writing,
        runs |-> IF writing = "running" /\ seen.runs = 0 THEN 1 ELSE row.runs]

\* _transition_state() on the row as it was read, and the commit of the columns it has set.
Transitioned ==
  IF seen.state = writing THEN row
  ELSE [state |-> writing, runs |-> IF writing = "running" THEN seen.runs + 1 ELSE row.runs]

Recorded(states) ==
  /\ pc = "commit" /\ writing \in states
  /\ row' = Transitioned
  /\ seen' = NoRow

RecordedRunning ==
  /\ Recorded({"running"})
  /\ Enter("body")
  /\ bodies' = bodies + 1
  /\ UNCHANGED <<others, try, raised, expired, lease, got, outcome>>

\* Mutant: a deadline that passes while SUCCESS is committed still counts.
RecordedValueUnlessLate ==
  /\ Recorded({"success", "cached"})
  /\ IF expired THEN LeaveTimed("timeout")
     ELSE IF writing = "success" /\ config.cache # "off"
     THEN Enter("store") /\ UNCHANGED <<raised, expired>>
     ELSE Leave("none")
  /\ UNCHANGED <<others, try, lease, got, outcome, bodies>>

\* Nothing awaits after SUCCESS but cache_set, nor after CACHED: a deadline that
\* has passed by then is not noticed.
RecordedValue ==
  /\ Recorded({"success", "cached"})
  /\ IF writing = "success" /\ config.cache # "off"
     THEN Enter("store") /\ UNCHANGED <<raised, expired>>
     ELSE Leave("none")
  /\ UNCHANGED <<others, try, lease, got, outcome, bodies>>

RecordedTimeout ==
  /\ Recorded({"timeout"})
  /\ Leave("timeout")
  /\ UNCHANGED <<others, try, lease, got, outcome, bodies>>

RecordedRetrying ==
  /\ Recorded({"retrying"})
  /\ IF config.delay THEN Enter("backoff") /\ UNCHANGED <<try, raised, lease>> ELSE NextTry
  /\ UNCHANGED <<others, expired, got, outcome, bodies>>

RecordedEnd ==
  /\ Recorded({"cancelled", "failure"})
  /\ exception' = raised
  /\ Enter("finish")
  /\ UNCHANGED <<others, try, raised, expired, lease, got, result, done, bodies>>

\* An event that fails raises in place of what it was to record; its commit may
\* have happened.
RecordFails ==
  /\ pc \in {"record", "commit"} /\ "db" \in config.faults
  /\ row' \in {row, IF pc = "commit" THEN Transitioned ELSE row}
  /\ seen' = NoRow
  /\ \/ /\ writing \in {"running", "success", "cached", "timeout"}
        /\ Leave("error")
        /\ UNCHANGED exception
     \/ /\ writing \in {"retrying", "cancelled"}
        /\ Record("failure") /\ raised' = "error"
        /\ UNCHANGED <<expired, exception>>
     \/ /\ writing = "failure"
        /\ exception' = "error"
        /\ Enter("finish")
        /\ UNCHANGED <<raised, expired>>
  /\ UNCHANGED <<others, try, lease, got, result, done, bodies>>

-----------------------------------------------------------------------------
\* The steps that follow once an await ends; a function may never end by itself.
Progress ==
  \/ Acquire \/ AcquireBreaks \/ Throttle \/ ThrottleBreaks \/ Interrupt
  \/ CacheFails \/ CacheHasKey \/ CacheGet \/ CacheHit \/ CacheSet
  \/ Release \/ ReleaseBreaks \/ TryReturns \/ TryRaises \/ Backoff \/ BackoffCancelled
  \/ Finish \/ AfterCall
  \/ ReadRow \/ RecordedRunning \/ RecordedValue \/ RecordedTimeout \/ RecordedRetrying
  \/ RecordedEnd \/ RecordFails

Call == InitializeState \/ InitializeBreaks \/ JoinGroup \/ AwaitDone
Monitors == StartMonitor \/ MonitorCancels \/ PollCancels

Next ==
  \/ Start \/ Call \/ CancelHost \/ CancelRun \/ Monitors \/ BackgroundFails \/ ApiRead \/ ApiCommit
  \/ Progress \/ LeaseLapses \/ Expire \/ BodyReturns \/ BodyRaises

Spec == Init /\ [][Next]_vars

Fairness ==
  /\ WF_vars(Progress) /\ WF_vars(Expire) /\ WF_vars(Call)
  /\ WF_vars(StartMonitor) /\ WF_vars(MonitorCancels) /\ WF_vars(PollCancels)

FairSpec == Spec /\ Fairness

-----------------------------------------------------------------------------
(* Properties. *)

\* What the row should say of a run that gives `exception' (or none).
OutcomeStates ==
  IF exception = "none" THEN {"success", "cached"}
  ELSE IF exception = "cancelled" THEN {"cancelled"} ELSE {"failure"}

\* While the database works, a finished run and its row agree, however cancellations,
\* deadlines, lost leases and failures of Redis have cut across its state events;
\* only a canceller that read the row before its last event can have overwritten it.
OutcomeRecorded ==
  done /\ "db" \notin config.faults => row.state \in OutcomeStates \/ (api = "done" /\ row.state = "cancelled")

\* A run holds a lease while its function runs, though it may outlive its ttl; it holds
\* none once the try is over, and leaks one only if it is cancelled or Redis fails.
LeaseScoped ==
  /\ pc = "body" /\ config.semaphore => lease \in {"held", "lapsed"}
  /\ pc \in {"decide", "backoff", "finish", "after", "over"} => lease \in {"none", "leaked"}
  /\ lease = "leaked" => scope \/ "redis" \in config.faults

\* run_count never misses a call of the function, and while the database works and
\* only one worker runs the task it is exact.
RunsCounted ==
  /\ bodies <= row.runs
  /\ "db" \notin config.faults => row.runs = bodies

\* SUCCESS is the last word on a run that has neither a cache nor a semaphore to serve
\* after it: no deadline and no cancellation unmakes it.
SuccessKept ==
  [][row.state = "success" /\ row.state' # "success" =>
       \/ config.semaphore \/ config.cache # "off" \/ "db" \in config.faults
       \/ api # api']_vars

\* A run that has a deadline, or that is told to stop while it can hear it, ends, even if
\* its function would not end by itself and whatever store fails: no way of _call into its
\* end leaves the group open, or call() waiting for a _done_event that nobody sets.
Terminates ==
  (host = "group" /\ (config.timeout \/ scope \/ (cancelEvent /\ monitor = "waiting")))
    ~> host = "ended"

\* The comment in _retry: `do not attempt to retry if cancelled'.
NoRetryOnceCancelled == [][scope => try' = try]_vars

\* cancel(): README.md, `task cancellation and graceful worker shutdown'.
CancelHonoured == (cancelEvent /\ config.monitor /\ host = "group") ~> host = "ended"

\* README.md, `API-triggered task cancellations'.
ApiCancelHonoured == (row.state = "cancelled" /\ host = "group") ~> host = "ended"
=============================================================================
