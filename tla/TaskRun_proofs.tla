--------------------------- MODULE TaskRun_proofs ---------------------------
(* Proofs about TaskRun. *)
EXTENDS TaskRun, TLAPS

-----------------------------------------------------------------------------
(* The parts of the invariant. *)

\* The labels at which a try may still call the function or look into the cache.
Ahead == {"acquire", "throttle", "lookup", "get", "hit", "body", "store"}
Ending == {"finish", "after", "over"}

\* What is being recorded and what is being raised belong together; a try is repeated only
\* while there are tries left; _call has not begun before the group is open.
Control ==
  /\ pc \in {"record", "commit"} <=> writing # "none"
  /\ writing \in {"none", "running", "success", "cached", "timeout", "retrying", "cancelled",
                  "failure"}
  /\ host \in {"new", "init"} => pc = "off"
  /\ pc = "off" \/ pc \in Ahead \/ writing \in {"running", "success", "cached"} => raised = "none"
  /\ writing = "timeout" => raised = "timeout"
  /\ writing = "cancelled" => raised = "cancelled"
  /\ writing \in {"failure", "retrying"} \/ pc = "backoff" => raised \notin {"none", "cancelled"}
  /\ writing = "retrying" \/ pc = "backoff" => Retries
  /\ pc \notin Ending => exception = "none" /\ ~done

\* The lease at every place of a try, not only in the function.
Leases ==
  /\ pc \in {"acquire", "release"} => config.semaphore
  /\ pc \in {"off", "acquire"} \/ ~config.semaphore => lease = "none"
  /\ config.semaphore /\ (\/ pc \in {"throttle", "lookup", "get", "hit", "body", "store", "release"}
                          \/ writing \in {"running", "success", "cached", "timeout"})
       => lease \in {"held", "lapsed"}
  /\ pc \in {"decide", "backoff"} \cup Ending \/ writing \in {"retrying", "cancelled", "failure"}
       => lease \in {"none", "leaked"}
  /\ lease = "leaked" => scope \/ "redis" \in config.faults

\* The row is not RUNNING when RUNNING is to be recorded, so that each recording counts, and
\* counts on from what the row still says.
Counted ==
  /\ pc \in {"off", "acquire", "throttle", "lookup", "backoff"} \/ writing = "running"
       => row.state # "running"
  /\ pc = "commit" => seen.runs = row.runs
  /\ pc = "commit" /\ writing = "running" => seen.state # "running"
  /\ bodies <= row.runs
  /\ "db" \notin config.faults => row.runs = bodies

\* A canceller that had read the row earlier has had the last word.
Overwritten == api = "done" /\ row.state = "cancelled"

\* What the row says, as soon as the run's outcome is decided; a transaction's reading is
\* the row's state, but for a canceller.
Outcome ==
  /\ pc = "commit" => row.state = seen.state \/ Overwritten
  /\ "db" \notin config.faults =>
       /\ pc = "store" \/ (pc \in {"release", "decide"} /\ raised = "none")
            => row.state \in {"success", "cached"} \/ Overwritten
       /\ pc \in Ending => row.state \in OutcomeStates \/ Overwritten

\* Without cache, semaphore and failures nothing is left to go wrong after SUCCESS.
Final ==
  ~config.semaphore /\ config.cache = "off" /\ "db" \notin config.faults /\ row.state = "success"
    => pc \in Ending \/ (pc = "decide" /\ raised = "none")

Inv == TypeOK /\ Control /\ Leases /\ Counted /\ Outcome /\ Final

-----------------------------------------------------------------------------
(* Each part is kept by every step; the types variable by variable, the    *)
(* others action by action.                                                *)

\* A run keeps its configuration.
LEMMA ConfigKept == [Next]_vars => config' = config /\ LastTry' = LastTry
<1>1. ASSUME [Next]_vars PROVE config' = config
  BY <1>1 DEF Next, Call, Monitors, Progress, vars, others, Start, InitializeState,
     InitializeBreaks, JoinGroup, AwaitDone, CancelHost, CancelRun, StartMonitor, MonitorCancels,
     PollCancels, BackgroundFails, ApiRead, ApiCommit, Acquire, AcquireBreaks, LeaseLapses,
     Throttle, ThrottleBreaks, Expire, Interrupt, CacheFails, CacheHasKey, CacheGet, CacheHit,
     CacheSet, BodyReturns, BodyRaises, Release, ReleaseBreaks, TryReturns, TryRaises, Backoff,
     BackoffCancelled, Finish, AfterCall, ReadRow, RecordedRunning, RecordedValue,
     RecordedTimeout, RecordedRetrying, RecordedEnd, RecordFails
<1> QED
  BY <1>1 DEF LastTry

\* The row is only written by before_call, a canceller and the commit of a state event.
LEMMA RowSteps ==
  [Next]_vars =>
    \/ row' = row
    \/ host = "init" /\ row' = InitializedRow
    \/ api' # api /\ row' = [row EXCEPT !.state = "cancelled"]
    \/ pc = "commit" /\ row' = Transitioned
  BY DEF Next, Call, Monitors, Progress, vars, callVars, groupVars, outcome, runVars, dbVars,
     others, Recorded, Start, InitializeState, InitializeBreaks, JoinGroup, AwaitDone, CancelHost,
     CancelRun, StartMonitor, MonitorCancels, PollCancels, BackgroundFails, ApiRead, ApiCommit,
     Acquire, AcquireBreaks, LeaseLapses, Throttle, ThrottleBreaks, Expire, Interrupt,
     CacheFails, CacheHasKey, CacheGet, CacheHit, CacheSet, BodyReturns, BodyRaises, Release,
     ReleaseBreaks, TryReturns, TryRaises, Backoff, BackoffCancelled, Finish, AfterCall,
     ReadRow, RecordedRunning, RecordedValue, RecordedTimeout, RecordedRetrying, RecordedEnd,
     RecordFails

\* try stays in range because a try is repeated only while Retries; what is recorded is a state.
LEMMA TypeNext ==
  ASSUME ConfigsAssumption, TypeOK, Control, [Next]_vars
  PROVE  TypeOK'
<1>0. config' = config /\ LastTry' = LastTry
  BY ConfigKept
<1>1. LastTry \in Nat
  <2>1. config.tries \in Nat \ {0}
    BY ConfigsAssumption DEF Config, TypeOK
  <2> QED
    BY <2>1 DEF LastTry
<1>2. /\ row \in [state : States, runs : Nat] /\ bodies \in Nat
      /\ try \in 0..LastTry
  BY DEF TypeOK
<1>3. ASSUME try' = try \/ (Retries /\ try' = try + 1) PROVE try' \in 0..LastTry
  BY <1>1, <1>3, <1>2 DEF Retries
<1>4. ASSUME bodies' = bodies \/ bodies' = bodies + 1 PROVE bodies' \in Nat
  BY <1>4, <1>2
<1>5. row' \in [state : States, runs : Nat]
  <2>1. pc = "commit" => writing \in States
    BY DEF Control, States
  <2>2. seen.runs \in Nat
    <3>1. CASE seen = NoRow
      BY <3>1 DEF NoRow
    <3>2. CASE seen \in [state : States, runs : Nat]
      BY <3>2
    <3> QED
      BY <3>1, <3>2 DEF TypeOK
  <2> QED
    BY RowSteps, <1>2, <2>1, <2>2 DEF States, InitializedRow, Transitioned
<1> USE DEF Next, Call, Monitors, Progress, vars, callVars, groupVars, outcome, runVars, dbVars,
   others, Start, InitializeState, InitializedRow, Enter, FirstAwait, AfterAcquire,
   AfterThrottle, InitializeBreaks, JoinGroup, AwaitDone, CancelHost, CancelRun, StartMonitor,
   MonitorCancels, PollCancels, BackgroundFails, ApiRead, ApiCommit, Acquire, AcquireBreaks,
   Breaks, LeaseLapses, Throttle, ThrottleBreaks, Leave, Expire, Interrupt, LeaveTimed, Record,
   Undisturbed, CacheFails, CacheHasKey, CacheGet, CacheHit, CacheSet, BodyReturns, BodyRaises,
   Release, ReleaseBreaks, TryReturns, TryRaises, Retries, Backoff, NextTry, BackoffCancelled,
   Finish, AfterCall, ReadRow, RecordedRunning, Recorded, Transitioned, RecordedValue,
   RecordedTimeout, RecordedRetrying, RecordedEnd, RecordFails
<1>6. host' \in {"new", "init", "group", "joined", "ended"}
  BY DEF TypeOK
<1>7. answer' \in {"pending", "result", "group error"} \cup Exceptions
  <2>1. \/ answer' \in {answer, "result", "group error", "cancelled", "error"}
        \/ exception # "none" /\ answer' = exception
    OBVIOUS
  <2> QED
    BY <2>1 DEF TypeOK, Exceptions
<1>8. hostCancel' \in BOOLEAN /\ cancelEvent' \in BOOLEAN
  BY DEF TypeOK
<1>9. monitor' \in {"off", "starting", "waiting", "gone"}
  BY DEF TypeOK
<1>10. scope' \in BOOLEAN /\ groupError' \in BOOLEAN
  BY DEF TypeOK
<1>11. pc' \in {"off", "acquire", "throttle", "lookup", "get", "hit", "body", "store", "release",
               "decide", "backoff", "record", "commit", "finish", "after", "over"}
  BY DEF TypeOK
<1>12. writing' \in States \cup {"none"}
  BY DEF TypeOK, States
<1>13. try' \in 0..LastTry
  BY <1>3 DEF Control
<1>14. bodies' \in Nat
  BY <1>4
<1>15. raised' \in Exceptions \cup {"none"}
  BY DEF TypeOK, Exceptions
<1>16. expired' \in BOOLEAN
  BY DEF TypeOK
<1>17. lease' \in {"none", "held", "lapsed", "leaked"}
  BY DEF TypeOK
<1>18. got' \in {"nothing", "value"} /\ result' \in {"nothing", "value"}
  BY DEF TypeOK
<1>19. exception' \in Exceptions \cup {"none"}
  BY DEF TypeOK, Exceptions
<1>20. done' \in BOOLEAN
  BY DEF TypeOK
<1>21. seen' \in [state : States, runs : Nat] \cup {NoRow}
  BY <1>2 DEF TypeOK
<1>22. api' \in {"idle", "read", "done"}
  BY DEF TypeOK
<1> QED
  BY <1>0, <1>5, <1>6, <1>7, <1>8, <1>9, <1>10, <1>11, <1>12, <1>13, <1>14, <1>15, <1>16, <1>17,
     <1>18, <1>19, <1>20, <1>21, <1>22 DEF TypeOK

\* Control, handler by handler.
LEMMA ControlNext ==
  ASSUME Control, [Next]_vars
  PROVE  Control'
<1> USE DEF Control, Retries, Ahead, Ending, callVars, groupVars, outcome, runVars, dbVars,
   others
<1>0. config' = config /\ LastTry' = LastTry
  BY ConfigKept
<1>1. CASE Start
  BY <1>0, <1>1 DEF Start
<1>2. CASE JoinGroup \/ AwaitDone
  <2>1. host' \in {"joined", "ended"} /\ UNCHANGED <<config, pc, writing, raised, try, exception, done>>
    BY <1>2 DEF JoinGroup, AwaitDone
  <2> QED
    BY <1>0, <2>1
<1>3. CASE InitializeBreaks
  BY <1>0, <1>3 DEF InitializeBreaks, InitializedRow
<1>4. CASE InitializeState
  BY <1>0, <1>4 DEF InitializeState, InitializedRow, Enter, FirstAwait, AfterAcquire,
     AfterThrottle
<1>5. CASE \/ CancelHost \/ CancelRun \/ StartMonitor \/ MonitorCancels
           \/ PollCancels \/ BackgroundFails
  BY <1>0, <1>5 DEF CancelHost, CancelRun, StartMonitor, MonitorCancels, PollCancels,
     BackgroundFails
<1>6. CASE ApiRead \/ ApiCommit
  BY <1>0, <1>6 DEF ApiRead, ApiCommit
<1>7. CASE Acquire \/ AcquireBreaks
  BY <1>0, <1>7 DEF Acquire, Enter, AfterAcquire, AfterThrottle, AcquireBreaks, Breaks
<1>8. CASE Throttle \/ ThrottleBreaks
  BY <1>0, <1>8 DEF Throttle, Enter, AfterThrottle, ThrottleBreaks, Leave, Breaks
<1>9. CASE LeaseLapses \/ Expire
  BY <1>0, <1>9 DEF LeaseLapses, Expire
<1>10. CASE CacheHasKey \/ CacheGet \/ CacheHit \/ CacheSet \/ BodyReturns
  BY <1>0, <1>10 DEF CacheHasKey, Enter, Record, Undisturbed, CacheGet, CacheHit, CacheSet,
     Leave, BodyReturns
<1>11. CASE Interrupt \/ CacheFails \/ BodyRaises
  BY <1>0, <1>11 DEF Interrupt, LeaveTimed, Leave, Record, Enter, Undisturbed, CacheFails,
     BodyRaises
<1>12. CASE Release
  BY <1>0, <1>12 DEF Release, Enter
<1>13. CASE ReleaseBreaks
  BY <1>0, <1>13 DEF ReleaseBreaks, Enter, Breaks
<1>14. CASE TryReturns \/ TryRaises
  BY <1>0, <1>14 DEF TryReturns, Enter, TryRaises, Record, Retries
<1>15. CASE Backoff \/ BackoffCancelled
  BY <1>0, <1>15 DEF Backoff, NextTry, Enter, FirstAwait, AfterAcquire, AfterThrottle,
     BackoffCancelled, Record
<1>16. CASE Finish \/ AfterCall
  BY <1>0, <1>16 DEF Finish, Enter, AfterCall
<1>17. CASE ReadRow
  BY <1>0, <1>17 DEF ReadRow
<1>18. CASE RecordedRunning
  BY <1>0, <1>18 DEF RecordedRunning, Recorded, Transitioned, Enter
<1>19. CASE RecordedValue
  BY <1>0, <1>19 DEF RecordedValue, Recorded, Transitioned, Leave, Enter
<1>20. CASE RecordedTimeout
  BY <1>0, <1>20 DEF RecordedTimeout, Recorded, Transitioned, Leave, Enter
<1>21. CASE RecordedRetrying
  BY <1>0, <1>21 DEF RecordedRetrying, Recorded, Transitioned, NextTry, Enter, FirstAwait,
     AfterAcquire, AfterThrottle
<1>22. CASE RecordedEnd
  BY <1>0, <1>22 DEF RecordedEnd, Recorded, Transitioned, Enter
<1>23. CASE RecordFails
  BY <1>0, <1>23 DEF RecordFails, Transitioned, Leave, Record, Enter
<1>24. CASE UNCHANGED vars
  BY <1>0, <1>24 DEF vars
<1> QED
  BY <1>1, <1>2, <1>3, <1>4, <1>5, <1>6, <1>7, <1>8, <1>9, <1>10, <1>11, <1>12, <1>13, <1>14,
     <1>15, <1>16, <1>17, <1>18, <1>19, <1>20, <1>21, <1>22, <1>23, <1>24 DEF Next, Call,
     Monitors, Progress

\* Only Acquire gives a lease and only leaving the semaphore ends it; an await of Redis that
\* breaks leaks one.
LEMMA LeasesNext ==
  ASSUME Control, Leases, [Next]_vars
  PROVE  Leases'
<1> USE DEF Leases, Ending, Control, callVars, groupVars, outcome, runVars, dbVars, others
<1>1. CASE Start
  BY <1>1 DEF Start
<1>2. CASE JoinGroup \/ AwaitDone
  BY <1>2 DEF JoinGroup, AwaitDone
<1>3. CASE InitializeBreaks
  BY <1>3 DEF InitializeBreaks, InitializedRow
<1>4. CASE InitializeState
  BY <1>4 DEF InitializeState, InitializedRow, Enter, FirstAwait, AfterAcquire, AfterThrottle
<1>5. CASE \/ CancelHost \/ CancelRun \/ StartMonitor \/ MonitorCancels
           \/ PollCancels \/ BackgroundFails
  BY <1>5 DEF CancelHost, CancelRun, StartMonitor, MonitorCancels, PollCancels, BackgroundFails
<1>6. CASE ApiRead \/ ApiCommit
  BY <1>6 DEF ApiRead, ApiCommit
<1>7. CASE Acquire \/ AcquireBreaks
  BY <1>7 DEF Acquire, Enter, AfterAcquire, AfterThrottle, AcquireBreaks, Breaks
<1>8. CASE Throttle \/ ThrottleBreaks
  BY <1>8 DEF Throttle, Enter, AfterThrottle, ThrottleBreaks, Leave, Breaks
<1>9. CASE LeaseLapses \/ Expire
  BY <1>9 DEF LeaseLapses, Expire
<1>10. CASE CacheHasKey \/ CacheGet \/ CacheHit \/ CacheSet \/ BodyReturns
  BY <1>10 DEF CacheHasKey, Enter, Record, Undisturbed, CacheGet, CacheHit, CacheSet, Leave,
     BodyReturns
<1>11. CASE Interrupt \/ CacheFails \/ BodyRaises
  BY <1>11 DEF Interrupt, LeaveTimed, Leave, Record, Enter, Undisturbed, CacheFails, BodyRaises
<1>12. CASE Release
  BY <1>12 DEF Release, Enter
<1>13. CASE ReleaseBreaks
  BY <1>13 DEF ReleaseBreaks, Enter, Breaks
<1>14. CASE TryReturns \/ TryRaises
  BY <1>14 DEF TryReturns, Enter, TryRaises, Record, Retries
<1>15. CASE Backoff \/ BackoffCancelled
  BY <1>15 DEF Backoff, NextTry, Enter, FirstAwait, AfterAcquire, AfterThrottle,
     BackoffCancelled, Record
<1>16. CASE Finish \/ AfterCall
  BY <1>16 DEF Finish, Enter, AfterCall
<1>17. CASE ReadRow
  BY <1>17 DEF ReadRow
<1>18. CASE RecordedRunning
  BY <1>18 DEF RecordedRunning, Recorded, Transitioned, Enter
<1>19. CASE RecordedValue
  BY <1>19 DEF RecordedValue, Recorded, Transitioned, Leave, Enter
<1>20. CASE RecordedTimeout
  BY <1>20 DEF RecordedTimeout, Recorded, Transitioned, Leave, Enter
<1>21. CASE RecordedRetrying
  BY <1>21 DEF RecordedRetrying, Recorded, Transitioned, NextTry, Enter, FirstAwait,
     AfterAcquire, AfterThrottle
<1>22. CASE RecordedEnd
  BY <1>22 DEF RecordedEnd, Recorded, Transitioned, Enter
<1>23. CASE RecordFails
  BY <1>23 DEF RecordFails, Transitioned, Leave, Record, Enter
<1>24. CASE UNCHANGED vars
  BY <1>24 DEF vars
<1> QED
  BY <1>1, <1>2, <1>3, <1>4, <1>5, <1>6, <1>7, <1>8, <1>9, <1>10, <1>11, <1>12, <1>13, <1>14,
     <1>15, <1>16, <1>17, <1>18, <1>19, <1>20, <1>21, <1>22, <1>23, <1>24 DEF Next, Call,
     Monitors, Progress

\* RETRYING or CANCELLED is in the row before RUNNING is recorded again.
LEMMA CountedNext ==
  ASSUME TypeOK, Control, Counted, Outcome, [Next]_vars
  PROVE  Counted'
<1> USE DEF Counted, Control, Outcome, Overwritten, callVars, groupVars, outcome, runVars,
   dbVars, others
<1>0. row \in [state : States, runs : Nat] /\ bodies \in Nat
  BY DEF TypeOK
<1>1. CASE Start
  BY <1>0, <1>1 DEF Start
<1>2. CASE JoinGroup \/ AwaitDone
  BY <1>0, <1>2 DEF JoinGroup, AwaitDone
<1>3. CASE InitializeBreaks
  BY <1>0, <1>3 DEF InitializeBreaks, InitializedRow
<1>4. CASE InitializeState
  BY <1>0, <1>4 DEF InitializeState, InitializedRow, Enter, FirstAwait, AfterAcquire,
     AfterThrottle
<1>5. CASE \/ CancelHost \/ CancelRun \/ StartMonitor \/ MonitorCancels
           \/ PollCancels \/ BackgroundFails
  BY <1>0, <1>5 DEF CancelHost, CancelRun, StartMonitor, MonitorCancels, PollCancels,
     BackgroundFails
<1>6. CASE ApiRead \/ ApiCommit
  BY <1>0, <1>6 DEF ApiRead, ApiCommit
<1>7. CASE Acquire \/ AcquireBreaks
  BY <1>0, <1>7 DEF Acquire, Enter, AfterAcquire, AfterThrottle, AcquireBreaks, Breaks
<1>8. CASE Throttle \/ ThrottleBreaks
  BY <1>0, <1>8 DEF Throttle, Enter, AfterThrottle, ThrottleBreaks, Leave, Breaks
<1>9. CASE LeaseLapses \/ Expire
  BY <1>0, <1>9 DEF LeaseLapses, Expire
<1>10. CASE CacheHasKey \/ CacheGet \/ CacheHit \/ CacheSet \/ BodyReturns
  BY <1>0, <1>10 DEF CacheHasKey, Enter, Record, Undisturbed, CacheGet, CacheHit, CacheSet,
     Leave, BodyReturns
<1>11. CASE Interrupt \/ CacheFails \/ BodyRaises
  BY <1>0, <1>11 DEF Interrupt, LeaveTimed, Leave, Record, Enter, Undisturbed, CacheFails,
     BodyRaises
<1>12. CASE Release
  BY <1>0, <1>12 DEF Release, Enter
<1>13. CASE ReleaseBreaks
  BY <1>0, <1>13 DEF ReleaseBreaks, Enter, Breaks
<1>14. CASE TryReturns \/ TryRaises
  BY <1>0, <1>14 DEF TryReturns, Enter, TryRaises, Record, Retries
<1>15. CASE Backoff \/ BackoffCancelled
  BY <1>0, <1>15 DEF Backoff, NextTry, Enter, FirstAwait, AfterAcquire, AfterThrottle,
     BackoffCancelled, Record
<1>16. CASE Finish \/ AfterCall
  BY <1>0, <1>16 DEF Finish, Enter, AfterCall
<1>17. CASE ReadRow
  BY <1>0, <1>17 DEF ReadRow
<1>18. CASE RecordedRunning
  BY <1>0, <1>18 DEF RecordedRunning, Recorded, Transitioned, Enter
<1>19. CASE RecordedValue
  BY <1>0, <1>19 DEF RecordedValue, Recorded, Transitioned, Leave, Enter
<1>20. CASE RecordedTimeout
  BY <1>0, <1>20 DEF RecordedTimeout, Recorded, Transitioned, Leave, Enter
<1>21. CASE RecordedRetrying
  BY <1>0, <1>21 DEF RecordedRetrying, Recorded, Transitioned, NextTry, Enter, FirstAwait,
     AfterAcquire, AfterThrottle
<1>22. CASE RecordedEnd
  BY <1>0, <1>22 DEF RecordedEnd, Recorded, Transitioned, Enter
<1>23. CASE RecordFails
  BY <1>0, <1>23 DEF RecordFails, Transitioned, Leave, Record, Enter
<1>24. CASE UNCHANGED vars
  BY <1>0, <1>24 DEF vars
<1> QED
  BY <1>1, <1>2, <1>3, <1>4, <1>5, <1>6, <1>7, <1>8, <1>9, <1>10, <1>11, <1>12, <1>13, <1>14,
     <1>15, <1>16, <1>17, <1>18, <1>19, <1>20, <1>21, <1>22, <1>23, <1>24 DEF Next, Call,
     Monitors, Progress

\* A recording makes the row say what it records, or leaves what a canceller has made of it.
LEMMA OutcomeNext ==
  ASSUME TypeOK, Control, Outcome, [Next]_vars
  PROVE  Outcome'
<1> USE DEF Outcome, Overwritten, OutcomeStates, Ending, Ahead, Control, callVars, groupVars,
   outcome, runVars, dbVars, others
<1>0. row \in [state : States, runs : Nat] /\ bodies \in Nat
  BY DEF TypeOK
<1>1. CASE Start
  BY <1>0, <1>1 DEF Start
<1>2. CASE JoinGroup \/ AwaitDone
  BY <1>0, <1>2 DEF JoinGroup, AwaitDone
<1>3. CASE InitializeBreaks
  BY <1>0, <1>3 DEF InitializeBreaks, InitializedRow
<1>4. CASE InitializeState
  BY <1>0, <1>4 DEF InitializeState, InitializedRow, Enter, FirstAwait, AfterAcquire,
     AfterThrottle
<1>5. CASE \/ CancelHost \/ CancelRun \/ StartMonitor \/ MonitorCancels
           \/ PollCancels \/ BackgroundFails
  BY <1>0, <1>5 DEF CancelHost, CancelRun, StartMonitor, MonitorCancels, PollCancels,
     BackgroundFails
<1>6. CASE ApiRead \/ ApiCommit
  BY <1>0, <1>6 DEF ApiRead, ApiCommit
<1>7. CASE Acquire \/ AcquireBreaks
  BY <1>0, <1>7 DEF Acquire, Enter, AfterAcquire, AfterThrottle, AcquireBreaks, Breaks
<1>8. CASE Throttle \/ ThrottleBreaks
  BY <1>0, <1>8 DEF Throttle, Enter, AfterThrottle, ThrottleBreaks, Leave, Breaks
<1>9. CASE LeaseLapses \/ Expire
  BY <1>0, <1>9 DEF LeaseLapses, Expire
<1>10. CASE CacheHasKey \/ CacheGet \/ CacheHit \/ CacheSet \/ BodyReturns
  BY <1>0, <1>10 DEF CacheHasKey, Enter, Record, Undisturbed, CacheGet, CacheHit, CacheSet,
     Leave, BodyReturns
<1>11. CASE Interrupt \/ CacheFails \/ BodyRaises
  BY <1>0, <1>11 DEF Interrupt, LeaveTimed, Leave, Record, Enter, Undisturbed, CacheFails,
     BodyRaises
<1>12. CASE Release
  BY <1>0, <1>12 DEF Release, Enter
<1>13. CASE ReleaseBreaks
  BY <1>0, <1>13 DEF ReleaseBreaks, Enter, Breaks
<1>14. CASE TryReturns \/ TryRaises
  BY <1>0, <1>14 DEF TryReturns, Enter, TryRaises, Record, Retries
<1>15. CASE Backoff \/ BackoffCancelled
  BY <1>0, <1>15 DEF Backoff, NextTry, Enter, FirstAwait, AfterAcquire, AfterThrottle,
     BackoffCancelled, Record
<1>16. CASE Finish \/ AfterCall
  BY <1>0, <1>16 DEF Finish, Enter, AfterCall
<1>17. CASE ReadRow
  BY <1>0, <1>17 DEF ReadRow
<1>18. CASE RecordedRunning
  BY <1>0, <1>18 DEF RecordedRunning, Recorded, Transitioned, Enter
<1>19. CASE RecordedValue
  BY <1>0, <1>19 DEF RecordedValue, Recorded, Transitioned, Leave, Enter
<1>20. CASE RecordedTimeout
  BY <1>0, <1>20 DEF RecordedTimeout, Recorded, Transitioned, Leave, Enter
<1>21. CASE RecordedRetrying
  BY <1>0, <1>21 DEF RecordedRetrying, Recorded, Transitioned, NextTry, Enter, FirstAwait,
     AfterAcquire, AfterThrottle
<1>22. CASE RecordedEnd
  BY <1>0, <1>22 DEF RecordedEnd, Recorded, Transitioned, Enter
<1>23. CASE RecordFails
  BY <1>0, <1>23 DEF RecordFails, Transitioned, Leave, Record, Enter
<1>24. CASE UNCHANGED vars
  BY <1>0, <1>24 DEF vars
<1> QED
  BY <1>1, <1>2, <1>3, <1>4, <1>5, <1>6, <1>7, <1>8, <1>9, <1>10, <1>11, <1>12, <1>13, <1>14,
     <1>15, <1>16, <1>17, <1>18, <1>19, <1>20, <1>21, <1>22, <1>23, <1>24 DEF Next, Call,
     Monitors, Progress

\* No way leads from a committed SUCCESS to another recording.
LEMMA FinalNext ==
  ASSUME TypeOK, Control, Final, [Next]_vars
  PROVE  Final'
<1> USE DEF Final, Ending, Ahead, Control, callVars, groupVars, outcome, runVars, dbVars, others
<1>0. row \in [state : States, runs : Nat] /\ bodies \in Nat
  BY DEF TypeOK
<1>1. CASE Start
  BY <1>0, <1>1 DEF Start
<1>2. CASE JoinGroup \/ AwaitDone
  BY <1>0, <1>2 DEF JoinGroup, AwaitDone
<1>3. CASE InitializeBreaks
  BY <1>0, <1>3 DEF InitializeBreaks, InitializedRow
<1>4. CASE InitializeState
  BY <1>0, <1>4 DEF InitializeState, InitializedRow, Enter, FirstAwait, AfterAcquire,
     AfterThrottle
<1>5. CASE \/ CancelHost \/ CancelRun \/ StartMonitor \/ MonitorCancels
           \/ PollCancels \/ BackgroundFails
  BY <1>0, <1>5 DEF CancelHost, CancelRun, StartMonitor, MonitorCancels, PollCancels,
     BackgroundFails
<1>6. CASE ApiRead \/ ApiCommit
  BY <1>0, <1>6 DEF ApiRead, ApiCommit
<1>7. CASE Acquire \/ AcquireBreaks
  BY <1>0, <1>7 DEF Acquire, Enter, AfterAcquire, AfterThrottle, AcquireBreaks, Breaks
<1>8. CASE Throttle \/ ThrottleBreaks
  BY <1>0, <1>8 DEF Throttle, Enter, AfterThrottle, ThrottleBreaks, Leave, Breaks
<1>9. CASE LeaseLapses \/ Expire
  BY <1>0, <1>9 DEF LeaseLapses, Expire
<1>10. CASE CacheHasKey \/ CacheGet \/ CacheHit \/ CacheSet \/ BodyReturns
  BY <1>0, <1>10 DEF CacheHasKey, Enter, Record, Undisturbed, CacheGet, CacheHit, CacheSet,
     Leave, BodyReturns
<1>11. CASE Interrupt \/ CacheFails \/ BodyRaises
  BY <1>0, <1>11 DEF Interrupt, LeaveTimed, Leave, Record, Enter, Undisturbed, CacheFails,
     BodyRaises
<1>12. CASE Release
  BY <1>0, <1>12 DEF Release, Enter
<1>13. CASE ReleaseBreaks
  BY <1>0, <1>13 DEF ReleaseBreaks, Enter, Breaks
<1>14. CASE TryReturns \/ TryRaises
  BY <1>0, <1>14 DEF TryReturns, Enter, TryRaises, Record, Retries
<1>15. CASE Backoff \/ BackoffCancelled
  BY <1>0, <1>15 DEF Backoff, NextTry, Enter, FirstAwait, AfterAcquire, AfterThrottle,
     BackoffCancelled, Record
<1>16. CASE Finish \/ AfterCall
  BY <1>0, <1>16 DEF Finish, Enter, AfterCall
<1>17. CASE ReadRow
  BY <1>0, <1>17 DEF ReadRow
<1>18. CASE RecordedRunning
  BY <1>0, <1>18 DEF RecordedRunning, Recorded, Transitioned, Enter
<1>19. CASE RecordedValue
  BY <1>0, <1>19 DEF RecordedValue, Recorded, Transitioned, Leave, Enter
<1>20. CASE RecordedTimeout
  BY <1>0, <1>20 DEF RecordedTimeout, Recorded, Transitioned, Leave, Enter
<1>21. CASE RecordedRetrying
  BY <1>0, <1>21 DEF RecordedRetrying, Recorded, Transitioned, NextTry, Enter, FirstAwait,
     AfterAcquire, AfterThrottle
<1>22. CASE RecordedEnd
  BY <1>0, <1>22 DEF RecordedEnd, Recorded, Transitioned, Enter
<1>23. CASE RecordFails
  BY <1>0, <1>23 DEF RecordFails, Transitioned, Leave, Record, Enter
<1>24. CASE UNCHANGED vars
  BY <1>0, <1>24 DEF vars
<1> QED
  BY <1>1, <1>2, <1>3, <1>4, <1>5, <1>6, <1>7, <1>8, <1>9, <1>10, <1>11, <1>12, <1>13, <1>14,
     <1>15, <1>16, <1>17, <1>18, <1>19, <1>20, <1>21, <1>22, <1>23, <1>24 DEF Next, Call,
     Monitors, Progress

-----------------------------------------------------------------------------
LEMMA InvInit == ASSUME ConfigsAssumption, Init PROVE Inv
<1>1. TypeOK
  <2>1. config \in Configs /\ config.tries \in Nat \ {0}
    BY ConfigsAssumption DEF Init, Config
  <2>2. row \in [state : States, runs : Nat] /\ try \in 0..LastTry
    BY <2>1 DEF Init, States, LastTry
  <2> QED
    BY <2>1, <2>2 DEF Init, TypeOK
<1>2. Control /\ Leases
  BY DEF Init, Control, Leases, Ahead, Ending
<1>3. Counted /\ Outcome /\ Final
  BY DEF Init, Counted, Outcome, Final, Ending
<1> QED
  BY <1>1, <1>2, <1>3 DEF Inv

LEMMA InvNext == ASSUME ConfigsAssumption, Inv, [Next]_vars PROVE Inv'
  BY TypeNext, ControlNext, LeasesNext, CountedNext, OutcomeNext, FinalNext DEF Inv

LEMMA InvAlways == Spec => []Inv
<1>1. Init => Inv
  BY InvInit, ConfigsAssumption
<1>2. Inv /\ [Next]_vars => Inv'
  BY InvNext, ConfigsAssumption
<1> QED
  BY <1>1, <1>2, PTL DEF Spec

-----------------------------------------------------------------------------
(* The theorems.                                                           *)

\* In every run of call() and _call(), whatever the configuration: the places they come to, the
\* exceptions they raise and the states of the row keep to what is declared, and the tries to the
\* number that is configured.
THEOREM TypeCorrect == Spec => []TypeOK
<1>1. Inv => TypeOK
  BY DEF Inv
<1> QED
  BY <1>1, InvAlways, PTL

\* _retry() and the _transition_*_state() handlers: what awaiting a run gives and what its row says
\* agree, for every configuration and number of tries, while the database works and no canceller
\* has written over an event in between.
THEOREM OutcomeRecordedCorrect == Spec => []OutcomeRecorded
<1>1. Inv => OutcomeRecorded
  BY DEF Inv, Control, Outcome, OutcomeRecorded, Overwritten
<1> QED
  BY <1>1, InvAlways, PTL

\* The semaphore of _call(): the function runs only with a lease, held or outlived, and none is
\* left over after a try unless the run is cancelled or Redis fails; for every number of tries.
THEOREM LeaseScopedCorrect == Spec => []LeaseScoped
<1>1. Inv => LeaseScoped
  BY DEF Inv, Leases, LeaseScoped, Ending
<1> QED
  BY <1>1, InvAlways, PTL

\* _transition_state() counts every call of the function in run_count, and nothing else while
\* the database works; for every number of tries.
THEOREM RunsCountedCorrect == Spec => []RunsCounted
<1>1. Inv => RunsCounted
  BY DEF Inv, Counted, RunsCounted
<1> QED
  BY <1>1, InvAlways, PTL

\* Nothing but a canceller takes a row out of SUCCESS when neither the cache nor the semaphore is
\* left to await: not the deadline, not cancel(), not a further try.
THEOREM SuccessKeptCorrect == Spec => SuccessKept
<1> DEFINE Keeps == row.state = "success" /\ row.state' # "success" =>
                      \/ config.semaphore \/ config.cache # "off" \/ "db" \in config.faults
                      \/ api # api'
<1>1. ASSUME Inv, [Next]_vars PROVE [Keeps]_vars
  <2>1. row' = row \/ api' # api \/ pc \in {"record", "commit"} \/ host = "init"
    BY <1>1, RowSteps
  <2> QED
    BY <1>1, <2>1 DEF Inv, Control, Final, Ending
<1> QED
  BY <1>1, InvAlways, PTL DEF Spec, SuccessKept

=============================================================================
