------------------------------ MODULE TaskRows ------------------------------
(***************************************************************************)
(* The rows of the task runs of filament/db/models.py, a forest by parent: *)
(* their creation (state/register.py), the cascade that cancels a row and  *)
(* those below it for the API, a hook or stonith, and the deletion of old  *)
(* rows (state/task_run_state.py, cli/cli_cleanup.py).                     *)
(*                                                                         *)
(* A cascade is one transaction: it reads a row's children when it comes   *)
(* to the row, remembers what it has read, holds the rows it has written   *)
(* locked and shows its changes when it commits.  Runs and initialisers    *)
(* read in one statement and write in another with a commit of its own.    *)
(* Of a run's states only those matter that a cascade tells apart; TaskRun *)
(* has the others.                                                         *)
(***************************************************************************)
EXTENDS Integers, SequencesExt

CONSTANTS
  Runs,       \* task runs, all of one function
  Type,       \* their task type, whose row and semaphore they share
  Null,
  Sessions,   \* transactions of the API, of hooks and of the clean-up script
  Worlds      \* what may differ between behaviours, see World

\* Who calls whom; whose rows are there, with the run running or over; which runs are
\* requested with start_immediately, so that they are initialised twice at the same time;
\* whether a semaphore's lease may run out; whether the database enforces foreign keys
\* (SQLite does not); whether the clean-up is told to skip root tasks, which it does unless
\* somebody calls it otherwise; the transactions that take part.
World == [parent : [Runs -> Runs \cup {Null}], running : SUBSET Runs, over : SUBSET Runs,
          twice : SUBSET Runs, lapses : BOOLEAN, foreignKeys : BOOLEAN,
          skipRoots : BOOLEAN, sessions : SUBSET Sessions]

Inits == Runs \X {"request", "call"}
Locks == Runs \cup {Type}
States == {"CREATED", "RUNNING", "DONE", "CANCELLED"}
Terminal == {"DONE", "CANCELLED"}
Row == [state : States, parent : Runs \cup {Null}]

\* The rows that are there to begin with were inserted below rows that were there.
RootedIn(w) == \A r \in w.running \cup w.over : w.parent[r] \in w.running \cup w.over \cup {Null}

\* The semaphore of a type has another name than those of runs.
ASSUME RowsAssumption ==
  /\ Worlds \subseteq World /\ \A w \in Worlds : RootedIn(w)
  /\ IsFiniteSet(Runs) /\ Type \notin Runs /\ Null \notin Runs \cup Sessions \cup States \cup Row

VARIABLES
  world,      \* one of Worlds
  row,        \* the committed rows
  known,      \* whether the task type has its row
  inside,     \* the initialisers inside each semaphore
  lapsed,     \* those of them whose lease has run out
  at,         \* what each initialiser does next
  stage,      \* which semaphore it is about: "type", then "run"
  run,        \* what each run does next
  op,         \* what each transaction is for
  agenda,     \* what it has still to do, in order
  seen,       \* the states of the rows it has loaded
  changed,    \* the rows it has written, which it holds locked
  listed,     \* the rows whose children it has loaded
  late,       \* ghost: rows inserted when a transaction had listed their parent's children
  deleted     \* ghost: rows that have been deleted

creation == <<known, inside, lapsed, at, stage>>
session == <<op, agenda, seen, changed, listed>>
vars == <<world, row, creation, run, session, late, deleted>>

Exists(r) == row[r] # Null
Children(r) == {c \in Runs : Exists(c) /\ row[c].parent = r}

TypeOK ==
  /\ world \in Worlds
  /\ row \in [Runs -> Row \cup {Null}]
  /\ known \in BOOLEAN
  /\ inside \in [Locks -> SUBSET Inits] /\ lapsed \in [Locks -> SUBSET Inits]
  /\ at \in [Inits -> {"idle", "enter", "select", "insert", "leave", "duplicate", "abort",
                       "done", "failed"}]
  /\ stage \in [Inits -> {"type", "run"}]
  /\ run \in [Runs -> {"none", "start", "starting", "running", "stop", "stopping", "ended", "broken"}]
  /\ op \in [Sessions -> {"idle", "cancel", "delete", "over"}]
  /\ agenda \in [Sessions -> Seq({"visit", "load", "delete"} \X Runs)]
  /\ seen \in [Sessions -> [Runs -> States \cup {Null}]]
  /\ changed \in [Sessions -> SUBSET Runs] /\ listed \in [Sessions -> SUBSET Runs]
  /\ late \subseteq Runs /\ deleted \subseteq Runs

\* Mutant: the row starts out in a state that does not exist.
PendingRow(r) == [state |-> "PENDING", parent |-> world.parent[r]]

\* The parent is the run on top of the call stack of the caller.
NewRow(r) == [state |-> "CREATED", parent |-> world.parent[r]]

Init ==
  /\ world \in Worlds
  /\ row = [r \in Runs |-> IF r \in world.running THEN [NewRow(r) EXCEPT !.state = "RUNNING"]
                           ELSE IF r \in world.over THEN [NewRow(r) EXCEPT !.state = "DONE"]
                           ELSE Null]
  /\ known = (world.running \cup world.over # {})
  /\ inside = [l \in Locks |-> {}] /\ lapsed = [l \in Locks |-> {}]
  /\ at = [i \in Inits |-> "idle"] /\ stage = [i \in Inits |-> "type"]
  /\ run = [r \in Runs |-> IF r \in world.running THEN "running"
                           ELSE IF r \in world.over THEN "ended" ELSE "none"]
  /\ op = [k \in Sessions |-> "idle"] /\ agenda = [k \in Sessions |-> <<>>]
  /\ seen = [k \in Sessions |-> [r \in Runs |-> Null]]
  /\ changed = [k \in Sessions |-> {}] /\ listed = [k \in Sessions |-> {}]
  /\ late = {} /\ deleted = {}

-----------------------------------------------------------------------------
(* initialize_task_run_state(): twice "enter, SELECT, INSERT, leave", for  *)
(* the row of the type and for the row of the run.                         *)

Lock(i) == IF stage[i] = "type" THEN Type ELSE i[1]
Goto(i, label) == at' = [at EXCEPT ![i] = label]

\* A run is called by a running one; request and call only come together if it is to start
\* immediately.
Call(i) ==
  /\ at[i] = "idle" /\ i[1] \notin world.running \cup world.over
  /\ i[2] = "call" \/ i[1] \in world.twice
  /\ world.parent[i[1]] # Null => run[world.parent[i[1]]] = "running"
  /\ Goto(i, "enter")
  /\ UNCHANGED <<world, row, known, inside, lapsed, stage, run, session, late, deleted>>

\* Mutant: no semaphore.
EnterAtOnce(i) ==
  /\ at[i] = "enter"
  /\ inside' = [inside EXCEPT ![Lock(i)] = @ \cup {i}]
  /\ Goto(i, "select")
  /\ UNCHANGED <<world, row, known, lapsed, stage, run, session, late, deleted>>

Enter(i) ==
  /\ at[i] = "enter"
  /\ inside[Lock(i)] \subseteq lapsed[Lock(i)]
  /\ inside' = [inside EXCEPT ![Lock(i)] = @ \cup {i}]
  /\ Goto(i, "select")
  /\ UNCHANGED <<world, row, known, lapsed, stage, run, session, late, deleted>>

Lapse(i) ==
  /\ world.lapses /\ i \in inside[Lock(i)]
  /\ lapsed' = [lapsed EXCEPT ![Lock(i)] = @ \cup {i}]
  /\ UNCHANGED <<world, row, known, inside, at, stage, run, session, late, deleted>>

\* Mutant: the run's row is taken to be there when its type's is.
SelectType(i) ==
  /\ at[i] = "select"
  /\ Goto(i, IF known THEN "leave" ELSE "insert")
  /\ UNCHANGED <<world, row, known, inside, lapsed, stage, run, session, late, deleted>>

Select(i) ==
  /\ at[i] = "select"
  /\ Goto(i, IF (IF stage[i] = "type" THEN known ELSE Exists(i[1])) THEN "leave" ELSE "insert")
  /\ UNCHANGED <<world, row, known, inside, lapsed, stage, run, session, late, deleted>>

\* A second row of one type or one uuid breaks a unique constraint.
InsertType(i) ==
  /\ at[i] = "insert" /\ stage[i] = "type"
  /\ known' = TRUE
  /\ Goto(i, IF known THEN "duplicate" ELSE "leave")
  /\ UNCHANGED <<world, row, inside, lapsed, stage, run, session, late, deleted>>

Orphan(r) == world.parent[r] # Null /\ ~Exists(world.parent[r])
Deleting(r) == \E k \in Sessions : op[k] = "delete" /\ r \in changed[k]

\* The foreign key makes the insertion wait for a transaction that deletes the parent.
InsertRun(i) ==
  /\ at[i] = "insert" /\ stage[i] = "run"
  /\ LET r == i[1]
         p == world.parent[r]
     IN  /\ ~(world.foreignKeys /\ p # Null /\ Deleting(p))
         /\ IF Exists(r) \/ (world.foreignKeys /\ Orphan(r))
            THEN /\ Goto(i, IF Exists(r) THEN "duplicate" ELSE "abort")
                 /\ UNCHANGED <<row, late>>
            ELSE /\ row' = [row EXCEPT ![r] = NewRow(r)]
                 /\ late' = IF Orphan(r) \/ \E k \in Sessions : p \in listed[k]
                            THEN late \cup {r} ELSE late
                 /\ Goto(i, "leave")
  /\ UNCHANGED <<world, known, inside, lapsed, stage, run, session, deleted>>

\* Releasing a lease that has run out raises, if others have cleaned it up.
LeaveLock(i) ==
  /\ at[i] \in {"leave", "duplicate", "abort"}
  /\ inside' = [inside EXCEPT ![Lock(i)] = @ \ {i}]
  /\ lapsed' = [lapsed EXCEPT ![Lock(i)] = @ \ {i}]
  /\ \/ /\ at[i] = "leave" /\ stage[i] = "type"
        /\ stage' = [stage EXCEPT ![i] = "run"]
        /\ Goto(i, "enter")
     \/ /\ at[i] = "leave" /\ stage[i] = "run"
        /\ Goto(i, "done")
        /\ UNCHANGED stage
     \/ /\ at[i] # "leave" \/ i \in lapsed[Lock(i)]
        /\ Goto(i, "failed")
        /\ UNCHANGED stage
  /\ UNCHANGED <<world, row, known, run, session, late, deleted>>

-----------------------------------------------------------------------------
(* A run's own state events: each a SELECT and an UPDATE with its commit,  *)
(* which waits for a transaction that has the row locked.                  *)

RunGoes(r, label) == run' = [run EXCEPT ![r] = label]
LockedFor(k, r) == \E j \in Sessions \ {k} : r \in changed[j]

Start(r) ==
  /\ run[r] = "none" /\ at[<<r, "call">>] = "done"
  /\ RunGoes(r, "start")
  /\ UNCHANGED <<world, row, creation, session, late, deleted>>

Stop(r) ==
  /\ run[r] = "running"
  /\ RunGoes(r, "stop")
  /\ UNCHANGED <<world, row, creation, session, late, deleted>>

ReadState(r) ==
  /\ run[r] \in {"start", "stop"}
  /\ RunGoes(r, IF ~Exists(r) THEN "broken" ELSE IF run[r] = "start" THEN "starting" ELSE "stopping")
  /\ UNCHANGED <<world, row, creation, session, late, deleted>>

WriteState(r) ==
  /\ run[r] \in {"starting", "stopping"} /\ ~LockedFor(Null, r)
  /\ IF Exists(r)
     THEN /\ \E s \in IF run[r] = "starting" THEN {"RUNNING"} ELSE Terminal :
               row' = [row EXCEPT ![r].state = s]
          /\ RunGoes(r, IF run[r] = "starting" THEN "running" ELSE "ended")
     ELSE /\ RunGoes(r, "broken")
          /\ UNCHANGED row
  /\ UNCHANGED <<world, creation, session, late, deleted>>

-----------------------------------------------------------------------------
(* Transactions. *)

Open(k, purpose, items, loaded) ==
  /\ k \in world.sessions /\ op[k] = "idle"
  /\ op' = [op EXCEPT ![k] = purpose]
  /\ agenda' = [agenda EXCEPT ![k] = items]
  /\ seen' = [seen EXCEPT ![k] = [r \in Runs |-> IF r \in loaded THEN row[r].state ELSE Null]]
  /\ UNCHANGED <<world, row, creation, run, changed, listed, late, deleted>>

Each(what, S) == {[j \in DOMAIN s |-> <<what, s[j]>>] : s \in SetToSeqs(S)}

\* cancel_task_run of the API, cancel_task_run_by_uuid of the hooks.
CancelRequested(k) == \E r \in Runs : Exists(r) /\ Open(k, "cancel", <<<<"visit", r>>>>, {r})

\* Any runs may be late with their heartbeats, in any order.
Stonith(k) ==
  \E S \in SUBSET {r \in Runs : Exists(r) /\ row[r].state \notin Terminal} :
    \E items \in Each("visit", S) : S # {} /\ Open(k, "cancel", items, S)

\* Any rows may be old, in any order.
DeleteOldTaskRuns(k) ==
  \E S \in SUBSET {r \in Runs : Exists(r) /\ (world.skipRoots => row[r].parent # Null)} :
    \E items \in Each("load", S) : S # {} /\ Open(k, "delete", items, S)

Next1(k) == Head(agenda[k])
Due(k, what) == agenda[k] # <<>> /\ Next1(k)[1] = what
Item(k) == Next1(k)[2]

\* Mutant: what is over is put off instead of skipped.
PutOffTerminal(k) ==
  /\ Due(k, "visit") /\ seen[k][Item(k)] \in Terminal
  /\ agenda' = [agenda EXCEPT ![k] = Append(Tail(@), Head(@))]
  /\ UNCHANGED <<world, row, creation, run, op, seen, changed, listed, late, deleted>>

SkipTerminal(k) ==
  /\ Due(k, "visit") /\ seen[k][Item(k)] \in Terminal
  /\ agenda' = [agenda EXCEPT ![k] = Tail(@)]
  /\ UNCHANGED <<world, row, creation, run, op, seen, changed, listed, late, deleted>>

\* Mutant: the children take the place of what was left to do.
CancelChildrenOnly(k) ==
  LET r == Item(k) IN
  /\ Due(k, "visit") /\ seen[k][r] \notin Terminal
  /\ Exists(r) /\ ~LockedFor(k, r)
  /\ changed' = [changed EXCEPT ![k] = @ \cup {r}]
  /\ listed' = [listed EXCEPT ![k] = @ \cup {r}]
  /\ seen' = [seen EXCEPT ![k] = [c \in Runs |-> IF c = r THEN "CANCELLED"
                                                 ELSE IF c \in Children(r) /\ @[c] = Null
                                                      THEN row[c].state ELSE @[c]]]
  /\ \E items \in Each("visit", Children(r)) : agenda' = [agenda EXCEPT ![k] = items]
  /\ UNCHANGED <<world, row, creation, run, op, late, deleted>>

\* The UPDATE, then the SELECT of the children.  What has been loaded is not read again.
CancelRow(k) ==
  LET r == Item(k) IN
  /\ Due(k, "visit") /\ seen[k][r] \notin Terminal
  /\ Exists(r) /\ ~LockedFor(k, r)
  /\ changed' = [changed EXCEPT ![k] = @ \cup {r}]
  /\ listed' = [listed EXCEPT ![k] = @ \cup {r}]
  /\ seen' = [seen EXCEPT ![k] = [c \in Runs |-> IF c = r THEN "CANCELLED"
                                                 ELSE IF c \in Children(r) /\ @[c] = Null
                                                      THEN row[c].state ELSE @[c]]]
  /\ \E items \in Each("visit", Children(r)) : agenda' = [agenda EXCEPT ![k] = items \o Tail(@)]
  /\ UNCHANGED <<world, row, creation, run, op, late, deleted>>

\* Mutant: the children are not loaded.
LoadNoChildren(k) ==
  LET r == Item(k) IN
  /\ Due(k, "load")
  /\ listed' = [listed EXCEPT ![k] = @ \cup {r}]
  /\ agenda' = [agenda EXCEPT ![k] = <<<<"delete", r>>>> \o Tail(@)]
  /\ UNCHANGED <<world, row, creation, run, op, seen, changed, late, deleted>>

LoadChildren(k) ==
  LET r == Item(k) IN
  /\ Due(k, "load")
  /\ listed' = [listed EXCEPT ![k] = @ \cup {r}]
  /\ \E items \in Each("load", Children(r) \ changed[k]) :
       agenda' = [agenda EXCEPT ![k] = items \o <<<<"delete", r>>>> \o Tail(@)]
  /\ UNCHANGED <<world, row, creation, run, op, seen, changed, late, deleted>>

DeleteBreaks(k, r) == world.foreignKeys /\ ~(Children(r) \subseteq changed[k])

DeleteRow(k) ==
  LET r == Item(k) IN
  /\ Due(k, "delete")
  /\ ~LockedFor(k, r) /\ ~DeleteBreaks(k, r)
  /\ changed' = [changed EXCEPT ![k] = IF Exists(r) THEN @ \cup {r} ELSE @]
  /\ agenda' = [agenda EXCEPT ![k] = Tail(@)]
  /\ UNCHANGED <<world, row, creation, run, op, seen, listed, late, deleted>>

Close(k) ==
  /\ op' = [op EXCEPT ![k] = "over"]
  /\ agenda' = [agenda EXCEPT ![k] = <<>>]
  /\ seen' = [seen EXCEPT ![k] = [r \in Runs |-> Null]]
  /\ changed' = [changed EXCEPT ![k] = {}]
  /\ listed' = [listed EXCEPT ![k] = {}]
  /\ UNCHANGED <<world, creation, run, late>>

Commit(k) ==
  /\ op[k] \in {"cancel", "delete"} /\ agenda[k] = <<>>
  /\ row' = [r \in Runs |-> IF r \notin changed[k] THEN row[r]
                            ELSE IF op[k] = "delete" THEN Null
                            ELSE [row[r] EXCEPT !.state = "CANCELLED"]]
  /\ deleted' = IF op[k] = "delete" THEN deleted \cup changed[k] ELSE deleted
  /\ Close(k)

\* The database refuses a statement, or the connection is lost.
Rollback(k) ==
  /\ op[k] \in {"cancel", "delete"}
  /\ Close(k)
  /\ UNCHANGED <<row, deleted>>

\* Two transactions wait for each other, or a statement cannot succeed.
WaitsFor(k, j) == agenda[k] # <<>> /\ Item(k) \in changed[j] /\ j # k
                  /\ ~(Due(k, "visit") /\ seen[k][Item(k)] \in Terminal) /\ ~Due(k, "load")
Refused(k) ==
  /\ agenda[k] # <<>>
  /\ \/ \E j \in Sessions : WaitsFor(k, j) /\ WaitsFor(j, k)
     \/ Due(k, "visit") /\ ~Exists(Item(k))
     \/ Due(k, "delete") /\ DeleteBreaks(k, Item(k))

-----------------------------------------------------------------------------
Initialise(i) == Enter(i) \/ Select(i) \/ InsertType(i) \/ InsertRun(i) \/ LeaveLock(i)
Transition(r) == Start(r) \/ ReadState(r) \/ WriteState(r)
Begin(k) == CancelRequested(k) \/ Stonith(k) \/ DeleteOldTaskRuns(k)
Proceed(k) == SkipTerminal(k) \/ CancelRow(k) \/ LoadChildren(k) \/ DeleteRow(k) \/ Commit(k)

Next ==
  \/ \E i \in Inits : Call(i) \/ Lapse(i) \/ Initialise(i)
  \/ \E r \in Runs : Stop(r) \/ Transition(r)
  \/ \E k \in Sessions : Begin(k) \/ Proceed(k) \/ Rollback(k)

Spec == Init /\ [][Next]_vars

\* Statements are answered, and the database ends one of two that wait for each other.
FairSpec ==
  /\ Spec
  /\ \A i \in Inits : WF_vars(Initialise(i))
  /\ \A k \in Sessions : WF_vars(Proceed(k)) /\ WF_vars(Refused(k) /\ Rollback(k))

-----------------------------------------------------------------------------
(* Properties. *)

\* The semaphores keep two initialisers of one type or one run from inserting its row
\* both, for all that SELECT and INSERT are apart; a lease that runs out may break that.
InsertedOnce == \A i \in Inits : at[i] = "duplicate" => world.lapses

\* Once one of them is done, run_task finds the row and the run its own, until it is deleted.
RowBeforeRun ==
  \A i \in Inits : at[i] = "done" => Exists(i[1]) \/ i[1] \in deleted

\* A cascade that is about to commit has cancelled what is below each row it cancels, in
\* whatever order it came to the rows and although runs go on beside it, save for what was
\* over when it looked and children that came after it had.
CascadeWhole ==
  \A k \in Sessions : op[k] = "cancel" /\ agenda[k] = <<>> =>
    \A r \in changed[k] : \A c \in Children(r) :
      c \in changed[k] \cup late \/ seen[k][c] \in Terminal

\* A deletion leaves no row without its parent, or only one inserted after it had looked
\* for children, and that only if the database does not enforce foreign keys.
NoOrphan == \A r \in Runs : Exists(r) /\ Orphan(r) => r \in late /\ ~world.foreignKeys

\* Every cascade comes to its end, although it waits for others' rows while they may wait
\* for its own and rows come and go.
SessionsEnd == \A k \in Sessions : op[k] \in {"cancel", "delete"} ~> op[k] = "over"
=============================================================================
