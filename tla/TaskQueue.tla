------------------------------ MODULE TaskQueue ------------------------------
(***************************************************************************)
(* The task queue of filament/queue: requesters put the runs of one        *)
(* function into a Redis stream, workers read it as one consumer group,    *)
(* store each chunk and the result in a key of the run and announce them   *)
(* on a channel; a second channel carries a cancellation back.             *)
(*                                                                         *)
(* Each Redis command is an action; a requester (FilamentRemoteTaskRun)    *)
(* and a worker (FilamentRemoteTaskType.serve) move between them by pc and *)
(* work, whose values name the command that comes next.  The stream is the *)
(* set of its entries with their ids; the group keeps the last delivered   *)
(* id and the entries delivered but not acknowledged.  A message on a      *)
(* channel reaches those who have subscribed by then.                      *)
(***************************************************************************)
EXTENDS Integers, Sequences, FiniteSets

CONSTANTS
  Requests,    \* remote runs, one requester each
  Workers,     \* calls of serve()
  None,        \* no run, no result
  Worlds       \* what may differ between behaviours, see World

\* Who takes part; the chunks the run of each request yields at most; the requests that no
\* worker can validate; the callers that may be cancelled or die, and those that die once their
\* run is added; the workers that may crash or be shut down.
World == [requests : SUBSET Requests, workers : SUBSET Workers, maxChunks : [Requests -> Nat],
          unreadable : SUBSET Requests, mayGo : SUBSET Requests, brief : SUBSET Requests,
          mortal : SUBSET Workers]

\* The stored result of a run: its last chunk, and how it ended if it has.
Result == [chunk : Nat, final : {"no", "value", "error", "cancelled"}]

ASSUME QueueAssumption == None \notin Requests \cup Result /\ Worlds \subseteq World

VARIABLES
  world,       \* one of Worlds
  group,       \* whether the consumer group exists
  stream,      \* the requests whose entries are in the stream
  id,          \* the id of each request's entry, 0 before XADD
  lastId,      \* the last id the stream has given
  delivered,   \* the last id the group has delivered
  pending,     \* requests delivered and not acknowledged
  old,         \* messages up to this id were delivered longer than stale_age ago
  key,         \* per run the key filament:task:result, a chunk or the final result
  pc,          \* what each requester does next
  todo,        \* what its clean-up has read: stale entries, or the oldest pending one
  inbox,       \* messages its subscription has received
  chunks,      \* the chunks it has passed on
  answer,      \* the outcome it returns
  work,        \* what each worker does next
  job,         \* the run it serves
  hears,       \* whether it has subscribed to the run's cancel channel
  told,        \* whether the run it serves has been told to cancel
  leaving,     \* whether its shutdown event is set
  served,      \* ghost: requests some worker has begun to serve
  dropped      \* ghost: requests a clean-up has acknowledged as stale

redis == <<group, stream, id, lastId, delivered, pending, old, key>>
requester == <<pc, todo, inbox, chunks, answer>>
worker == <<work, job, hears, told, leaving>>
vars == <<redis, requester, worker, served, dropped, world>>

Enqueuing == {"range", "xack", "xdel", "oldest", "trim", "add"}
Waiting == Enqueuing \cup {"subscribe", "listening"}
Gone == {"publish", "failed", "gone"}
Serving == {"run", "partial", "complete", "ack"}

TypeOK ==
  /\ world \in Worlds
  /\ group \in BOOLEAN
  /\ stream \subseteq Requests /\ pending \subseteq Requests
  /\ id \in [Requests -> Nat] /\ lastId \in Nat /\ delivered \in Nat /\ old \in Nat
  /\ key \in [Requests -> Result \cup {None}]
  /\ pc \in [Requests -> {"idle", "answered"} \cup Waiting \cup Gone]
  /\ todo \in [Requests -> SUBSET Requests]
  /\ inbox \in [Requests -> Seq({"partial", "complete"})]
  /\ chunks \in [Requests -> Seq(Nat)]
  /\ answer \in [Requests -> {"value", "error", "cancelled", None}]
  /\ work \in [Workers -> {"setup", "read", "stopped"} \cup Serving]
  /\ job \in [Workers -> Requests \cup {None}]
  /\ hears \in [Workers -> BOOLEAN] /\ told \in [Workers -> BOOLEAN]
  /\ leaving \in [Workers -> BOOLEAN]
  /\ served \subseteq Requests /\ dropped \subseteq Requests

Init ==
  /\ world \in Worlds
  /\ group = FALSE /\ stream = {} /\ pending = {}
  /\ id = [r \in Requests |-> 0] /\ lastId = 0 /\ delivered = 0 /\ old = 0
  /\ key = [r \in Requests |-> None]
  /\ pc = [r \in Requests |-> "idle"]
  /\ todo = [r \in Requests |-> {}]
  /\ inbox = [r \in Requests |-> <<>>]
  /\ chunks = [r \in Requests |-> <<>>]
  /\ answer = [r \in Requests |-> None]
  /\ work = [w \in Workers |-> "setup"]
  /\ job = [w \in Workers |-> None]
  /\ hears = [w \in Workers |-> FALSE]
  /\ told = [w \in Workers |-> FALSE]
  /\ leaving = [w \in Workers |-> FALSE]
  /\ served = {} /\ dropped = {}

-----------------------------------------------------------------------------
(* enqueue_task_run(): the requester first cleans the stream up.           *)

Oldest(S) == {r \in S : \A s \in S : id[r] <= id[s]}
Goto(r, label) == pc' = [pc EXCEPT ![r] = label]

Request(r) ==
  /\ r \in world.requests /\ pc[r] = "idle"
  /\ Goto(r, "range")
  /\ UNCHANGED <<redis, todo, inbox, chunks, answer, worker, served, dropped, world>>

\* The first stale messages, as of this reading.  XPENDING fails as long as no worker has
\* created the group.  The count that is read first can only say the same earlier.
PendingRange(r) ==
  /\ pc[r] = "range"
  /\ todo' = [todo EXCEPT ![r] = {s \in pending : id[s] <= old}]
  /\ Goto(r, IF ~group THEN "failed" ELSE IF todo'[r] = {} THEN "oldest" ELSE "xack")
  /\ UNCHANGED <<redis, inbox, chunks, answer, worker, served, dropped, world>>

AckStale(r) ==
  /\ pc[r] = "xack"
  /\ pending' = pending \ Oldest(todo[r])
  /\ dropped' = dropped \cup Oldest(todo[r])
  /\ Goto(r, "xdel")
  /\ UNCHANGED <<group, stream, id, lastId, delivered, old, key, todo, inbox, chunks, answer,
                 worker, served, world>>

\* Once all are deleted the clean-up looks again.
DeleteStale(r) ==
  /\ pc[r] = "xdel"
  /\ stream' = stream \ Oldest(todo[r])
  /\ todo' = [todo EXCEPT ![r] = @ \ Oldest(@)]
  /\ Goto(r, IF todo'[r] = {} THEN "range" ELSE "xack")
  /\ UNCHANGED <<group, id, lastId, delivered, pending, old, key, inbox, chunks, answer,
                 worker, served, dropped, world>>

\* Mutant: the trimming starts from the newest pending message.
NewestPending(r) ==
  /\ pc[r] = "oldest"
  /\ todo' = [todo EXCEPT ![r] = {s \in pending : \A p \in pending : id[p] <= id[s]}]
  /\ Goto(r, IF pending = {} THEN "add" ELSE "trim")
  /\ UNCHANGED <<redis, inbox, chunks, answer, worker, served, dropped, world>>

OldestPending(r) ==
  /\ pc[r] = "oldest"
  /\ todo' = [todo EXCEPT ![r] = Oldest(pending)]
  /\ Goto(r, IF pending = {} THEN "add" ELSE "trim")
  /\ UNCHANGED <<redis, inbox, chunks, answer, worker, served, dropped, world>>

Trim(r) ==
  /\ pc[r] = "trim"
  /\ stream' = {s \in stream : \A t \in todo[r] : id[t] <= id[s]}
  /\ todo' = [todo EXCEPT ![r] = {}]
  /\ Goto(r, "add")
  /\ UNCHANGED <<group, id, lastId, delivered, pending, old, key, inbox, chunks, answer,
                 worker, served, dropped, world>>

Add(r) ==
  /\ pc[r] = "add"
  /\ stream' = stream \cup {r}
  /\ lastId' = lastId + 1
  /\ id' = [id EXCEPT ![r] = lastId + 1]
  /\ Goto(r, "subscribe")
  /\ UNCHANGED <<group, delivered, pending, old, key, todo, inbox, chunks, answer, worker,
                 served, dropped, world>>

-----------------------------------------------------------------------------
(* _listen_for_task_result(): the answer, in the requester's task group.   *)

Subscribe(r) ==
  /\ pc[r] = "subscribe" /\ r \notin world.brief
  /\ Goto(r, "listening")
  /\ UNCHANGED <<redis, todo, inbox, chunks, answer, worker, served, dropped, world>>

\* GET after `partial' may find a later value; an error is not expected there.
ReceivePartial(r) ==
  /\ pc[r] = "listening" /\ inbox[r] # <<>> /\ Head(inbox[r]) = "partial"
  /\ inbox' = [inbox EXCEPT ![r] = Tail(@)]
  /\ IF key[r].final \in {"error", "cancelled"}
     THEN /\ Goto(r, "failed")
          /\ UNCHANGED chunks
     ELSE /\ chunks' = [chunks EXCEPT ![r] = Append(@, key[r].chunk)]
          /\ UNCHANGED pc
  /\ UNCHANGED <<redis, todo, answer, worker, served, dropped, world>>

ReceiveComplete(r) ==
  /\ pc[r] = "listening" /\ inbox[r] # <<>> /\ Head(inbox[r]) = "complete"
  /\ inbox' = [inbox EXCEPT ![r] = Tail(@)]
  /\ answer' = [answer EXCEPT ![r] = key[r].final]
  /\ Goto(r, "answered")
  /\ UNCHANGED <<redis, todo, chunks, worker, served, dropped, world>>

\* cancel() ends the listener; a cancellation of the awaiting task may get as far as to
\* publish `cancelled'; a requester that dies does not.
Leave(r) ==
  /\ r \in world.mayGo /\ pc[r] \in Waiting
  /\ \/ Goto(r, "gone")
     \/ pc[r] \in {"subscribe", "listening"} /\ Goto(r, "publish")
  /\ todo' = [todo EXCEPT ![r] = {}]
  /\ inbox' = [inbox EXCEPT ![r] = <<>>]
  /\ UNCHANGED <<redis, chunks, answer, worker, served, dropped, world>>

\* Only a worker that serves the run and has subscribed is told.
PublishCancelled(r) ==
  /\ pc[r] = "publish"
  /\ Goto(r, "gone")
  /\ told' = [w \in Workers |-> told[w] \/ (hears[w] /\ job[w] = r)]
  /\ UNCHANGED <<redis, todo, inbox, chunks, answer, work, job, hears, leaving, served, dropped, world>>

-----------------------------------------------------------------------------
(* serve(): one run after the other, until shutdown.                       *)

SetupQueue(w) ==
  /\ w \in world.workers /\ work[w] = "setup"
  /\ group' = TRUE
  /\ work' = [work EXCEPT ![w] = "read"]
  /\ UNCHANGED <<stream, id, lastId, delivered, pending, old, key, requester, job, hears, told,
                 leaving, served, dropped, world>>

\* Mutant: the worker also reads what others have been delivered ('0' for '>').
NextMessageAgain == Oldest({r \in stream : id[r] > delivered \/ r \in pending})

NextMessage == Oldest({r \in stream : id[r] > delivered})

\* Mutants: what is delivered is not kept as pending (NOACK); a message that cannot be
\* validated ends serve().
DequeueWithoutPending(w) ==
  /\ work[w] = "read"
  /\ \E r \in NextMessage :
       /\ delivered' = id[r]
       /\ UNCHANGED pending
       /\ \/ /\ r \notin world.unreadable
             /\ work' = [work EXCEPT ![w] = "run"]
             /\ job' = [job EXCEPT ![w] = r]
             /\ served' = served \cup {r}
          \/ /\ r \in world.unreadable \/ leaving[w]
             /\ work' = [work EXCEPT ![w] = IF leaving[w] THEN "stopped" ELSE "read"]
             /\ UNCHANGED <<job, served>>
  /\ UNCHANGED <<group, stream, id, lastId, old, key, requester, hears, told, leaving, dropped,
                 world>>

DequeueOrFail(w) ==
  /\ work[w] = "read"
  /\ \E r \in NextMessage :
       /\ delivered' = id[r]
       /\ pending' = pending \cup {r}
       /\ \/ /\ r \notin world.unreadable
             /\ work' = [work EXCEPT ![w] = "run"]
             /\ job' = [job EXCEPT ![w] = r]
             /\ served' = served \cup {r}
          \/ /\ r \in world.unreadable \/ leaving[w]
             /\ work' = [work EXCEPT ![w] = "stopped"]
             /\ UNCHANGED <<job, served>>
  /\ UNCHANGED <<group, stream, id, lastId, old, key, requester, hears, told, leaving, dropped,
                 world>>

\* A message that cannot be validated stays pending, and so does one that the shutdown
\* cancels on its way to the worker.
Dequeue(w) ==
  /\ work[w] = "read"
  /\ \E r \in NextMessage :
       /\ delivered' = id[r]
       /\ pending' = pending \cup {r}
       /\ \/ /\ r \notin world.unreadable
             /\ work' = [work EXCEPT ![w] = "run"]
             /\ job' = [job EXCEPT ![w] = r]
             /\ served' = served \cup {r}
          \/ /\ r \in world.unreadable \/ leaving[w]
             /\ work' = [work EXCEPT ![w] = IF leaving[w] THEN "stopped" ELSE "read"]
             /\ UNCHANGED <<job, served>>
  /\ UNCHANGED <<group, stream, id, lastId, old, key, requester, hears, told, leaving, dropped,
                 world>>

ListenForCancel(w) ==
  /\ work[w] \in Serving /\ ~hears[w]
  /\ hears' = [hears EXCEPT ![w] = TRUE]
  /\ UNCHANGED <<redis, requester, work, job, told, leaving, served, dropped, world>>

LastChunk(r) == IF key[r] = None THEN 0 ELSE key[r].chunk

\* Mutant: the first chunk is stored for each.
StoreFirstChunk(w) ==
  /\ work[w] = "run" /\ LastChunk(job[w]) < world.maxChunks[job[w]]
  /\ key' = [key EXCEPT ![job[w]] = [chunk |-> 1, final |-> "no"]]
  /\ work' = [work EXCEPT ![w] = "partial"]
  /\ UNCHANGED <<group, stream, id, lastId, delivered, pending, old, requester, job, hears, told,
                 leaving, served, dropped, world>>

StoreChunk(w) ==
  /\ work[w] = "run" /\ LastChunk(job[w]) < world.maxChunks[job[w]]
  /\ key' = [key EXCEPT ![job[w]] = [chunk |-> LastChunk(job[w]) + 1, final |-> "no"]]
  /\ work' = [work EXCEPT ![w] = "partial"]
  /\ UNCHANGED <<group, stream, id, lastId, delivered, pending, old, requester, job, hears, told,
                 leaving, served, dropped, world>>

\* A result repeats the last chunk.  A run that has been told to cancel may still end
\* otherwise.
StoreResult(w) ==
  /\ work[w] = "run"
  /\ \E outcome \in {"value", "error"} \cup IF told[w] THEN {"cancelled"} ELSE {} :
       key' = [key EXCEPT ![job[w]] = [chunk |-> LastChunk(job[w]), final |-> outcome]]
  /\ work' = [work EXCEPT ![w] = "complete"]
  /\ UNCHANGED <<group, stream, id, lastId, delivered, pending, old, requester, job, hears, told,
                 leaving, served, dropped, world>>

Publish(r, message) ==
  inbox' = IF pc[r] = "listening" THEN [inbox EXCEPT ![r] = Append(@, message)] ELSE inbox

PublishPartial(w) ==
  /\ work[w] = "partial"
  /\ Publish(job[w], "partial")
  /\ work' = [work EXCEPT ![w] = "run"]
  /\ UNCHANGED <<redis, pc, todo, chunks, answer, job, hears, told, leaving, served, dropped, world>>

\* Mutants: another word on the channel; an exception is stored but not announced.
PublishFinal(w) ==
  /\ work[w] = "complete"
  /\ Publish(job[w], "final")
  /\ work' = [work EXCEPT ![w] = "ack"]
  /\ UNCHANGED <<redis, pc, todo, chunks, answer, job, hears, told, leaving, served, dropped, world>>

PublishValue(w) ==
  /\ work[w] = "complete"
  /\ IF key[job[w]].final = "value" THEN Publish(job[w], "complete") ELSE UNCHANGED inbox
  /\ work' = [work EXCEPT ![w] = "ack"]
  /\ UNCHANGED <<redis, pc, todo, chunks, answer, job, hears, told, leaving, served, dropped, world>>

PublishComplete(w) ==
  /\ work[w] = "complete"
  /\ Publish(job[w], "complete")
  /\ work' = [work EXCEPT ![w] = "ack"]
  /\ UNCHANGED <<redis, pc, todo, chunks, answer, job, hears, told, leaving, served, dropped, world>>

Acknowledge(w) ==
  /\ work[w] = "ack"
  /\ pending' = pending \ {job[w]}
  /\ work' = [work EXCEPT ![w] = IF leaving[w] THEN "stopped" ELSE "read"]
  /\ job' = [job EXCEPT ![w] = None]
  /\ hears' = [hears EXCEPT ![w] = FALSE]
  /\ told' = [told EXCEPT ![w] = FALSE]
  /\ UNCHANGED <<group, stream, id, lastId, delivered, old, key, requester, leaving, served, dropped, world>>

Shutdown(w) ==
  /\ w \in world.mortal /\ ~leaving[w] /\ work[w] # "stopped"
  /\ leaving' = [leaving EXCEPT ![w] = TRUE]
  /\ UNCHANGED <<redis, requester, work, job, hears, told, served, dropped, world>>

\* XREADGROUP blocks until the shutdown cancels it.
StopReading(w) ==
  /\ leaving[w] /\ work[w] = "read"
  /\ work' = [work EXCEPT ![w] = "stopped"]
  /\ UNCHANGED <<redis, requester, job, hears, told, leaving, served, dropped, world>>

Crash(w) ==
  /\ w \in world.mortal /\ work[w] # "stopped"
  /\ work' = [work EXCEPT ![w] = "stopped"]
  /\ job' = [job EXCEPT ![w] = None]
  /\ hears' = [hears EXCEPT ![w] = FALSE]
  /\ told' = [told EXCEPT ![w] = FALSE]
  /\ UNCHANGED <<redis, requester, leaving, served, dropped, world>>

\* Time passes for what has been delivered.
GrowOld ==
  /\ old < delivered
  /\ old' \in (old + 1)..delivered
  /\ UNCHANGED <<group, stream, id, lastId, delivered, pending, key, requester, worker, served, dropped, world>>

-----------------------------------------------------------------------------
Enqueue(r) ==
  \/ PendingRange(r) \/ AckStale(r) \/ DeleteStale(r)
  \/ OldestPending(r) \/ Trim(r) \/ Add(r)

Listen(r) == Subscribe(r) \/ ReceivePartial(r) \/ ReceiveComplete(r) \/ PublishCancelled(r)

Serve(w) ==
  \/ SetupQueue(w) \/ Dequeue(w) \/ ListenForCancel(w) \/ StoreChunk(w) \/ StoreResult(w)
  \/ PublishPartial(w) \/ PublishComplete(w) \/ Acknowledge(w) \/ StopReading(w)

Next ==
  \/ \E r \in Requests : Request(r) \/ Enqueue(r) \/ Listen(r) \/ Leave(r)
  \/ \E w \in Workers : Serve(w) \/ Shutdown(w) \/ Crash(w)
  \/ GrowOld

Spec == Init /\ [][Next]_vars

\* Redis answers, and the function of a served run ends: by itself, or because its deadline or
\* a cancellation reaches it, after which call() returns (TaskRun!Terminates).  A run that is
\* told to stop need not hear it (TaskRun!CancelHonoured), so this is assumed of the functions.
FairSpec ==
  /\ Spec
  /\ \A r \in Requests : WF_vars(Enqueue(r) \/ Listen(r))
  /\ \A w \in Workers : WF_vars(Serve(w))

-----------------------------------------------------------------------------
(* Properties. *)

\* Clean-ups of any number of requesters, each acting on what it has read before, leave in
\* the stream what is still to be delivered and what is delivered and not acknowledged.
NothingTrimmed == \A r \in Requests : id[r] > delivered \/ r \in pending => r \in stream

\* A message leaves the group only after the run's final result is stored, or as stale (which
\* it may become while it is served).
AckedWithResult ==
  \A r \in served \ (pending \cup dropped) : key[r] # None /\ key[r].final # "no"

\* The i-th message a listener receives gives it the i-th chunk or a later one, never an
\* earlier one than before, although chunks overwrite each other in one key.
ChunksInOrder ==
  \A r \in Requests : \A i \in 1..Len(chunks[r]) :
    /\ i <= chunks[r][i]
    /\ \A j \in 1..i : chunks[r][j] <= chunks[r][i]

Ended(r) == key[r] # None /\ key[r].final # "no"

\* What RemoteCall sees of a request.
CallerOf(r) == IF pc[r] \in Waiting THEN "waiting" ELSE IF pc[r] \in Gone THEN "gone" ELSE pc[r]
ServiceOf(r) == IF Ended(r) THEN "ended" ELSE IF r \in served THEN "serving"
                ELSE IF id[r] # 0 THEN "queued" ELSE "none"
OutcomeOf(r) == IF Ended(r) THEN key[r].final ELSE None

\* The stream, its group, the keys and the channels implement RemoteCall: crashed or stopped
\* workers and clean-ups lose runs but never serve one twice or mix up their answers.
Call == INSTANCE RemoteCall WITH
  caller <- [r \in Requests |-> CallerOf(r)],
  service <- [r \in Requests |-> ServiceOf(r)],
  outcome <- [r \in Requests |-> OutcomeOf(r)]
RemoteCallSpec == Call!CallSpec

\* One worker that stays, and whose functions end, is enough for everything in the queue to be
\* delivered, whatever the other workers and the clean-ups do and whoever leaves.
EventuallyDelivered ==
  lastId > delivered /\ world.workers \ world.mortal # {} ~> lastId = delivered

\* A requester that listens while a worker that stays serves its run hears from it.
Served(r) ==
  \E w \in world.workers \ world.mortal : job[w] = r /\ work[w] \in {"run", "partial", "complete"}
ListenersAnswered ==
  \A r \in Requests : pc[r] = "listening" /\ Served(r) ~> pc[r] # "listening"

\* Documented: a remote run can be awaited, and is answered.
EveryRequestAnswered == \A r \in Requests : id[r] # 0 ~> pc[r] = "answered"
=============================================================================
