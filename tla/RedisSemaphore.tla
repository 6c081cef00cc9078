--------------------------- MODULE RedisSemaphore ---------------------------
(***************************************************************************)
(* The distributed semaphore of filament/redis/semaphore.py.               *)
(*                                                                         *)
(* Redis holds three keys per semaphore name: the zset of lease holders    *)
(* (client -> expiry), the list of waiters and the zset of the waiters'    *)
(* heartbeats.  Every Lua script and every Redis command is atomic; a      *)
(* client moves from one to the next through its program counter pc, which *)
(* names the request it has in flight.  A client object acquires at most   *)
(* once (FilamentTaskRun builds one semaphore per try).                    *)
(*                                                                         *)
(* Time.  Scripts are given the caller's clock rounded to the tenth of a   *)
(* second, down (cleanup) or up (granting, heartbeats).  Every time here   *)
(* is relative to the present and counted in half grid steps, so `phase'   *)
(* (0: the present is on the grid, 1: half way) tells how rounding moves   *)
(* it.  Tick ages every remaining time by one.  A request runs with a      *)
(* clock reading up to MaxLag old.                                         *)
(***************************************************************************)
EXTENDS Integers, Sequences, FiniteSets, Functions

CONSTANTS
  Clients,         \* the semaphore objects, one client id each
  Nobody,          \* an empty answer of LINDEX
  MaxLeases,       \* max_leases
  Ttl,             \* ttl, in grid steps
  ExtendTtls,      \* the ttls given to extend(), where None means Ttl
  BeatTtl,         \* heartbeat_ttl, in grid steps
  BeatInterval,    \* heartbeat_interval, in grid steps
  MaxLag,          \* bound: how old a clock reading is when its script runs
  MaxExtends,      \* bound: calls to extend() per lease
  TimelyBeats,     \* TRUE: no client sends a heartbeat later than it is due
  MayStop          \* the clients that may be cancelled or may crash

ASSUME ClientsAssumption == IsFiniteSet(Clients) /\ Nobody \notin Clients /\ MayStop \subseteq Clients
ASSUME NumbersAssumption ==
  /\ MaxLeases \in Nat /\ Ttl \in Nat /\ ExtendTtls \subseteq Nat /\ BeatTtl \in Nat /\ BeatInterval \in Nat
  /\ MaxLag \in Nat /\ MaxExtends \in Nat
  /\ TimelyBeats \in BOOLEAN

VARIABLES
  phase,       \* 0 or 1: the present, modulo the grid
  holders,     \* zset semaphore:holders, remaining time of each lease
  heartbeats,  \* zset semaphore:heartbeats, remaining time of each heartbeat
  waiters,     \* list semaphore:waiters
  pc,          \* what each client does; a request's name while it is in flight
  alive,       \* FALSE once the client is cancelled or has crashed
  beating,     \* TRUE while a ZADD of the heartbeat task may still arrive
  front,       \* the first waiter a client has read
  deadline,    \* remaining time until the expiry a client has read, then until it wakes
  extends,     \* how often a client has called extend()
  promised     \* ghost: what remains of the ttl granted, from the clock reading on

vars == <<phase, holders, heartbeats, waiters, pc, alive, beating, front, deadline,
          extends, promised>>
redis == <<holders, heartbeats, waiters>>
local == <<alive, beating, front, deadline, extends, promised>>

-----------------------------------------------------------------------------
(* The clock: now() and now(ceil=True) of a reading x half steps from now. *)

Lags == {-x : x \in 0..MaxLag}
\* Mutant: cleanup is given now(ceil=True).
FloorUp(x) == x + ((phase + x) % 2)

Floor(x) == x - ((phase + x) % 2)
\* Mutant: leases are granted from now().
CeilDown(x) == x - ((phase + x) % 2)

Ceil(x) == x + ((phase + x) % 2)

\* A remaining time a half step later.  Below `least' nothing tells times apart.
Age(x, least) == IF x > least THEN x - 1 ELSE least
Oldest == -(MaxLag + 2)

(* Redis zsets are functions from members to scores. *)

IsZset(z) == DOMAIN z \subseteq Clients /\ z \in [DOMAIN z -> Int]

\* Mutant: ZADD with its score and its member swapped.
ZAddSwapped(z, m, score) == [x \in DOMAIN z \cup {score} |-> IF x = score THEN m ELSE z[x]]

ZAdd(z, m, score) == [x \in DOMAIN z \cup {m} |-> IF x = m THEN score ELSE z[x]]
ZRem(z, m) == Restrict(z, DOMAIN z \ {m})
ZRemRangeByScore(z, max) == Restrict(z, {m \in DOMAIN z : z[m] > max})
Earliest(z) == {m \in DOMAIN z : \A n \in DOMAIN z : z[m] <= z[n]}   \* ZRANGE 0 0

\* The Lua loop pops waiters off the front until one has a heartbeat.
SilentFront(w, live) == {k \in 1..Len(w) : \A j \in 1..k : w[j] \notin live}
\* Mutants: the loop never pops; it pops once more after it finds a heartbeat.
DropNobody(w, live) == w
DropOneMore(w, live) == SubSeq(w, Cardinality(SilentFront(w, live)) + 2, Len(w))

DropSilent(w, live) == SubSeq(w, Cardinality(SilentFront(w, live)) + 1, Len(w))

-----------------------------------------------------------------------------
Acquiring == {"ensure", "cleanup", "acquire", "peekHolders", "peekFront", "peekBeat",
              "subscribe", "waiting"}
Inside == {"critical", "extend"}
\* Requests that change Redis: one that is sent may run after its client is gone.
InFlight == {"ensure", "cleanup", "acquire", "extend", "release", "publish"}
Ended == {"idle", "done", "failed", "stopped"}

\* The next request of a client that lives to see the reply.
Goto(c, label) == pc' = [pc EXCEPT ![c] = IF alive[c] THEN label ELSE "stopped"]

TypeOK ==
  /\ phase \in {0, 1}
  /\ IsZset(holders) /\ IsZset(heartbeats)
  /\ waiters \in Seq(Clients)
  /\ pc \in [Clients -> Acquiring \cup Inside \cup InFlight \cup Ended]
  /\ alive \in [Clients -> BOOLEAN]
  /\ beating \in [Clients -> BOOLEAN]
  /\ front \in [Clients -> Clients \cup {Nobody}]
  /\ deadline \in [Clients -> Int]
  /\ extends \in [Clients -> Nat]
  /\ promised \in [Clients -> Nat]

Init ==
  /\ phase \in {0, 1}
  /\ holders = <<>> /\ heartbeats = <<>> /\ waiters = <<>>
  /\ pc = [c \in Clients |-> "idle"]
  /\ alive = [c \in Clients |-> TRUE]
  /\ beating = [c \in Clients |-> FALSE]
  /\ front = [c \in Clients |-> Nobody]
  /\ deadline = [c \in Clients |-> 0]
  /\ extends = [c \in Clients |-> 0]
  /\ promised = [c \in Clients |-> 0]

-----------------------------------------------------------------------------
(* acquire(): a task group runs the heartbeat loop beside _acquire. *)

Start(c) ==
  /\ pc[c] = "idle"
  /\ pc' = [pc EXCEPT ![c] = "ensure"]
  /\ beating' = [beating EXCEPT ![c] = TRUE]
  /\ UNCHANGED <<phase, redis, alive, front, deadline, extends, promised>>

\* The loop sleeps heartbeat_interval after each ZADD; the first is sent at once.
BeatDue(c) ==
  c \in DOMAIN heartbeats => heartbeats[c] <= 2 * (BeatTtl - BeatInterval)

HeartbeatLoops(c) == alive[c] /\ pc[c] \in Acquiring

Heartbeat(c) ==
  /\ HeartbeatLoops(c) /\ BeatDue(c)
  /\ \E lag \in Lags : heartbeats' = ZAdd(heartbeats, c, Ceil(lag) + 2 * BeatTtl)
  /\ UNCHANGED <<phase, holders, waiters, pc, local>>

\* The loop is cancelled with a ZADD in flight, which arrives later or never.
LastHeartbeat(c) ==
  /\ beating[c] /\ ~HeartbeatLoops(c)
  /\ beating' = [beating EXCEPT ![c] = FALSE]
  /\ \/ \E lag \in Lags : heartbeats' = ZAdd(heartbeats, c, Ceil(lag) + 2 * BeatTtl)
     \/ UNCHANGED heartbeats
  /\ UNCHANGED <<phase, holders, waiters, pc, alive, front, deadline, extends, promised>>

\* Mutant: the script does not look for the client before RPUSH.
EnqueueAgain(c) ==
  /\ pc[c] = "ensure"
  /\ waiters' = Append(waiters, c)
  /\ Goto(c, "cleanup")
  /\ UNCHANGED <<phase, holders, heartbeats, local>>

EnsureInQueue(c) ==
  /\ pc[c] = "ensure"
  /\ waiters' = IF c \in Range(waiters) THEN waiters ELSE Append(waiters, c)
  /\ Goto(c, "cleanup")
  /\ UNCHANGED <<phase, holders, heartbeats, local>>

CleanupStaleClients(c) ==
  /\ pc[c] = "cleanup"
  /\ \E lag \in Lags :
       /\ holders' = ZRemRangeByScore(holders, Floor(lag))
       /\ heartbeats' = ZRemRangeByScore(heartbeats, Floor(lag))
  /\ waiters' = DropSilent(waiters, DOMAIN heartbeats')
  /\ Goto(c, "acquire")
  /\ UNCHANGED <<phase, local>>

\* Mutant: ZCARD compared with > for >=.
CanAcquireOneMore(c) ==
  /\ waiters # <<>> /\ Head(waiters) = c
  /\ Cardinality(DOMAIN holders) <= MaxLeases

CanAcquire(c) ==
  /\ waiters # <<>> /\ Head(waiters) = c
  /\ Cardinality(DOMAIN holders) < MaxLeases

\* What is left of a ttl that runs from a clock reading `lag' ago.
Promise(lag, ttl) == IF lag + 2 * ttl > 0 THEN lag + 2 * ttl ELSE 0

AcquireAndDequeue(c) ==
  /\ pc[c] = "acquire"
  /\ CanAcquire(c)
  /\ \E lag \in Lags :
       /\ holders' = ZAdd(holders, c, Ceil(lag) + 2 * Ttl)
       /\ promised' = [promised EXCEPT ![c] = IF alive[c] THEN Promise(lag, Ttl) ELSE 0]
  /\ waiters' = Tail(waiters)
  /\ heartbeats' = ZRem(heartbeats, c)
  /\ Goto(c, "critical")
  /\ UNCHANGED <<phase, alive, beating, front, deadline, extends>>

AcquireRefused(c) ==
  /\ pc[c] = "acquire"
  /\ ~CanAcquire(c)
  /\ Goto(c, "peekHolders")
  /\ UNCHANGED <<phase, redis, local>>

-----------------------------------------------------------------------------
(* _wait_for_release_or_expiry(): up to three reads, then a subscription.  *)

PeekHolders(c) ==
  /\ pc[c] = "peekHolders"
  /\ IF holders = <<>>
     THEN /\ Goto(c, "peekFront")
          /\ UNCHANGED deadline
     ELSE /\ \E h \in Earliest(holders) : deadline' = [deadline EXCEPT ![c] = holders[h]]
          /\ Goto(c, "subscribe")
  /\ UNCHANGED <<phase, redis, alive, beating, front, extends, promised>>

PeekFront(c) ==
  /\ pc[c] = "peekFront"
  /\ IF waiters = <<>> \/ Head(waiters) = c
     THEN /\ Goto(c, "ensure")
          /\ UNCHANGED front
     ELSE /\ front' = [front EXCEPT ![c] = Head(waiters)]
          /\ Goto(c, "peekBeat")
  /\ UNCHANGED <<phase, redis, alive, beating, deadline, extends, promised>>

PeekBeat(c) ==
  /\ pc[c] = "peekBeat"
  /\ front' = [front EXCEPT ![c] = Nobody]
  /\ IF front[c] \in DOMAIN heartbeats
     THEN /\ deadline' = [deadline EXCEPT ![c] = heartbeats[front[c]]]
          /\ Goto(c, "subscribe")
     ELSE /\ Goto(c, "ensure")
          /\ UNCHANGED deadline
  /\ UNCHANGED <<phase, redis, alive, beating, extends, promised>>

\* delay = max(expiry_time - now(), heartbeat_interval), from the subscription on.
Subscribe(c) ==
  /\ pc[c] = "subscribe"
  /\ LET remaining == deadline[c] - Floor(0)
         interval == 2 * BeatInterval
     IN  deadline' = [deadline EXCEPT ![c] = IF remaining > interval THEN remaining ELSE interval]
  /\ Goto(c, "waiting")
  /\ UNCHANGED <<phase, redis, alive, beating, front, extends, promised>>

WaitTimeout(c) ==
  /\ pc[c] = "waiting"
  /\ deadline[c] <= 0
  /\ deadline' = [deadline EXCEPT ![c] = 0]
  /\ Goto(c, "ensure")
  /\ UNCHANGED <<phase, redis, alive, beating, front, extends, promised>>

-----------------------------------------------------------------------------
(* The caller inside `async with semaphore', extend() and release().       *)

Leave(c) ==
  /\ pc[c] = "critical"
  /\ pc' = [pc EXCEPT ![c] = "release"]
  /\ promised' = [promised EXCEPT ![c] = 0]
  /\ UNCHANGED <<phase, redis, alive, beating, front, deadline, extends>>

BeginExtend(c) ==
  /\ pc[c] = "critical"
  /\ extends[c] < MaxExtends
  /\ extends' = [extends EXCEPT ![c] = @ + 1]
  /\ pc' = [pc EXCEPT ![c] = "extend"]
  /\ UNCHANGED <<phase, redis, alive, beating, front, deadline, promised>>

\* Mutant: ZADD without looking whether the client is still a holder.
ExtendAnyway(c) ==
  /\ pc[c] = "extend"
  /\ \E lag \in Lags, ttl \in ExtendTtls :
       /\ holders' = ZAdd(holders, c, Ceil(lag) + 2 * ttl)
       /\ promised' = [promised EXCEPT ![c] = IF alive[c] THEN Promise(lag, ttl) ELSE 0]
  /\ Goto(c, "critical")
  /\ UNCHANGED <<phase, heartbeats, waiters, alive, beating, front, deadline, extends>>

\* A failed extend raises, and the exception leaves the `async with'.
ExtendClient(c) ==
  /\ pc[c] = "extend"
  /\ IF c \in DOMAIN holders
     THEN /\ \E lag \in Lags, ttl \in ExtendTtls :
               /\ holders' = ZAdd(holders, c, Ceil(lag) + 2 * ttl)
               /\ promised' = [promised EXCEPT ![c] = IF alive[c] THEN Promise(lag, ttl) ELSE 0]
          /\ Goto(c, "critical")
     ELSE /\ promised' = [promised EXCEPT ![c] = 0]
          /\ Goto(c, "release")
          /\ UNCHANGED holders
  /\ UNCHANGED <<phase, heartbeats, waiters, alive, beating, front, deadline, extends>>

RemoveClient(c) ==
  /\ pc[c] = "release"
  /\ holders' = ZRem(holders, c)
  /\ Goto(c, IF c \in DOMAIN holders THEN "publish" ELSE "failed")
  /\ UNCHANGED <<phase, heartbeats, waiters, local>>

\* Only clients that are subscribed by now receive the message.
Publish(c) ==
  /\ pc[c] = "publish"
  /\ pc' = [d \in Clients |-> IF d = c THEN (IF alive[c] THEN "done" ELSE "stopped")
                              ELSE IF pc[d] = "waiting" THEN "ensure" ELSE pc[d]]
  /\ deadline' = [d \in Clients |-> IF pc[d] = "waiting" THEN 0 ELSE deadline[d]]
  /\ UNCHANGED <<phase, redis, alive, beating, front, extends, promised>>

-----------------------------------------------------------------------------
(* The environment: a client is cancelled, loses its connection or dies at *)
(* any await.  A request in flight is lost or still runs.  A cancelled     *)
(* `async with' sends the release script but is cancelled again before it  *)
(* can publish.                                                            *)

Stop(c) ==
  /\ c \in MayStop /\ alive[c] /\ pc[c] \notin Ended
  /\ alive' = [alive EXCEPT ![c] = FALSE]
  /\ \/ pc' = [pc EXCEPT ![c] = "stopped"]
     \/ pc[c] \in InFlight /\ UNCHANGED pc
     \/ pc[c] \in Inside /\ pc' = [pc EXCEPT ![c] = "release"]
  /\ front' = [front EXCEPT ![c] = Nobody]
  /\ deadline' = [deadline EXCEPT ![c] = 0]
  /\ promised' = [promised EXCEPT ![c] = 0]
  /\ UNCHANGED <<phase, redis, beating, extends>>

Tick ==
  /\ TimelyBeats => \A c \in Clients : HeartbeatLoops(c) => ~BeatDue(c)
  /\ phase' = 1 - phase
  /\ holders' = [c \in DOMAIN holders |-> Age(holders[c], Oldest)]
  /\ heartbeats' = [c \in DOMAIN heartbeats |-> Age(heartbeats[c], Oldest)]
  /\ deadline' = [c \in Clients |-> Age(deadline[c], 0)]
  /\ promised' = [c \in Clients |-> Age(promised[c], 0)]
  /\ UNCHANGED <<waiters, pc, alive, beating, front, extends>>

-----------------------------------------------------------------------------
\* The steps a client takes unless it is stuck: everything but its caller's choices.
Step(c) ==
  \/ EnsureInQueue(c) \/ CleanupStaleClients(c)
  \/ AcquireAndDequeue(c) \/ AcquireRefused(c)
  \/ PeekHolders(c) \/ PeekFront(c) \/ PeekBeat(c) \/ Subscribe(c) \/ WaitTimeout(c)
  \/ ExtendClient(c) \/ RemoveClient(c) \/ Publish(c)

Next ==
  \/ Tick
  \/ \E c \in Clients :
       \/ Start(c) \/ Heartbeat(c) \/ LastHeartbeat(c)
       \/ Step(c) \/ Leave(c) \/ BeginExtend(c) \/ Stop(c)

Spec == Init /\ [][Next]_vars

Fairness ==
  /\ WF_vars(Tick)
  /\ \A c \in Clients : WF_vars(Step(c)) /\ WF_vars(Heartbeat(c))

FairSpec == Spec /\ Fairness

-----------------------------------------------------------------------------
(* Properties. *)

Working(c) == pc[c] \in Inside /\ promised[c] > 0

\* Redis never records more than max_leases holders, whatever extends,
\* stale scripts of dead clients and expiries do to the zset.
LeaseCapacity == Cardinality(DOMAIN holders) <= MaxLeases

\* A caller with some of its ttl left is alive, inside, and recorded as a holder for at
\* least as long: no cleanup by another client, with a clock read at another time and
\* rounded the other way, takes a lease early.
LeaseHonoured ==
  \A c \in Clients :
    promised[c] > 0 => /\ pc[c] \in Inside /\ alive[c]
                       /\ c \in DOMAIN holders /\ promised[c] <= holders[c]

\* At most max_leases callers are inside `async with semaphore' within their ttl.
MutualExclusion == Cardinality({c \in Clients : Working(c)}) <= MaxLeases

\* A client stands in the queue at most once and never while it holds a lease, which it
\* does not while it is acquiring one: no place and no lease is taken up twice.
OnePlace ==
  /\ \A i, j \in 1..Len(waiters) : waiters[i] = waiters[j] => i = j
  /\ Range(waiters) \cap DOMAIN holders = {}
  /\ \A c \in DOMAIN holders : pc[c] \notin Acquiring \cup {"idle"}

Before(c, d) == \E i, j \in 1..Len(waiters) : i < j /\ waiters[i] = c /\ waiters[j] = d
Beating(c) == c \in DOMAIN heartbeats /\ heartbeats[c] > 0

\* First come, first served: a waiter whose heartbeat has not run out stays ahead of
\* everyone behind it until it is itself given a lease.
KeepsPlace ==
  [][\A c, d \in Clients : Before(c, d) /\ Beating(c) => Before(c, d)' \/ c \in DOMAIN holders']_vars

\* The callers inside, and those of them whose ttl has run out, behave as the
\* lease pool of LeasePool allows.
Inhabitants == {c \in Clients : alive[c] /\ pc[c] \in Inside}
Lapsed == {c \in Inhabitants : promised[c] = 0}
Pool == INSTANCE LeasePool WITH inside <- Inhabitants, lapsed <- Lapsed
LeasePoolSpec == Pool!PoolSpec

\* Nobody waits for ever: a client that is not cancelled gets its lease although
\* holders and waiters ahead of it crash, leak leases or are never woken, and
\* whether or not a caller ever leaves.
EventuallyServed ==
  \A c \in Clients : pc[c] \in Acquiring ~> pc[c] \notin Acquiring
=============================================================================
