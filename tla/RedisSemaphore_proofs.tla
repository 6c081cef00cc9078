----------------------- MODULE RedisSemaphore_proofs -----------------------
(* Theorems about RedisSemaphore, for every value of its constants.        *)
EXTENDS RedisSemaphore, FiniteSetTheorems, SequenceTheorems, TLAPS

-----------------------------------------------------------------------------
(* Rounding, ageing and zset commands.                                     *)

\* Rounding a clock reading stays on its side of it.
LEMMA Rounding ==
  ASSUME phase \in {0, 1}, NEW x \in Int
  PROVE  /\ Floor(x) \in Int /\ Floor(x) <= x
         /\ Ceil(x) \in Int /\ x <= Ceil(x)
<1>1. (phase + x) % 2 \in 0..1
  OBVIOUS
<1>2. QED
  BY <1>1 DEF Floor, Ceil

\* Clock readings are never in the future.
LEMMA LagsType == Lags \subseteq Int /\ \A lag \in Lags : lag <= 0
BY NumbersAssumption DEF Lags

\* A Tick moves times by at most one half step, and none beyond its floor.
LEMMA Ageing ==
  ASSUME NEW x \in Int, NEW least \in Int
  PROVE  /\ Age(x, least) \in Int
         /\ least <= Age(x, least)
         /\ \A y \in Int : x <= y => Age(x, least) <= Age(y, least)
BY DEF Age

\* ZADD sets one member's score and leaves the others alone.
LEMMA ZAddFacts ==
  ASSUME NEW z, IsZset(z),
         NEW m \in Clients, NEW score \in Int
  PROVE  /\ DOMAIN ZAdd(z, m, score) = DOMAIN z \cup {m}
         /\ IsZset(ZAdd(z, m, score))
         /\ ZAdd(z, m, score)[m] = score
         /\ \A x \in DOMAIN z : x # m => ZAdd(z, m, score)[x] = z[x]
BY DEF ZAdd, IsZset

\* ZREM and ZREMRANGEBYSCORE remove members and change no score.
LEMMA ZRemFacts ==
  ASSUME NEW z, IsZset(z), NEW m
  PROVE  /\ DOMAIN ZRem(z, m) = DOMAIN z \ {m}
         /\ IsZset(ZRem(z, m))
         /\ \A x \in DOMAIN z : x # m => ZRem(z, m)[x] = z[x]
BY DEF ZRem, Restrict, IsZset

\* ZREMRANGEBYSCORE keeps exactly the members with a greater score.
LEMMA ZRemRangeFacts ==
  ASSUME NEW z, IsZset(z), NEW max \in Int
  PROVE  /\ DOMAIN ZRemRangeByScore(z, max) = {x \in DOMAIN z : z[x] > max}
         /\ IsZset(ZRemRangeByScore(z, max))
         /\ \A x \in DOMAIN ZRemRangeByScore(z, max) : ZRemRangeByScore(z, max)[x] = z[x]
BY DEF ZRemRangeByScore, Restrict, IsZset

\* The pop loop of the cleanup script stops, and leaves a suffix of the queue.
LEMMA DropSilentFacts ==
  ASSUME NEW w \in Seq(Clients), NEW live
  PROVE  DropSilent(w, live) \in Seq(Clients)
<1>1. /\ IsFiniteSet(1..Len(w)) /\ Cardinality(1..Len(w)) = Len(w)
      /\ SilentFront(w, live) \subseteq 1..Len(w)
  <2>1. Len(w) \in Nat
    OBVIOUS
  <2>2. IsFiniteSet(1..Len(w)) /\ Cardinality(1..Len(w)) = Len(w)
    BY <2>1, FS_Interval
  <2>3. QED
    BY <2>2 DEF SilentFront
<1>2. Cardinality(SilentFront(w, live)) \in 0..Len(w)
  <2>1. IsFiniteSet(SilentFront(w, live)) /\ Cardinality(SilentFront(w, live)) <= Len(w)
    BY <1>1, FS_Subset
  <2>2. Cardinality(SilentFront(w, live)) \in Nat
    BY <2>1, FS_CardinalityType
  <2>3. QED
    BY <2>1, <2>2
<1> DEFINE k == Cardinality(SilentFront(w, live)) + 1
<1>3. SUFFICES SubSeq(w, k, Len(w)) \in Seq(Clients)
  BY DEF DropSilent
<1>4. /\ k \in Int /\ Len(w) \in Int
      /\ \A i \in k .. Len(w) : w[i] \in Clients
  BY <1>2
<1> HIDE DEF k
<1>5. QED
  BY <1>4, SubSeqProperties

-----------------------------------------------------------------------------
(* Type correctness. *)

\* The empty keys and the idle clients of Init have their types.
LEMMA TypeInit == Init => TypeOK
<1> SUFFICES ASSUME Init PROVE TypeOK
  OBVIOUS
<1>1. /\ holders = <<>> /\ DOMAIN holders = {} /\ heartbeats = <<>> /\ DOMAIN heartbeats = {}
  BY DEF Init
<1>2. QED
  BY <1>1, ClientsAssumption DEF Init, TypeOK, IsZset, Acquiring, Inside, InFlight, Ended

\* Every client's next program counter has a name.
LEMMA GotoType ==
  ASSUME TypeOK, NEW c \in Clients, NEW label \in Acquiring \cup Inside \cup InFlight \cup Ended,
         Goto(c, label)
  PROVE  pc' \in [Clients -> Acquiring \cup Inside \cup InFlight \cup Ended]
BY DEF TypeOK, Goto, Ended

\* Every script, command, crash and Tick keeps every variable's type.
LEMMA TypeNext == TypeOK /\ [Next]_vars => TypeOK'
<1> SUFFICES ASSUME TypeOK, [Next]_vars PROVE TypeOK'
  OBVIOUS
<1> USE ClientsAssumption, NumbersAssumption
<1> DEFINE Labels == Acquiring \cup Inside \cup InFlight \cup Ended
<1>t. phase \in {0, 1} /\ phase \in Int
  BY DEF TypeOK
<1>l. \A label \in Acquiring \cup InFlight \cup Inside \cup Ended : label \in Labels
  OBVIOUS
<1>b. ASSUME NEW c \in Clients, NEW lag \in Lags
      PROVE  IsZset(ZAdd(heartbeats, c, Ceil(lag) + 2 * BeatTtl))
  <2>1. Ceil(lag) + 2 * BeatTtl \in Int
    BY <1>t, Rounding, LagsType
  <2>2. QED
    BY <2>1, ZAddFacts DEF TypeOK
<1>h. ASSUME NEW c \in Clients, NEW lag \in Lags, NEW ttl \in Nat
      PROVE  IsZset(ZAdd(holders, c, Ceil(lag) + 2 * ttl)) /\ Promise(lag, ttl) \in Nat
  <2>1. Ceil(lag) + 2 * ttl \in Int /\ lag \in Int
    BY <1>t, Rounding, LagsType
  <2>2. IsZset(ZAdd(holders, c, Ceil(lag) + 2 * ttl))
    BY <2>1, ZAddFacts DEF TypeOK
  <2>3. Promise(lag, ttl) \in Nat
    BY <2>1 DEF Promise
  <2>4. QED
    BY <2>2, <2>3
<1>1. ASSUME NEW c \in Clients, Start(c) PROVE TypeOK'
  BY <1>1 DEF TypeOK, Start, redis, Acquiring
<1>2. ASSUME NEW c \in Clients, Heartbeat(c) PROVE TypeOK'
  BY <1>2, <1>b DEF TypeOK, Heartbeat, local
<1>3. ASSUME NEW c \in Clients, LastHeartbeat(c) PROVE TypeOK'
  BY <1>3, <1>b DEF TypeOK, LastHeartbeat
<1>4. ASSUME NEW c \in Clients, EnsureInQueue(c) PROVE TypeOK'
  <2>1. pc' \in [Clients -> Labels]
    BY <1>4, GotoType DEF EnsureInQueue, Acquiring
  <2>2. waiters' \in Seq(Clients)
    BY <1>4 DEF EnsureInQueue, TypeOK
  <2>3. QED
    BY <1>4, <2>1, <2>2 DEF TypeOK, EnsureInQueue, local
<1>5. ASSUME NEW c \in Clients, CleanupStaleClients(c) PROVE TypeOK'
  <2>1. pc' \in [Clients -> Labels]
    BY <1>5, GotoType DEF CleanupStaleClients, Acquiring
  <2>2. waiters' \in Seq(Clients)
    BY <1>5, DropSilentFacts DEF CleanupStaleClients, TypeOK
  <2>3. PICK lag \in Lags : /\ holders' = ZRemRangeByScore(holders, Floor(lag))
                            /\ heartbeats' = ZRemRangeByScore(heartbeats, Floor(lag))
    BY <1>5 DEF CleanupStaleClients
  <2>4. Floor(lag) \in Int
    BY <1>t, Rounding, LagsType
  <2>5. IsZset(holders)' /\ IsZset(heartbeats)'
    BY <2>3, <2>4, ZRemRangeFacts DEF TypeOK
  <2>6. QED
    BY <1>5, <2>1, <2>2, <2>5 DEF TypeOK, CleanupStaleClients, local
<1>6. ASSUME NEW c \in Clients, AcquireAndDequeue(c) PROVE TypeOK'
  <2>1. pc' \in [Clients -> Labels]
    BY <1>6, GotoType DEF AcquireAndDequeue, Inside
  <2>2. waiters' \in Seq(Clients)
    BY <1>6 DEF AcquireAndDequeue, CanAcquire, TypeOK
  <2>3. IsZset(heartbeats)'
    BY <1>6, ZRemFacts DEF AcquireAndDequeue, TypeOK
  <2>4. IsZset(holders)' /\ promised' \in [Clients -> Nat]
    <3>1. PICK lag \in Lags :
            /\ holders' = ZAdd(holders, c, Ceil(lag) + 2 * Ttl)
            /\ promised' = [promised EXCEPT ![c] = IF alive[c] THEN Promise(lag, Ttl) ELSE 0]
      BY <1>6 DEF AcquireAndDequeue
    <3>2. IsZset(ZAdd(holders, c, Ceil(lag) + 2 * Ttl)) /\ Promise(lag, Ttl) \in Nat
      BY <1>h
    <3>3. QED
      BY <3>1, <3>2 DEF TypeOK
  <2>5. QED
    BY <1>6, <2>1, <2>2, <2>3, <2>4 DEF TypeOK, AcquireAndDequeue
<1>7. ASSUME NEW c \in Clients, AcquireRefused(c) PROVE TypeOK'
  <2>1. pc' \in [Clients -> Labels]
    BY <1>7, GotoType DEF AcquireRefused, Acquiring
  <2>2. QED
    BY <1>7, <2>1 DEF TypeOK, AcquireRefused, redis, local
<1>8. ASSUME NEW c \in Clients, PeekHolders(c) PROVE TypeOK'
  <2>1. pc' \in [Clients -> Labels]
    BY <1>8, GotoType DEF PeekHolders, Acquiring
  <2>2. QED
    BY <1>8, <2>1 DEF TypeOK, PeekHolders, Earliest, IsZset, redis
<1>9. ASSUME NEW c \in Clients, PeekFront(c) PROVE TypeOK'
  <2>1. pc' \in [Clients -> Labels]
    BY <1>9, GotoType DEF PeekFront, Acquiring
  <2>2. waiters # <<>> => Head(waiters) \in Clients
    BY DEF TypeOK
  <2>3. QED
    BY <1>9, <2>1, <2>2 DEF TypeOK, PeekFront, redis
<1>10. ASSUME NEW c \in Clients, PeekBeat(c) PROVE TypeOK'
  <2>1. pc' \in [Clients -> Labels]
    BY <1>10, GotoType DEF PeekBeat, Acquiring
  <2>2. QED
    BY <1>10, <2>1 DEF TypeOK, PeekBeat, IsZset, redis
<1>11. ASSUME NEW c \in Clients, Subscribe(c) PROVE TypeOK'
  <2>1. pc' \in [Clients -> Labels]
    BY <1>11, GotoType DEF Subscribe, Acquiring
  <2>2. deadline[c] - Floor(0) \in Int /\ 2 * BeatInterval \in Int
    BY <1>t, Rounding DEF TypeOK
  <2>3. QED
    BY <1>11, <2>1, <2>2 DEF TypeOK, Subscribe, redis
<1>12. ASSUME NEW c \in Clients, WaitTimeout(c) PROVE TypeOK'
  <2>1. pc' \in [Clients -> Labels]
    BY <1>12, GotoType DEF WaitTimeout, Acquiring
  <2>2. deadline' \in [Clients -> Int]
    BY <1>12 DEF WaitTimeout, TypeOK
  <2>3. QED
    BY <1>12, <2>1, <2>2 DEF TypeOK, WaitTimeout, redis
<1>13. ASSUME NEW c \in Clients, Leave(c) PROVE TypeOK'
  BY <1>13 DEF TypeOK, Leave, redis, InFlight
<1>14. ASSUME NEW c \in Clients, BeginExtend(c) PROVE TypeOK'
  BY <1>14 DEF TypeOK, BeginExtend, redis, Inside
<1>15. ASSUME NEW c \in Clients, ExtendClient(c) PROVE TypeOK'
  <2>1. pc' \in [Clients -> Labels]
    BY <1>15, GotoType DEF ExtendClient, Inside, InFlight
  <2>2. IsZset(holders')
    BY <1>15, <1>h DEF ExtendClient, TypeOK
  <2>3. promised' \in [Clients -> Nat]
    <3>1. \E n \in Nat : promised' = [promised EXCEPT ![c] = n]
      BY <1>15, <1>h DEF ExtendClient
    <3>2. QED
      BY <3>1 DEF TypeOK
  <2>4. QED
    BY <1>15, <2>1, <2>2, <2>3 DEF TypeOK, ExtendClient
<1>16. ASSUME NEW c \in Clients, RemoveClient(c) PROVE TypeOK'
  <2>1. pc' \in [Clients -> Labels]
    BY <1>16, GotoType DEF RemoveClient, InFlight, Ended
  <2>2. IsZset(holders)'
    BY <1>16, ZRemFacts DEF RemoveClient, TypeOK
  <2>3. QED
    BY <1>16, <2>1, <2>2 DEF TypeOK, RemoveClient, local
<1>17. ASSUME NEW c \in Clients, Publish(c) PROVE TypeOK'
  BY <1>17 DEF TypeOK, Publish, redis, Ended, Acquiring
<1>18. ASSUME NEW c \in Clients, Stop(c) PROVE TypeOK'
  <2>1. pc' \in [Clients -> Labels]
    BY <1>18 DEF Stop, TypeOK, Ended, InFlight
  <2>2. /\ UNCHANGED <<phase, holders, heartbeats, waiters, beating, extends>>
        /\ alive' \in [Clients -> BOOLEAN] /\ front' \in [Clients -> Clients \cup {Nobody}]
        /\ deadline' \in [Clients -> Int] /\ promised' \in [Clients -> Nat]
    BY <1>18 DEF Stop, TypeOK, redis
  <2>3. QED
    BY <2>1, <2>2 DEF TypeOK
<1>19. ASSUME Tick PROVE TypeOK'
  <2>1. Oldest \in Int
    BY DEF Oldest
  <2>2. \A x \in Nat : Age(x, 0) \in Nat
    BY DEF Age
  <2>3. IsZset(holders)' /\ IsZset(heartbeats)'
    BY <1>19, <2>1, Ageing DEF TypeOK, Tick, IsZset
  <2>4. /\ phase' \in {0, 1}
        /\ deadline' \in [Clients -> Int]
        /\ promised' \in [Clients -> Nat]
    <3>1. phase' \in {0, 1}
      BY <1>19, <1>t DEF Tick
    <3>2. deadline' \in [Clients -> Int]
      BY <1>19, Ageing DEF TypeOK, Tick
    <3>3. promised' \in [Clients -> Nat]
      BY <1>19, <2>2 DEF TypeOK, Tick
    <3>4. QED
      BY <3>1, <3>2, <3>3
  <2>5. QED
    BY <1>19, <2>3, <2>4 DEF TypeOK, Tick
<1>20. CASE UNCHANGED vars
  BY <1>20 DEF TypeOK, vars
<1>21. QED
  BY <1>1, <1>2, <1>3, <1>4, <1>5, <1>6, <1>7, <1>8, <1>9, <1>10, <1>11, <1>12, <1>13, <1>14,
     <1>15, <1>16, <1>17, <1>18, <1>19, <1>20 DEF Next, Step

\* Every variable keeps its type.
THEOREM TypeCorrect == Spec => []TypeOK
BY TypeInit, TypeNext, PTL DEF Spec

-----------------------------------------------------------------------------
(* Capacity: the zset of holders never outgrows max_leases. *)

\* The holders are clients, so ZCARD counts a finite set.
LEMMA HoldersFinite ==
  ASSUME IsZset(holders)
  PROVE  IsFiniteSet(DOMAIN holders) /\ Cardinality(DOMAIN holders) \in Nat
BY ClientsAssumption, FS_Subset, FS_CardinalityType DEF IsZset

\* A lease is granted, or extended, for at least the ttl from the clock reading on.
LEMMA GrantFacts ==
  ASSUME TypeOK, NEW c \in Clients, NEW lag \in Lags, NEW ttl \in Nat,
         holders' = ZAdd(holders, c, Ceil(lag) + 2 * ttl)
  PROVE  /\ DOMAIN holders' = DOMAIN holders \cup {c}
         /\ Promise(lag, ttl) > 0 => Promise(lag, ttl) <= holders'[c]
         /\ \A x \in DOMAIN holders : x # c => holders'[x] = holders[x]
<1>1. lag \in Int /\ Ceil(lag) \in Int /\ lag <= Ceil(lag) /\ ttl \in Int
  BY LagsType, Rounding, NumbersAssumption DEF TypeOK
<1>2. Ceil(lag) + 2 * ttl \in Int /\ IsZset(holders)
  BY <1>1 DEF TypeOK
<1> DEFINE score == Ceil(lag) + 2 * ttl
<1>3. /\ DOMAIN ZAdd(holders, c, score) = DOMAIN holders \cup {c}
      /\ ZAdd(holders, c, score)[c] = score
      /\ \A x \in DOMAIN holders : x # c => ZAdd(holders, c, score)[x] = holders[x]
  <2> HIDE DEF score
  <2>1. score \in Int
    BY <1>2 DEF score
  <2>2. QED
    BY <2>1, <1>2, ZAddFacts
<1>4. QED
  BY <1>1, <1>3 DEF Promise

\* A cleanup removes no lease that has time left.
LEMMA CleanupFacts ==
  ASSUME TypeOK, NEW lag \in Lags, holders' = ZRemRangeByScore(holders, Floor(lag))
  PROVE  /\ DOMAIN holders' \subseteq DOMAIN holders
         /\ \A x \in DOMAIN holders : holders[x] > 0 => x \in DOMAIN holders'
         /\ \A x \in DOMAIN holders' : holders'[x] = holders[x]
<1>1. /\ Floor(lag) \in Int /\ Floor(lag) <= 0 /\ IsZset(holders)
  <2>1. lag \in Int /\ lag <= 0 /\ Floor(lag) \in Int /\ Floor(lag) <= lag
    BY LagsType, Rounding DEF TypeOK
  <2>2. QED
    BY <2>1 DEF TypeOK
<1>2. /\ DOMAIN holders' = {x \in DOMAIN holders : holders[x] > Floor(lag)}
      /\ \A x \in DOMAIN holders' : holders'[x] = holders[x]
  BY <1>1, ZRemRangeFacts
<1>3. QED
  BY <1>1, <1>2 DEF IsZset

\* Only AcquireAndDequeue adds a holder, and its guard leaves room for one.
LEMMA CapacityNext == TypeOK /\ LeaseCapacity /\ [Next]_vars => LeaseCapacity'
<1> SUFFICES ASSUME TypeOK, LeaseCapacity, [Next]_vars PROVE LeaseCapacity'
  OBVIOUS
<1>f. IsZset(holders) /\ IsFiniteSet(DOMAIN holders) /\ Cardinality(DOMAIN holders) \in Nat
  BY HoldersFinite DEF TypeOK
<1>m. MaxLeases \in Nat
  BY NumbersAssumption
<1>s. ASSUME DOMAIN holders' \subseteq DOMAIN holders PROVE LeaseCapacity'
  <2>1. /\ Cardinality(DOMAIN holders') \in Nat
        /\ Cardinality(DOMAIN holders') <= Cardinality(DOMAIN holders)
    BY <1>s, <1>f, FS_Subset, FS_CardinalityType
  <2>2. QED
    BY <2>1, <1>f, <1>m DEF LeaseCapacity
<1>1. ASSUME NEW c \in Clients, CleanupStaleClients(c) PROVE LeaseCapacity'
  <2>1. DOMAIN holders' \subseteq DOMAIN holders
    BY <1>1, CleanupFacts DEF CleanupStaleClients
  <2>2. QED
    BY <2>1, <1>s
<1>2. ASSUME NEW c \in Clients, AcquireAndDequeue(c) PROVE LeaseCapacity'
  <2>1. DOMAIN holders' = DOMAIN holders \cup {c}
    <3>1. PICK lag \in Lags : holders' = ZAdd(holders, c, Ceil(lag) + 2 * Ttl)
      BY <1>2 DEF AcquireAndDequeue
    <3>2. QED
      BY <3>1, GrantFacts, NumbersAssumption
  <2>2. Cardinality(DOMAIN holders) < MaxLeases
    BY <1>2 DEF AcquireAndDequeue, CanAcquire
  <2>3. Cardinality(DOMAIN holders \cup {c}) <= Cardinality(DOMAIN holders) + 1
    BY <1>f, FS_AddElement
  <2>4. Cardinality(DOMAIN holders \cup {c}) \in Nat
    BY <1>f, FS_AddElement, FS_CardinalityType
  <2>5. Cardinality(DOMAIN holders \cup {c}) <= MaxLeases
    BY <2>2, <2>3, <2>4, <1>f, <1>m
  <2>6. QED
    BY <2>1, <2>5 DEF LeaseCapacity
<1>3. ASSUME NEW c \in Clients, ExtendClient(c) PROVE LeaseCapacity'
  <2>1. DOMAIN holders' \subseteq DOMAIN holders
    <3>1. CASE c \in DOMAIN holders
      <4>1. PICK lag \in Lags, ttl \in ExtendTtls : holders' = ZAdd(holders, c, Ceil(lag) + 2 * ttl)
        BY <1>3, <3>1 DEF ExtendClient
      <4>2. QED
        BY <3>1, <4>1, GrantFacts, NumbersAssumption
    <3>2. CASE c \notin DOMAIN holders
      BY <1>3, <3>2 DEF ExtendClient
    <3>3. QED
      BY <3>1, <3>2
  <2>2. QED
    BY <2>1, <1>s
<1>4. ASSUME NEW c \in Clients, RemoveClient(c) PROVE LeaseCapacity'
  <2>1. DOMAIN holders' \subseteq DOMAIN holders
    BY <1>4, <1>f, ZRemFacts DEF RemoveClient
  <2>2. QED
    BY <2>1, <1>s
<1>5. CASE Tick
  <2>1. DOMAIN holders' = DOMAIN holders
    BY <1>5 DEF Tick
  <2>2. QED
    BY <2>1, <1>s
<1>6. ASSUME UNCHANGED holders PROVE LeaseCapacity'
  BY <1>6, <1>s
<1>7. QED
  BY <1>1, <1>2, <1>3, <1>4, <1>5, <1>6
  DEF Next, Step, vars, redis, local, Start, Heartbeat, LastHeartbeat, EnsureInQueue,
      AcquireRefused, PeekHolders, PeekFront, PeekBeat, Subscribe, WaitTimeout, Leave,
      BeginExtend, Publish, Stop

\* Redis never records more than max_leases holders.
THEOREM CapacityCorrect == Spec => []LeaseCapacity
<1>1. Init => LeaseCapacity
  <2> SUFFICES ASSUME Init PROVE LeaseCapacity
    OBVIOUS
  <2>1. DOMAIN holders = {}
    BY DEF Init
  <2>2. QED
    BY <2>1, FS_EmptySet, NumbersAssumption DEF LeaseCapacity
<1>2. QED
  BY <1>1, CapacityNext, TypeCorrect, PTL DEF Spec

-----------------------------------------------------------------------------
(* The lease a caller was promised is in the zset. *)

\* No step, a cleanup by another client least of all, breaks a promised lease.
LEMMA LeaseHonouredNext == TypeOK /\ LeaseHonoured /\ [Next]_vars => LeaseHonoured'
<1> SUFFICES ASSUME TypeOK, LeaseHonoured, [Next]_vars PROVE LeaseHonoured'
  OBVIOUS
<1> USE DEF LeaseHonoured
<1>p. promised \in [Clients -> Nat] /\ IsZset(holders)
  BY DEF TypeOK
\* Steps of clients outside, which touch neither leases nor promises.
<1>s. ASSUME UNCHANGED <<holders, promised, alive>>, \A d \in Clients : pc[d] \in Inside => pc'[d] \in Inside
      PROVE  LeaseHonoured'
  BY <1>s
<1>1. ASSUME NEW c \in Clients, CleanupStaleClients(c) PROVE LeaseHonoured'
  <2>1. PICK lag \in Lags : holders' = ZRemRangeByScore(holders, Floor(lag))
    BY <1>1 DEF CleanupStaleClients
  <2>2. /\ UNCHANGED <<promised, alive>>
        /\ \A d \in Clients : pc[d] \in Inside => pc'[d] \in Inside
    BY <1>1 DEF CleanupStaleClients, local, Goto, TypeOK, Inside
  <2>3. \A x \in Clients : x \in DOMAIN holders /\ holders[x] > 0 =>
                            x \in DOMAIN holders' /\ holders'[x] = holders[x]
    BY <2>1, CleanupFacts
  <2>4. SUFFICES ASSUME NEW d \in Clients, promised'[d] > 0
                 PROVE  /\ pc'[d] \in Inside /\ alive'[d]
                        /\ d \in DOMAIN holders' /\ promised'[d] <= holders'[d]
    OBVIOUS
  <2>5. /\ pc[d] \in Inside /\ alive[d] /\ d \in DOMAIN holders
        /\ promised[d] <= holders[d] /\ promised[d] > 0
    BY <2>2, <2>4
  <2>6. holders[d] > 0
    BY <2>5, <1>p DEF IsZset
  <2>7. QED
    BY <2>2, <2>3, <2>5, <2>6
<1>2. ASSUME NEW c \in Clients, AcquireAndDequeue(c) PROVE LeaseHonoured'
  <2>1. PICK lag \in Lags :
          /\ holders' = ZAdd(holders, c, Ceil(lag) + 2 * Ttl)
          /\ promised' = [promised EXCEPT ![c] = IF alive[c] THEN Promise(lag, Ttl) ELSE 0]
    BY <1>2 DEF AcquireAndDequeue
  <2>2. /\ UNCHANGED alive /\ pc[c] = "acquire"
        /\ pc' = [pc EXCEPT ![c] = IF alive[c] THEN "critical" ELSE "stopped"]
    BY <1>2 DEF AcquireAndDequeue, Goto
  <2>3. ASSUME NEW d \in Clients, promised'[d] > 0, d # c
        PROVE  /\ pc'[d] \in Inside /\ alive'[d]
               /\ d \in DOMAIN holders' /\ promised'[d] <= holders'[d]
    BY <2>1, <2>2, <2>3, <1>p, GrantFacts, NumbersAssumption DEF TypeOK
  <2>4. ASSUME promised'[c] > 0
        PROVE  /\ pc'[c] \in Inside /\ alive'[c]
               /\ c \in DOMAIN holders' /\ promised'[c] <= holders'[c]
    <3>1. alive[c] /\ promised'[c] = Promise(lag, Ttl)
      BY <2>1, <2>4, <1>p
    <3>2. pc'[c] = "critical"
      BY <2>2, <3>1 DEF TypeOK
    <3>3. c \in DOMAIN holders' /\ (Promise(lag, Ttl) > 0 => Promise(lag, Ttl) <= holders'[c])
      BY <2>1, GrantFacts, NumbersAssumption
    <3>4. QED
      BY <2>2, <2>4, <3>1, <3>2, <3>3 DEF Inside
  <2>5. QED
    BY <2>3, <2>4
<1>3. ASSUME NEW c \in Clients, ExtendClient(c) PROVE LeaseHonoured'
  <2>1. UNCHANGED alive /\ pc[c] = "extend"
    BY <1>3 DEF ExtendClient
  <2>2. CASE c \in DOMAIN holders
    <3>1. PICK lag \in Lags, ttl \in ExtendTtls :
            /\ holders' = ZAdd(holders, c, Ceil(lag) + 2 * ttl)
            /\ promised' = [promised EXCEPT ![c] = IF alive[c] THEN Promise(lag, ttl) ELSE 0]
      BY <1>3, <2>2 DEF ExtendClient
    <3>2. pc' = [pc EXCEPT ![c] = IF alive[c] THEN "critical" ELSE "stopped"]
      BY <1>3, <2>2 DEF ExtendClient, Goto
    <3>3. ASSUME NEW d \in Clients, promised'[d] > 0, d # c
          PROVE  /\ pc'[d] \in Inside /\ alive'[d]
                 /\ d \in DOMAIN holders' /\ promised'[d] <= holders'[d]
      BY <2>1, <3>1, <3>2, <3>3, <1>p, GrantFacts, NumbersAssumption DEF TypeOK
    <3>4. ASSUME promised'[c] > 0
          PROVE  /\ pc'[c] \in Inside /\ alive'[c]
                 /\ c \in DOMAIN holders' /\ promised'[c] <= holders'[c]
      <4>1. alive[c] /\ promised'[c] = Promise(lag, ttl)
        BY <3>1, <3>4, <1>p
      <4>2. pc'[c] = "critical"
        BY <3>2, <4>1 DEF TypeOK
      <4>3. c \in DOMAIN holders' /\ (Promise(lag, ttl) > 0 => Promise(lag, ttl) <= holders'[c])
        BY <3>1, GrantFacts, NumbersAssumption
      <4>4. QED
        BY <2>1, <3>4, <4>1, <4>2, <4>3 DEF Inside
    <3>5. QED
      BY <3>3, <3>4
  <2>3. CASE c \notin DOMAIN holders
    <3>1. /\ UNCHANGED holders /\ promised' = [promised EXCEPT ![c] = 0]
          /\ \A d \in Clients : d # c => pc'[d] = pc[d]
      BY <1>3, <2>3 DEF ExtendClient, Goto, TypeOK
    <3>2. QED
      BY <2>1, <3>1, <1>p
  <2>4. QED
    BY <2>2, <2>3
<1>4. ASSUME NEW c \in Clients, RemoveClient(c) PROVE LeaseHonoured'
  <2>1. /\ UNCHANGED <<promised, alive>> /\ pc[c] = "release" /\ holders' = ZRem(holders, c)
        /\ \A d \in Clients : d # c => pc'[d] = pc[d]
    BY <1>4 DEF RemoveClient, local, Goto, TypeOK
  <2>2. ~(promised[c] > 0)
    BY <2>1 DEF Inside
  <2>3. \A x \in DOMAIN holders : x # c => x \in DOMAIN holders' /\ holders'[x] = holders[x]
    <3>1. /\ DOMAIN ZRem(holders, c) = DOMAIN holders \ {c}
          /\ \A x \in DOMAIN holders : x # c => ZRem(holders, c)[x] = holders[x]
      BY <1>p, ZRemFacts
    <3>2. QED
      BY <2>1, <3>1
  <2>4. QED
    BY <2>1, <2>2, <2>3
<1>5. ASSUME Tick PROVE LeaseHonoured'
  <2>1. /\ DOMAIN holders' = DOMAIN holders /\ UNCHANGED <<pc, alive>>
        /\ \A x \in DOMAIN holders : holders'[x] = Age(holders[x], Oldest)
        /\ \A x \in Clients : promised'[x] = Age(promised[x], 0)
    BY <1>5 DEF Tick
  <2>2. ASSUME NEW d \in Clients, promised'[d] > 0
        PROVE  /\ promised[d] > 0
               /\ d \in DOMAIN holders /\ promised'[d] <= holders'[d]
    <3>1. promised'[d] = promised[d] - 1 /\ promised[d] > 0
      BY <2>1, <2>2, <1>p DEF Age
    <3>2. d \in DOMAIN holders /\ promised[d] <= holders[d] /\ holders[d] \in Int
      BY <3>1, <1>p DEF IsZset
    <3>3. Oldest \in Int /\ Oldest < 0
      BY NumbersAssumption DEF Oldest
    <3>4. Age(holders[d], Oldest) = holders[d] - 1
      BY <3>1, <3>2, <3>3, <1>p DEF Age
    <3>5. QED
      BY <2>1, <3>1, <3>2, <3>4, <1>p
  <2>3. QED
    BY <2>1, <2>2
<1>6. ASSUME NEW c \in Clients, Leave(c) PROVE LeaseHonoured'
  BY <1>6, <1>p DEF Leave, redis, TypeOK
<1>7. ASSUME NEW c \in Clients, Stop(c) PROVE LeaseHonoured'
  <2>1. /\ UNCHANGED holders /\ promised' = [promised EXCEPT ![c] = 0]
        /\ \A d \in Clients : d # c => pc'[d] = pc[d] /\ alive'[d] = alive[d]
    BY <1>7 DEF Stop, redis, TypeOK
  <2>2. QED
    BY <2>1, <1>p
<1>8. ASSUME NEW c \in Clients,
             Start(c) \/ Heartbeat(c) \/ LastHeartbeat(c) \/ EnsureInQueue(c) \/ AcquireRefused(c)
             \/ PeekHolders(c) \/ PeekFront(c) \/ PeekBeat(c) \/ Subscribe(c) \/ WaitTimeout(c)
             \/ BeginExtend(c) \/ Publish(c)
      PROVE  LeaseHonoured'
  <2>1. UNCHANGED <<holders, promised, alive>>
    BY <1>8 DEF Start, Heartbeat, LastHeartbeat, EnsureInQueue, AcquireRefused, PeekHolders, PeekFront,
                PeekBeat, Subscribe, WaitTimeout, BeginExtend, Publish, redis, local
  <2>2. ASSUME NEW d \in Clients, pc[d] \in Inside PROVE pc'[d] \in Inside
    BY <1>8, <2>2 DEF Start, Heartbeat, LastHeartbeat, EnsureInQueue, AcquireRefused, PeekHolders,
                PeekFront, PeekBeat, Subscribe, WaitTimeout, BeginExtend, Publish, Goto, Inside, TypeOK
  <2>3. QED
    BY <2>1, <2>2, <1>s
<1>9. CASE UNCHANGED vars
  BY <1>9, <1>s DEF vars
<1>10. QED
  BY <1>1, <1>2, <1>3, <1>4, <1>5, <1>6, <1>7, <1>8, <1>9 DEF Next, Step

\* No cleanup takes a lease away from a caller whose ttl has not run out.
THEOREM LeaseHonouredCorrect == Spec => []LeaseHonoured
<1>1. Init => LeaseHonoured
  BY DEF Init, LeaseHonoured
<1>2. QED
  BY <1>1, LeaseHonouredNext, TypeCorrect, PTL DEF Spec

\* The callers within their ttl are recorded holders, so they are no more than max_leases.
LEMMA WorkingBound ==
  ASSUME TypeOK, LeaseCapacity, NEW S, S \subseteq DOMAIN holders
  PROVE  IsFiniteSet(S) /\ Cardinality(S) \in Nat /\ Cardinality(S) <= Cardinality(DOMAIN holders)
         /\ Cardinality(S) <= MaxLeases
<1>1. IsFiniteSet(DOMAIN holders) /\ Cardinality(DOMAIN holders) \in Nat
  BY HoldersFinite DEF TypeOK
<1>2. IsFiniteSet(S) /\ Cardinality(S) <= Cardinality(DOMAIN holders)
  BY <1>1, FS_Subset
<1>3. Cardinality(S) \in Nat
  BY <1>2, FS_CardinalityType
<1>4. QED
  BY <1>1, <1>2, <1>3, NumbersAssumption DEF LeaseCapacity

\* At most max_leases callers are inside within their ttl.
THEOREM MutualExclusionCorrect == Spec => []MutualExclusion
<1>1. TypeOK /\ LeaseCapacity /\ LeaseHonoured => MutualExclusion
  <2> SUFFICES ASSUME TypeOK, LeaseCapacity, LeaseHonoured PROVE MutualExclusion
    OBVIOUS
  <2>1. {c \in Clients : Working(c)} \subseteq DOMAIN holders
    BY DEF LeaseHonoured, Working
  <2>2. QED
    BY <2>1, WorkingBound DEF MutualExclusion
<1>2. QED
  BY <1>1, TypeCorrect, CapacityCorrect, LeaseHonouredCorrect, PTL

-----------------------------------------------------------------------------
(* The semaphore implements the lease pool. *)

\* Callers inside within their ttl, and one more that has a lease, fit in the pool.
LEMMA RoomInPool ==
  ASSUME TypeOK, LeaseCapacity, LeaseHonoured, NEW c \in Clients,
         \/ c \notin DOMAIN holders /\ Cardinality(DOMAIN holders) < MaxLeases
         \/ c \in DOMAIN holders /\ c \notin Inhabitants \ Lapsed
  PROVE  Cardinality(Inhabitants \ Lapsed) < MaxLeases
<1> DEFINE S == Inhabitants \ Lapsed
<1>1. S \subseteq DOMAIN holders
  BY DEF LeaseHonoured, Inhabitants, Lapsed, TypeOK
<1>2. IsFiniteSet(S) /\ Cardinality(S) \in Nat /\ Cardinality(S) <= Cardinality(DOMAIN holders)
  BY <1>1, WorkingBound
<1>3. Cardinality(DOMAIN holders) \in Nat /\ MaxLeases \in Nat
  BY HoldersFinite, NumbersAssumption DEF TypeOK
<1>4. CASE c \notin DOMAIN holders /\ Cardinality(DOMAIN holders) < MaxLeases
  BY <1>2, <1>3, <1>4
<1>5. CASE c \in DOMAIN holders /\ c \notin S
  <2>1. S \cup {c} \subseteq DOMAIN holders
    BY <1>1, <1>5
  <2>2. Cardinality(S \cup {c}) <= MaxLeases
    BY <2>1, WorkingBound
  <2>3. Cardinality(S \cup {c}) = Cardinality(S) + 1
    BY <1>2, <1>5, FS_AddElement
  <2>4. QED
    BY <1>2, <1>3, <2>2, <2>3
<1>6. QED
  BY <1>4, <1>5

\* A step that changes the program counter and the promise of one client only.
LEMMA OneClientMoves ==
  ASSUME TypeOK, NEW c \in Clients,
         \A d \in Clients : d # c => /\ pc'[d] \in Inside <=> pc[d] \in Inside
                                    /\ alive'[d] = alive[d] /\ promised'[d] = promised[d]
  PROVE  /\ Inhabitants' \ {c} = Inhabitants \ {c}
         /\ Lapsed' \ {c} = Lapsed \ {c}
         /\ c \in Inhabitants <=> alive[c] /\ pc[c] \in Inside
         /\ c \in Inhabitants' <=> alive'[c] /\ pc'[c] \in Inside
         /\ c \in Lapsed <=> c \in Inhabitants /\ promised[c] = 0
         /\ c \in Lapsed' <=> c \in Inhabitants' /\ promised'[c] = 0
BY DEF Inhabitants, Lapsed

\* The pool counts with the same operator.
LEMMA SameCardinality == \A S : Pool!Cardinality(S) = Cardinality(S)
BY DEF Pool!Cardinality, Cardinality

\* Every step of the semaphore is a step of the lease pool, or none.
LEMMA PoolStep ==
  TypeOK /\ LeaseCapacity /\ LeaseHonoured /\ [Next]_vars => [Pool!PoolNext]_(Pool!poolVars)
<1> SUFFICES ASSUME TypeOK, LeaseCapacity, LeaseHonoured, [Next]_vars
             PROVE  Pool!PoolNext \/ (Inhabitants' = Inhabitants /\ Lapsed' = Lapsed)
  BY DEF Pool!poolVars
<1> DEFINE Goal == Pool!PoolNext \/ (Inhabitants' = Inhabitants /\ Lapsed' = Lapsed)
<1>p. promised \in [Clients -> Nat] /\ alive \in [Clients -> BOOLEAN] /\ Lapsed \subseteq Inhabitants
      /\ Inhabitants \subseteq Clients
  BY DEF TypeOK, Lapsed, Inhabitants
\* Steps that move nobody in or out, nor any promise.
<1>s. ASSUME UNCHANGED <<promised, alive>>, \A d \in Clients : pc[d] \in Inside <=> pc'[d] \in Inside
      PROVE  Goal
  BY <1>s DEF Inhabitants, Lapsed
<1>1. ASSUME NEW c \in Clients, AcquireAndDequeue(c) PROVE Goal
  <2>1. /\ pc[c] = "acquire" /\ UNCHANGED alive
        /\ pc' = [pc EXCEPT ![c] = IF alive[c] THEN "critical" ELSE "stopped"]
        /\ Cardinality(DOMAIN holders) < MaxLeases
        /\ \E n \in Nat : promised' = [promised EXCEPT ![c] = IF alive[c] THEN n ELSE 0]
    <3>1. \A lag \in Lags : Promise(lag, Ttl) \in Nat
      BY LagsType, NumbersAssumption DEF Promise
    <3>2. QED
      BY <1>1, <3>1 DEF AcquireAndDequeue, Goto, CanAcquire
  <2>2. \A d \in Clients : d # c => /\ pc'[d] \in Inside <=> pc[d] \in Inside
                                   /\ alive'[d] = alive[d] /\ promised'[d] = promised[d]
    BY <2>1, <1>p DEF TypeOK
  <2>3. c \notin Inhabitants /\ c \notin Lapsed
    BY <2>1 DEF Inhabitants, Lapsed, Inside
  <2>4. CASE alive[c]
    <3>1. c \in Inhabitants'
      BY <2>1, <2>4 DEF Inhabitants, Inside, TypeOK
    <3>2. Inhabitants' = Inhabitants \cup {c} /\ Lapsed' \in {Lapsed, Lapsed \cup {c}}
      BY <2>2, <2>3, <3>1, OneClientMoves
    <3>3. Cardinality(Inhabitants \ Lapsed) < MaxLeases
      <4>1. CASE c \notin DOMAIN holders
        BY <4>1, <2>1, RoomInPool
      <4>2. CASE c \in DOMAIN holders
        BY <4>2, <2>3, RoomInPool
      <4>3. QED
        BY <4>1, <4>2
    <3>4. Pool!Enter(c)
      BY <2>3, <3>2, <3>3, SameCardinality DEF Pool!Enter
    <3>5. QED
      BY <3>4 DEF Pool!PoolNext
  <2>5. CASE ~alive[c]
    <3>1. c \notin Inhabitants' /\ c \notin Lapsed'
      BY <2>1, <2>5 DEF Inhabitants, Lapsed
    <3>2. QED
      BY <2>2, <2>3, <3>1, OneClientMoves
  <2>6. QED
    BY <2>4, <2>5
<1>2. ASSUME NEW c \in Clients, ExtendClient(c) PROVE Goal
  <2>1. pc[c] = "extend" /\ UNCHANGED alive
    BY <1>2 DEF ExtendClient
  <2>2. CASE c \in DOMAIN holders
    <3>1. /\ pc' = [pc EXCEPT ![c] = IF alive[c] THEN "critical" ELSE "stopped"]
          /\ \E n \in Nat : promised' = [promised EXCEPT ![c] = n]
      <4>1. \A lag \in Lags, ttl \in ExtendTtls : Promise(lag, ttl) \in Nat
        BY LagsType, NumbersAssumption DEF Promise
      <4>2. QED
        BY <1>2, <2>2, <4>1 DEF ExtendClient, Goto
    <3>2. \A d \in Clients : d # c => /\ pc'[d] \in Inside <=> pc[d] \in Inside
                                     /\ alive'[d] = alive[d] /\ promised'[d] = promised[d]
      BY <2>1, <3>1, <1>p DEF TypeOK
    <3>3. c \in Inhabitants <=> c \in Inhabitants'
      BY <2>1, <3>1, <1>p DEF Inhabitants, Inside, TypeOK
    <3>4. Inhabitants' = Inhabitants /\ Lapsed' \ {c} = Lapsed \ {c}
      BY <3>2, <3>3, OneClientMoves
    <3>5. CASE c \in Lapsed /\ c \notin Lapsed'
      <4>1. Cardinality(Inhabitants \ Lapsed) < MaxLeases
        BY <2>2, <3>5, RoomInPool
      <4>2. Pool!Renew(c)
        BY <3>4, <3>5, <4>1, SameCardinality DEF Pool!Renew
      <4>3. QED
        BY <4>2 DEF Pool!PoolNext
    <3>6. CASE c \notin Lapsed /\ c \in Lapsed'
      <4>1. {c} \in SUBSET (Inhabitants \ Lapsed) /\ Lapsed' = Lapsed \cup {c}
        BY <3>4, <3>6 DEF Lapsed
      <4>2. Pool!Lapse
        BY <3>4, <4>1 DEF Pool!Lapse
      <4>3. QED
        BY <4>2 DEF Pool!PoolNext
    <3>7. CASE c \in Lapsed <=> c \in Lapsed'
      BY <3>4, <3>7
    <3>8. QED
      BY <3>5, <3>6, <3>7
  <2>3. CASE c \notin DOMAIN holders
    <3>1. /\ pc' = [pc EXCEPT ![c] = IF alive[c] THEN "release" ELSE "stopped"]
          /\ promised' = [promised EXCEPT ![c] = 0]
      BY <1>2, <2>3 DEF ExtendClient, Goto
    <3>2. \A d \in Clients : d # c => /\ pc'[d] \in Inside <=> pc[d] \in Inside
                                     /\ alive'[d] = alive[d] /\ promised'[d] = promised[d]
      BY <2>1, <3>1, <1>p DEF TypeOK
    <3>3. c \notin Inhabitants' /\ c \notin Lapsed'
      BY <3>1 DEF Inhabitants, Lapsed, Inside, TypeOK
    <3>4. Inhabitants' = Inhabitants \ {c} /\ Lapsed' = Lapsed \ {c}
      BY <3>2, <3>3, OneClientMoves
    <3>5. Pool!Quit(c) \/ (Inhabitants' = Inhabitants /\ Lapsed' = Lapsed)
      BY <3>4, <1>p DEF Pool!Quit
    <3>6. QED
      BY <3>5 DEF Pool!PoolNext
  <2>4. QED
    BY <2>2, <2>3
<1>3. ASSUME NEW c \in Clients, Leave(c) \/ Stop(c) PROVE Goal
  <2>1. \A d \in Clients : d # c => /\ pc'[d] \in Inside <=> pc[d] \in Inside
                                   /\ alive'[d] = alive[d] /\ promised'[d] = promised[d]
    BY <1>3, <1>p DEF Leave, Stop, TypeOK
  <2>2. c \notin Inhabitants' /\ c \notin Lapsed'
    <3>1. CASE Leave(c)
      BY <3>1 DEF Leave, Inhabitants, Lapsed, Inside, TypeOK
    <3>2. CASE Stop(c)
      BY <3>2, <1>p DEF Stop, Inhabitants, Lapsed
    <3>3. QED
      BY <1>3, <3>1, <3>2
  <2>3. Inhabitants' = Inhabitants \ {c} /\ Lapsed' = Lapsed \ {c}
    BY <2>1, <2>2, OneClientMoves
  <2>4. Pool!Quit(c) \/ (Inhabitants' = Inhabitants /\ Lapsed' = Lapsed)
    BY <2>3, <1>p DEF Pool!Quit
  <2>5. QED
    BY <2>4 DEF Pool!PoolNext
<1>4. ASSUME Tick PROVE Goal
  <2>1. /\ UNCHANGED <<pc, alive>>
        /\ \A x \in Clients : promised'[x] = Age(promised[x], 0)
    BY <1>4 DEF Tick
  <2>2. Inhabitants' = Inhabitants
    BY <2>1 DEF Inhabitants
  <2>3. Lapsed \subseteq Lapsed' /\ Lapsed' \subseteq Inhabitants
    BY <2>1, <2>2, <1>p DEF Lapsed, Age
  <2>4. Lapsed' \ Lapsed \in SUBSET (Inhabitants \ Lapsed) /\ Lapsed' = Lapsed \cup (Lapsed' \ Lapsed)
    BY <2>3
  <2>5. Pool!Lapse
    BY <2>2, <2>4 DEF Pool!Lapse
  <2>6. QED
    BY <2>5 DEF Pool!PoolNext
<1>5. ASSUME NEW c \in Clients,
             Start(c) \/ Heartbeat(c) \/ LastHeartbeat(c) \/ EnsureInQueue(c) \/ CleanupStaleClients(c)
             \/ AcquireRefused(c) \/ PeekHolders(c) \/ PeekFront(c) \/ PeekBeat(c) \/ Subscribe(c)
             \/ WaitTimeout(c) \/ BeginExtend(c) \/ RemoveClient(c) \/ Publish(c)
      PROVE  Goal
  <2>1. UNCHANGED <<promised, alive>>
    BY <1>5 DEF Start, Heartbeat, LastHeartbeat, EnsureInQueue, CleanupStaleClients, AcquireRefused,
                PeekHolders, PeekFront, PeekBeat, Subscribe, WaitTimeout, BeginExtend, RemoveClient,
                Publish, local
  <2>2. ASSUME NEW d \in Clients PROVE pc[d] \in Inside <=> pc'[d] \in Inside
    BY <1>5 DEF Start, Heartbeat, LastHeartbeat, EnsureInQueue, CleanupStaleClients, AcquireRefused,
                PeekHolders, PeekFront, PeekBeat, Subscribe, WaitTimeout, BeginExtend, RemoveClient,
                Publish, Goto, Inside, TypeOK
  <2>3. QED
    BY <2>1, <2>2, <1>s
<1>6. CASE UNCHANGED vars
  BY <1>6, <1>s DEF vars
<1>7. QED
  BY <1>1, <1>2, <1>3, <1>4, <1>5, <1>6 DEF Next, Step

\* Every behaviour of the semaphore, its expiries, stale scripts and crashes included,
\* is one of the lease pool.
THEOREM Refinement == Spec => LeasePoolSpec
<1>1. Init => Pool!PoolInit
  BY DEF Init, Pool!PoolInit, Inhabitants, Lapsed, Inside
<1>2. QED
  BY <1>1, PoolStep, TypeCorrect, CapacityCorrect, LeaseHonouredCorrect, PTL
  DEF Spec, LeasePoolSpec, Pool!PoolSpec
=============================================================================
