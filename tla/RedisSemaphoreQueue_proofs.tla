--------------------- MODULE RedisSemaphoreQueue_proofs ---------------------
(* Theorems about the queue of RedisSemaphore: who stands in it, and in    *)
(* which order it is served.                                               *)
EXTENDS RedisSemaphore_proofs

\* v is w without its first k elements.
IsSuffix(v, w, k) ==
  /\ v \in Seq(Clients)
  /\ Len(v) = Len(w) - k
  /\ \A i \in 1..Len(v) : v[i] = w[i + k]

\* A set of the first naturals that is closed downwards is an interval.
LEMMA DownClosed ==
  ASSUME NEW n \in Nat, NEW S \in SUBSET (1..n), \A k \in S : 1..k \subseteq S
  PROVE  Cardinality(S) \in 0..n /\ S = 1..Cardinality(S)
<1>1. IsFiniteSet(1..n) /\ Cardinality(1..n) = n
  BY FS_Interval
<1>2. IsFiniteSet(S) /\ Cardinality(S) \in Nat /\ Cardinality(S) <= n
  BY <1>1, FS_Subset, FS_CardinalityType
<1> DEFINE m == Cardinality(S)
<1>3. \A k \in S : k <= m
  <2> SUFFICES ASSUME NEW k \in S PROVE k <= m
    OBVIOUS
  <2>1. k \in Nat /\ 1..k \subseteq S
    OBVIOUS
  <2>2. Cardinality(1..k) = k
    BY <2>1, FS_Interval
  <2>3. QED
    BY <2>1, <2>2, <1>2, FS_Subset
<1>4. S \subseteq 1..m
  BY <1>2, <1>3
<1>5. IsFiniteSet(1..m) /\ Cardinality(1..m) = m
  BY <1>2, FS_Interval
<1>6. m \in 0..n
  BY <1>2
<1>7. S = 1..m
  <2> HIDE DEF m
  <2>1. Cardinality(S) = m
    BY DEF m
  <2>2. QED
    BY <1>4, <1>5, <2>1, FS_Subset
<1>8. QED
  BY <1>6, <1>7

\* The pop loop removes a prefix of waiters without a heartbeat and no one else.
LEMMA DropSilentSuffix ==
  ASSUME NEW w \in Seq(Clients), NEW live
  PROVE  \E k \in 0..Len(w) : /\ IsSuffix(DropSilent(w, live), w, k)
                              /\ \A j \in 1..k : w[j] \notin live
<1> DEFINE S == SilentFront(w, live)
           k == Cardinality(S)
<1>1. Len(w) \in Nat /\ S \in SUBSET (1..Len(w)) /\ \A j \in S : 1..j \subseteq S
  BY DEF SilentFront
<1>2. k \in 0..Len(w) /\ S = 1..k
  BY <1>1, DownClosed
<1>3. \A j \in 1..k : w[j] \notin live
  <2>1. \A j \in S : w[j] \notin live
    BY DEF SilentFront
  <2>2. QED
    BY <2>1, <1>2
<1>4. IsSuffix(SubSeq(w, k + 1, Len(w)), w, k)
  <2> HIDE DEF k
  <2>1. /\ k + 1 \in Int /\ Len(w) \in Int
        /\ \A i \in (k + 1) .. Len(w) : w[i] \in Clients
    BY <1>2
  <2> DEFINE v == SubSeq(w, k + 1, Len(w))
  <2>2. /\ v \in Seq(Clients)
        /\ Len(v) = IF k + 1 <= Len(w) THEN Len(w) - (k + 1) + 1 ELSE 0
        /\ \A i \in 1 .. Len(w) - (k + 1) + 1 : v[i] = w[(k + 1) + i - 1]
    BY <2>1, SubSeqProperties
  <2>3. Len(v) = Len(w) - k
    BY <2>2, <1>2
  <2>4. \A i \in 1..Len(v) : v[i] = w[i + k]
    <3> SUFFICES ASSUME NEW i \in 1..Len(v) PROVE v[i] = w[i + k]
      OBVIOUS
    <3>1. i \in 1 .. Len(w) - (k + 1) + 1 /\ (k + 1) + i - 1 = i + k
      BY <2>3, <1>2
    <3>2. QED
      BY <3>1, <2>2
  <2>5. QED
    BY <2>2, <2>3, <2>4 DEF IsSuffix
<1>5. QED
  BY <1>2, <1>3, <1>4 DEF DropSilent

-----------------------------------------------------------------------------
\* The queue is left alone, or its client comes last in it, or a prefix leaves it: the
\* client that is granted a lease, or waiters whose heartbeat has run out.
Joins(c) == /\ pc[c] = "ensure" /\ c \notin Range(waiters)
            /\ waiters' = Append(waiters, c)
            /\ UNCHANGED <<holders, heartbeats>>
Granted(c) == /\ pc[c] = "acquire" /\ waiters # <<>> /\ Head(waiters) = c
              /\ IsSuffix(waiters', waiters, 1)
              /\ DOMAIN holders' = DOMAIN holders \cup {c}
              /\ pc'[c] \in {"critical", "stopped"}
Swept(k) == /\ IsSuffix(waiters', waiters, k)
            /\ \A j \in 1..k : waiters[j] \notin DOMAIN heartbeats'
            /\ \A c \in Clients : Beating(c) => c \in DOMAIN heartbeats'
            /\ DOMAIN holders' \subseteq DOMAIN holders

\* Every step changes the queue in one of these ways.
LEMMA QueueStep ==
  ASSUME TypeOK, [Next]_vars
  PROVE  \/ waiters' = waiters /\ DOMAIN holders' \subseteq DOMAIN holders
         \/ \E c \in Clients : Joins(c) \/ Granted(c)
         \/ \E k \in 0..Len(waiters) : Swept(k)
<1> DEFINE Same == waiters' = waiters /\ DOMAIN holders' \subseteq DOMAIN holders
<1>z. IsZset(holders) /\ IsZset(heartbeats) /\ waiters \in Seq(Clients) /\ phase \in {0, 1}
  BY DEF TypeOK
<1>1. ASSUME NEW c \in Clients, EnsureInQueue(c) PROVE Same \/ Joins(c)
  BY <1>1 DEF EnsureInQueue, Joins
<1>2. ASSUME NEW c \in Clients, CleanupStaleClients(c)
      PROVE  \E k \in 0..Len(waiters) : Swept(k)
  <2>1. PICK lag \in Lags : /\ holders' = ZRemRangeByScore(holders, Floor(lag))
                            /\ heartbeats' = ZRemRangeByScore(heartbeats, Floor(lag))
    BY <1>2 DEF CleanupStaleClients
  <2>2. lag \in Int /\ Floor(lag) \in Int /\ Floor(lag) <= 0
    BY <1>z, Rounding, LagsType
  <2>3. /\ DOMAIN holders' \subseteq DOMAIN holders
        /\ \A d \in Clients : Beating(d) => d \in DOMAIN heartbeats'
    <3>1. /\ DOMAIN holders' = {x \in DOMAIN holders : holders[x] > Floor(lag)}
          /\ DOMAIN heartbeats' = {x \in DOMAIN heartbeats : heartbeats[x] > Floor(lag)}
      BY <1>z, <2>1, <2>2, ZRemRangeFacts
    <3>2. \A d \in DOMAIN heartbeats : heartbeats[d] \in Int
      BY <1>z DEF IsZset
    <3>3. QED
      BY <3>1, <3>2, <2>2 DEF Beating
  <2>4. waiters' = DropSilent(waiters, DOMAIN heartbeats')
    BY <1>2 DEF CleanupStaleClients
  <2>5. PICK k \in 0..Len(waiters) : /\ IsSuffix(waiters', waiters, k)
                                     /\ \A j \in 1..k : waiters[j] \notin DOMAIN heartbeats'
    BY <1>z, <2>4, DropSilentSuffix
  <2>6. QED
    BY <2>3, <2>5 DEF Swept
<1>3. ASSUME NEW c \in Clients, AcquireAndDequeue(c) PROVE Granted(c)
  <2>1. pc[c] = "acquire" /\ waiters # <<>> /\ Head(waiters) = c /\ waiters' = Tail(waiters)
    BY <1>3 DEF AcquireAndDequeue, CanAcquire
  <2>2. IsSuffix(waiters', waiters, 1)
    BY <1>z, <2>1, HeadTailProperties DEF IsSuffix
  <2>3. PICK lag \in Lags : holders' = ZAdd(holders, c, Ceil(lag) + 2 * Ttl)
    BY <1>3 DEF AcquireAndDequeue
  <2>4. pc'[c] \in {"critical", "stopped"}
    BY <1>3 DEF AcquireAndDequeue, Goto, TypeOK
  <2>5. QED
    BY <2>1, <2>2, <2>3, <2>4, GrantFacts, NumbersAssumption DEF Granted
<1>4. ASSUME NEW c \in Clients, ExtendClient(c) PROVE Same
  <2>1. CASE c \in DOMAIN holders
    <3>1. PICK lag \in Lags, ttl \in ExtendTtls : holders' = ZAdd(holders, c, Ceil(lag) + 2 * ttl)
      BY <1>4, <2>1 DEF ExtendClient
    <3>2. QED
      BY <1>4, <2>1, <3>1, GrantFacts, NumbersAssumption DEF ExtendClient
  <2>2. CASE c \notin DOMAIN holders
    BY <1>4, <2>2 DEF ExtendClient
  <2>3. QED
    BY <2>1, <2>2
<1>5. ASSUME NEW c \in Clients, RemoveClient(c) PROVE Same
  BY <1>5, <1>z, ZRemFacts DEF RemoveClient
<1>6. CASE Tick
  BY <1>6 DEF Tick
<1>7. ASSUME UNCHANGED <<waiters, holders>> PROVE Same
  BY <1>7
<1>8. QED
  BY <1>1, <1>2, <1>3, <1>4, <1>5, <1>6, <1>7
  DEF Next, Step, vars, redis, local, Start, Heartbeat, LastHeartbeat,
      AcquireRefused, PeekHolders, PeekFront, PeekBeat, Subscribe, WaitTimeout, Leave,
      BeginExtend, Publish, Stop

-----------------------------------------------------------------------------
(* A place in the queue or a lease, and never two. *)

BeforeLease == Acquiring \cup {"idle"}

\* A client that has left acquire() never comes back to it.
LEMMA NoReturn ==
  ASSUME TypeOK, [Next]_vars, NEW h \in Clients, pc[h] \notin BeforeLease
  PROVE  pc'[h] \notin BeforeLease
<1> USE DEF BeforeLease, Acquiring
<1>p. pc \in [Clients -> Acquiring \cup Inside \cup InFlight \cup Ended]
  BY DEF TypeOK
<1>1. ASSUME NEW c \in Clients, Step(c) PROVE pc'[h] \notin BeforeLease
  BY <1>1, <1>p
  DEF Step, Goto, EnsureInQueue, CleanupStaleClients, AcquireAndDequeue, AcquireRefused,
      PeekHolders, PeekFront, PeekBeat, Subscribe, WaitTimeout, ExtendClient, RemoveClient,
      Publish
<1>2. ASSUME NEW c \in Clients, Start(c) \/ Heartbeat(c) \/ LastHeartbeat(c)
      PROVE  pc'[h] \notin BeforeLease
  BY <1>2, <1>p DEF Start, Heartbeat, LastHeartbeat
<1>3. ASSUME NEW c \in Clients, Leave(c) \/ BeginExtend(c) \/ Stop(c)
      PROVE  pc'[h] \notin BeforeLease
  BY <1>3, <1>p DEF Leave, BeginExtend, Stop
<1>4. CASE Tick \/ UNCHANGED vars
  BY <1>4 DEF Tick, vars
<1>5. QED
  BY <1>1, <1>2, <1>3, <1>4 DEF Next

\* A suffix of the queue keeps its clients apart and takes nobody in.
LEMMA SuffixFacts ==
  ASSUME TypeOK, OnePlace, NEW k \in 0..Len(waiters), IsSuffix(waiters', waiters, k)
  PROVE  /\ \A i, j \in 1..Len(waiters') : waiters'[i] = waiters'[j] => i = j
         /\ \A i \in 1..Len(waiters') : /\ i + k \in 1..Len(waiters)
                                        /\ waiters'[i] = waiters[i + k]
<1>1. waiters \in Seq(Clients) /\ Len(waiters) \in Nat /\ Len(waiters') = Len(waiters) - k
  BY DEF TypeOK, IsSuffix
<1>2. ASSUME NEW i \in 1..Len(waiters')
      PROVE  i + k \in 1..Len(waiters) /\ waiters'[i] = waiters[i + k]
  BY <1>1 DEF IsSuffix
<1>3. ASSUME NEW i \in 1..Len(waiters'), NEW j \in 1..Len(waiters'), waiters'[i] = waiters'[j]
      PROVE  i = j
  <2>1. i + k = j + k
    BY <1>2, <1>3 DEF OnePlace
  <2>2. QED
    BY <2>1
<1>4. QED
  BY <1>2, <1>3

\* The clients in the queue are its elements.
LEMMA InQueue ==
  ASSUME NEW w \in Seq(Clients), NEW c
  PROVE  c \in Range(w) <=> \E i \in 1..Len(w) : w[i] = c
BY DEF Range

\* No step puts a client in a second place.
LEMMA OnePlaceNext == TypeOK /\ OnePlace /\ [Next]_vars => OnePlace'
<1> SUFFICES ASSUME TypeOK, OnePlace, [Next]_vars PROVE OnePlace'
  OBVIOUS
<1>w. /\ waiters \in Seq(Clients) /\ DOMAIN holders \subseteq Clients
      /\ waiters' \in Seq(Clients) /\ DOMAIN holders' \subseteq Clients
  BY TypeNext DEF TypeOK, IsZset
<1> DEFINE Apart == \A i, j \in 1..Len(waiters') : waiters'[i] = waiters'[j] => i = j
           Disjoint == \A i \in 1..Len(waiters') : waiters'[i] \notin DOMAIN holders'
           Outside == \A c \in DOMAIN holders' : pc'[c] \notin BeforeLease
<1>d. \A i \in 1..Len(waiters) : waiters[i] \notin DOMAIN holders
  BY <1>w, InQueue DEF OnePlace
<1>o. ASSUME NEW h \in DOMAIN holders PROVE pc'[h] \notin BeforeLease
  BY <1>o, <1>w, NoReturn DEF OnePlace, BeforeLease
<1>1. ASSUME waiters' = waiters, DOMAIN holders' \subseteq DOMAIN holders
      PROVE  Apart /\ Disjoint /\ Outside
  <2>1. Apart
    BY <1>1 DEF OnePlace
  <2>2. Disjoint
    BY <1>1, <1>d
  <2>3. Outside
    BY <1>1, <1>o
  <2>4. QED
    BY <2>1, <2>2, <2>3
<1>2. ASSUME NEW c \in Clients, Joins(c) PROVE Apart /\ Disjoint /\ Outside
  <2>1. /\ waiters' = Append(waiters, c) /\ holders' = holders
        /\ c \notin DOMAIN holders /\ \A i \in 1..Len(waiters) : waiters[i] # c
    BY <1>2, <1>w, InQueue DEF Joins, OnePlace, Acquiring
  <2>2. /\ Len(waiters') = Len(waiters) + 1 /\ Len(waiters) \in Nat
        /\ \A i \in 1..Len(waiters) : waiters'[i] = waiters[i]
        /\ waiters'[Len(waiters) + 1] = c
    BY <2>1, <1>w, AppendProperties
  <2>3. Apart
    BY <2>1, <2>2 DEF OnePlace
  <2>4. Disjoint
    BY <2>1, <2>2, <1>d
  <2>5. Outside
    BY <2>1, <1>o
  <2>6. QED
    BY <2>3, <2>4, <2>5
<1>3. ASSUME NEW c \in Clients, Granted(c) PROVE Apart /\ Disjoint /\ Outside
  <2>1. /\ 1 \in 0..Len(waiters) /\ IsSuffix(waiters', waiters, 1) /\ waiters[1] = c
        /\ DOMAIN holders' = DOMAIN holders \cup {c} /\ pc'[c] \in {"critical", "stopped"}
    BY <1>3, <1>w DEF Granted
  <2>2. Apart /\ \A i \in 1..Len(waiters') : /\ i + 1 \in 1..Len(waiters)
                                             /\ waiters'[i] = waiters[i + 1]
    BY <2>1, SuffixFacts
  <2>3. ASSUME NEW i \in 1..Len(waiters') PROVE waiters'[i] \notin DOMAIN holders'
    <3>1. waiters[i + 1] # waiters[1]
      BY <2>2, <2>1 DEF OnePlace
    <3>2. QED
      BY <3>1, <2>1, <2>2, <1>d
  <2>4. Outside
    BY <2>1, <1>o DEF BeforeLease, Acquiring
  <2>5. QED
    BY <2>2, <2>3, <2>4
<1>4. ASSUME NEW k \in 0..Len(waiters), Swept(k) PROVE Apart /\ Disjoint /\ Outside
  <2>1. IsSuffix(waiters', waiters, k) /\ DOMAIN holders' \subseteq DOMAIN holders
    BY <1>4 DEF Swept
  <2>2. Apart /\ \A i \in 1..Len(waiters') : /\ i + k \in 1..Len(waiters)
                                             /\ waiters'[i] = waiters[i + k]
    BY <2>1, SuffixFacts
  <2>3. QED
    BY <2>1, <2>2, <1>d, <1>o
<1>5. Apart /\ Disjoint /\ Outside
  <2> HIDE DEF Apart, Disjoint, Outside
  <2>1. QED
    BY <1>1, <1>2, <1>3, <1>4, QueueStep
<1>6. Range(waiters') \cap DOMAIN holders' = {}
  BY <1>5, <1>w, InQueue
<1>7. QED
  BY <1>5, <1>6 DEF OnePlace, BeforeLease

\* No client ever stands in the queue twice, or in the queue and among the holders: the
\* check in the enqueueing script and the dequeueing in the granting script suffice.
THEOREM OnePlaceCorrect == Spec => []OnePlace
<1>1. Init => OnePlace
  BY DEF Init, OnePlace, Range
<1>2. QED
  BY <1>1, OnePlaceNext, TypeCorrect, PTL DEF Spec

-----------------------------------------------------------------------------
(* First come, first served. *)

\* No step moves a waiter with a heartbeat behind a client it was ahead of.
LEMMA KeepsPlaceStep ==
  ASSUME TypeOK, [Next]_vars, NEW c \in Clients, NEW d \in Clients, Before(c, d), Beating(c)
  PROVE  Before(c, d)' \/ c \in DOMAIN holders'
<1>1. PICK i \in 1..Len(waiters), j \in 1..Len(waiters) :
        i < j /\ waiters[i] = c /\ waiters[j] = d
  BY DEF Before
<1>2. waiters \in Seq(Clients) /\ Len(waiters) \in Nat
  BY DEF TypeOK
<1>3. CASE waiters' = waiters
  BY <1>1, <1>3 DEF Before
<1>4. ASSUME NEW e \in Clients, Joins(e) PROVE Before(c, d)'
  <2>1. /\ Len(waiters') = Len(waiters) + 1
        /\ \A k \in 1..Len(waiters) : waiters'[k] = waiters[k]
    BY <1>2, <1>4, AppendProperties DEF Joins
  <2>2. i \in 1..Len(waiters') /\ j \in 1..Len(waiters') /\ waiters'[i] = c /\ waiters'[j] = d
    BY <1>1, <1>2, <2>1
  <2>3. QED
    BY <1>1, <2>2 DEF Before
<1>5. ASSUME NEW k \in Nat, IsSuffix(waiters', waiters, k), k < i PROVE Before(c, d)'
  <2>1. i - k \in 1..Len(waiters') /\ j - k \in 1..Len(waiters') /\ i - k < j - k
    BY <1>1, <1>2, <1>5 DEF IsSuffix
  <2>2. waiters'[i - k] = waiters[(i - k) + k] /\ waiters'[j - k] = waiters[(j - k) + k]
    BY <1>5, <2>1 DEF IsSuffix
  <2>3. (i - k) + k = i /\ (j - k) + k = j
    BY <1>1, <1>2, <1>5
  <2>4. QED
    BY <1>1, <2>1, <2>2, <2>3 DEF Before
<1>6. ASSUME NEW e \in Clients, Granted(e) PROVE Before(c, d)' \/ c \in DOMAIN holders'
  <2>1. CASE i = 1
    BY <1>1, <1>2, <1>6, <2>1 DEF Granted
  <2>2. CASE 1 < i
    BY <1>5, <1>6, <2>2 DEF Granted
  <2>3. QED
    BY <2>1, <2>2, <1>1, <1>2
<1>7. ASSUME NEW k \in 0..Len(waiters), Swept(k) PROVE Before(c, d)'
  <2>1. c \in DOMAIN heartbeats'
    BY <1>7 DEF Swept
  <2>2. k < i
    BY <1>1, <1>2, <1>7, <2>1 DEF Swept
  <2>3. QED
    BY <1>2, <1>5, <1>7, <2>2 DEF Swept
<1>8. QED
  BY <1>3, <1>4, <1>6, <1>7, QueueStep

\* First come, first served, whatever cleans up, crashes or beats late elsewhere.
THEOREM KeepsPlaceCorrect == Spec => KeepsPlace
<1> DEFINE Kept == \A c, d \in Clients :
                     Before(c, d) /\ Beating(c) => Before(c, d)' \/ c \in DOMAIN holders'
<1>1. TypeOK /\ [Next]_vars => Kept
  BY KeepsPlaceStep
<1>2. QED
  BY <1>1, TypeCorrect, PTL DEF Spec, KeepsPlace
=============================================================================
