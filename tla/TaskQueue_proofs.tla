-------------------------- MODULE TaskQueue_proofs --------------------------
(* Proofs about TaskQueue. *)
EXTENDS TaskQueue, TLAPS

-----------------------------------------------------------------------------
(* The parts of the invariant. *)

\* An entry has its id from XADD on; the group has delivered ids in order.
Ids ==
  /\ delivered <= lastId
  /\ \A r \in Requests : id[r] <= lastId
  /\ \A r \in Requests : pc[r] \in {"idle"} \cup Enqueuing => id[r] = 0
  /\ \A r \in stream : id[r] > 0
  /\ \A r \in pending \cup served : 0 < id[r] /\ id[r] <= delivered

\* What a message announces is stored.
Announced ==
  \A r \in Requests : \A i \in 1..Len(inbox[r]) :
    key[r] # None /\ (inbox[r][i] = "complete" => Ended(r))

\* What a worker is about to do agrees with the key of its run.
Working ==
  /\ \A w \in Workers :
       /\ IF work[w] \in Serving THEN job[w] \in served ELSE job[w] = None
       /\ work[w] \in {"run", "partial"} => ~Ended(job[w])
       /\ work[w] = "partial" => key[job[w]] # None
       /\ work[w] \in {"complete", "ack"} => Ended(job[w])
       /\ told[w] => work[w] \in Serving /\ pc[job[w]] \in Gone
  /\ \A v, w \in Workers : work[v] \in Serving /\ work[w] \in Serving /\ job[v] = job[w] => v = w
  /\ \A r \in Requests \ served : key[r] = None

-----------------------------------------------------------------------------
LEMMA TypeNext ==
  ASSUME QueueAssumption, TypeOK, Announced, Working, [Next]_vars
  PROVE  TypeOK'
<1> USE DEF TypeOK, redis, requester, worker, Goto
<1>0. None \notin Requests /\ None \notin Result
  BY DEF QueueAssumption
<1>w. world \in World
  BY DEF QueueAssumption
<1>1. ASSUME NEW r \in Requests, Request(r) PROVE TypeOK'
  BY <1>1 DEF Request, Waiting, Enqueuing
<1>2. ASSUME NEW r \in Requests, PendingRange(r) PROVE TypeOK'
  BY <1>2 DEF PendingRange, Waiting, Enqueuing, Gone
<1>3. ASSUME NEW r \in Requests, AckStale(r) PROVE TypeOK'
  BY <1>3 DEF AckStale, Waiting, Enqueuing, Oldest
<1>4. ASSUME NEW r \in Requests, DeleteStale(r) PROVE TypeOK'
  BY <1>4 DEF DeleteStale, Waiting, Enqueuing, Oldest
<1>5. ASSUME NEW r \in Requests, OldestPending(r) PROVE TypeOK'
  BY <1>5 DEF OldestPending, Waiting, Enqueuing, Oldest
<1>6. ASSUME NEW r \in Requests, Trim(r) PROVE TypeOK'
  BY <1>6 DEF Trim, Waiting, Enqueuing
<1>7. ASSUME NEW r \in Requests, Add(r) PROVE TypeOK'
  BY <1>7 DEF Add, Waiting, Enqueuing
<1>8. ASSUME NEW r \in Requests, Subscribe(r) PROVE TypeOK'
  BY <1>8 DEF Subscribe, Waiting, Enqueuing
<1>9. ASSUME NEW r \in Requests, ReceivePartial(r) PROVE TypeOK'
  <2>1. inbox[r] \in Seq({"partial", "complete"}) /\ inbox[r] # <<>>
    BY <1>9 DEF ReceivePartial
  <2>2. Tail(inbox[r]) \in Seq({"partial", "complete"}) /\ 1 \in 1..Len(inbox[r])
    BY <2>1
  <2>3. key[r] \in Result /\ key[r].chunk \in Nat
    BY <2>2 DEF Announced, Result
  <2>4. Append(chunks[r], key[r].chunk) \in Seq(Nat)
    BY <2>3
  <2>5. inbox' \in [Requests -> Seq({"partial", "complete"})]
    BY <1>9, <2>2 DEF ReceivePartial
  <2>6. chunks' \in [Requests -> Seq(Nat)]
    BY <1>9, <2>4 DEF ReceivePartial
  <2>7. pc' \in [Requests -> {"idle", "answered"} \cup Waiting \cup Gone]
    BY <1>9 DEF ReceivePartial, Gone
  <2> QED
    BY <1>9, <2>5, <2>6, <2>7 DEF ReceivePartial
<1>10. ASSUME NEW r \in Requests, ReceiveComplete(r) PROVE TypeOK'
  <2>1. inbox[r] \in Seq({"partial", "complete"}) /\ inbox[r] # <<>>
    BY <1>10 DEF ReceiveComplete
  <2>2. /\ Tail(inbox[r]) \in Seq({"partial", "complete"})
        /\ 1 \in 1..Len(inbox[r]) /\ inbox[r][1] = Head(inbox[r])
    BY <2>1
  <2>3. Ended(r)
    BY <1>10, <2>2 DEF Announced, ReceiveComplete
  <2>4. key[r].final \in {"value", "error", "cancelled"}
    BY <2>3 DEF Ended, Result
  <2>5. inbox' \in [Requests -> Seq({"partial", "complete"})]
    BY <1>10, <2>2 DEF ReceiveComplete
  <2>6. answer' \in [Requests -> {"value", "error", "cancelled", None}]
    BY <1>10, <2>4 DEF ReceiveComplete
  <2>7. pc' \in [Requests -> {"idle", "answered"} \cup Waiting \cup Gone]
    BY <1>10 DEF ReceiveComplete
  <2> QED
    BY <1>10, <2>5, <2>6, <2>7 DEF ReceiveComplete
<1>11. ASSUME NEW r \in Requests, Leave(r) PROVE TypeOK'
  <2>1. pc' \in [Requests -> {"idle", "answered"} \cup Waiting \cup Gone]
    BY <1>11 DEF Leave, Gone
  <2>2. inbox' \in [Requests -> Seq({"partial", "complete"})]
    BY <1>11 DEF Leave
  <2> QED
    BY <1>11, <2>1, <2>2 DEF Leave
<1>12. ASSUME NEW r \in Requests, PublishCancelled(r) PROVE TypeOK'
  BY <1>12 DEF PublishCancelled, Gone
<1>13. ASSUME NEW w \in Workers, SetupQueue(w) PROVE TypeOK'
  BY <1>13 DEF SetupQueue
<1>14. ASSUME NEW w \in Workers, Dequeue(w) PROVE TypeOK'
  <2>1. PICK r \in NextMessage :
          /\ delivered' = id[r] /\ pending' = pending \cup {r}
          /\ \/ /\ work' = [work EXCEPT ![w] = "run"]
                /\ job' = [job EXCEPT ![w] = r]
                /\ served' = served \cup {r}
             \/ /\ work' = [work EXCEPT ![w] = IF leaving[w] THEN "stopped" ELSE "read"]
                /\ UNCHANGED <<job, served>>
    BY <1>14 DEF Dequeue
  <2>2. r \in Requests /\ r \in stream
    BY DEF NextMessage, Oldest
  <2>3. work' \in [Workers -> {"setup", "read", "stopped"} \cup Serving]
    BY <2>1 DEF Serving
  <2>4. job' \in [Workers -> Requests \cup {None}] /\ served' \subseteq Requests
    BY <2>1, <2>2
  <2>5. delivered' \in Nat /\ pending' \subseteq Requests
    BY <2>1, <2>2
  <2> QED
    BY <1>14, <2>3, <2>4, <2>5 DEF Dequeue
<1>15. ASSUME NEW w \in Workers, ListenForCancel(w) PROVE TypeOK'
  BY <1>15 DEF ListenForCancel
<1>16. ASSUME NEW w \in Workers, StoreChunk(w) PROVE TypeOK'
  <2>1. job[w] \in Requests
    BY <1>16 DEF StoreChunk, Working, Serving
  <2>2. LastChunk(job[w]) \in Nat
    BY <2>1 DEF LastChunk, Result
  <2>3. [chunk |-> LastChunk(job[w]) + 1, final |-> "no"] \in Result
    BY <2>2 DEF Result
  <2> QED
    BY <1>16, <2>3 DEF StoreChunk, Serving
<1>17. ASSUME NEW w \in Workers, StoreResult(w) PROVE TypeOK'
  <2>1. job[w] \in Requests
    BY <1>17 DEF StoreResult, Working, Serving
  <2>2. LastChunk(job[w]) \in Nat
    BY <2>1 DEF LastChunk, Result
  <2>3. \A o \in {"value", "error", "cancelled"} :
          [chunk |-> LastChunk(job[w]), final |-> o] \in Result
    BY <2>2 DEF Result
  <2>4. PICK o \in {"value", "error", "cancelled"} :
          key' = [key EXCEPT ![job[w]] = [chunk |-> LastChunk(job[w]), final |-> o]]
    BY <1>17 DEF StoreResult
  <2>5. key' \in [Requests -> Result \cup {None}]
    BY <2>1, <2>3, <2>4
  <2> QED
    BY <1>17, <2>5 DEF StoreResult, Serving
<1>18. ASSUME NEW w \in Workers, PublishPartial(w) PROVE TypeOK'
  <2>1. inbox' \in [Requests -> Seq({"partial", "complete"})]
    BY <1>18 DEF PublishPartial, Publish, Working, Serving
  <2> QED
    BY <1>18, <2>1 DEF PublishPartial, Serving
<1>19. ASSUME NEW w \in Workers, PublishComplete(w) PROVE TypeOK'
  <2>1. inbox' \in [Requests -> Seq({"partial", "complete"})]
    BY <1>19 DEF PublishComplete, Publish, Working, Serving
  <2> QED
    BY <1>19, <2>1 DEF PublishComplete, Serving
<1>20. ASSUME NEW w \in Workers, Acknowledge(w) PROVE TypeOK'
  BY <1>20 DEF Acknowledge
<1>21. ASSUME NEW w \in Workers, Shutdown(w) PROVE TypeOK'
  BY <1>21 DEF Shutdown
<1>22. ASSUME NEW w \in Workers, StopReading(w) PROVE TypeOK'
  BY <1>22 DEF StopReading
<1>23. ASSUME NEW w \in Workers, Crash(w) PROVE TypeOK'
  BY <1>23 DEF Crash
<1>24. ASSUME GrowOld PROVE TypeOK'
  BY <1>24 DEF GrowOld
<1>25. ASSUME UNCHANGED vars PROVE TypeOK'
  BY <1>25 DEF vars
<1> QED
  BY <1>1, <1>2, <1>3, <1>4, <1>5, <1>6, <1>7, <1>8, <1>9, <1>10, <1>11, <1>12, <1>13, <1>14,
     <1>15, <1>16, <1>17, <1>18, <1>19, <1>20, <1>21, <1>22, <1>23, <1>24, <1>25
  DEF Next, Enqueue, Listen, Serve

-----------------------------------------------------------------------------
LEMMA IdsNext ==
  ASSUME TypeOK, Ids, [Next]_vars
  PROVE  Ids'
<1> USE DEF TypeOK, Ids, redis, requester, worker, Goto
<1>1. ASSUME NEW r \in Requests, Request(r) PROVE Ids'
  BY <1>1 DEF Request, Enqueuing
<1>2. ASSUME NEW r \in Requests, PendingRange(r) PROVE Ids'
  BY <1>2 DEF PendingRange, Enqueuing
<1>3. ASSUME NEW r \in Requests, AckStale(r) PROVE Ids'
  BY <1>3 DEF AckStale, Enqueuing
<1>4. ASSUME NEW r \in Requests, DeleteStale(r) PROVE Ids'
  BY <1>4 DEF DeleteStale, Enqueuing
<1>5. ASSUME NEW r \in Requests, OldestPending(r) PROVE Ids'
  BY <1>5 DEF OldestPending, Enqueuing
<1>6. ASSUME NEW r \in Requests, Trim(r) PROVE Ids'
  BY <1>6 DEF Trim, Enqueuing
<1>7. ASSUME NEW r \in Requests, Add(r) PROVE Ids'
  BY <1>7 DEF Add, Enqueuing
<1>8. ASSUME NEW r \in Requests, Listen(r) PROVE Ids'
  BY <1>8 DEF Listen, Subscribe, ReceivePartial, ReceiveComplete, PublishCancelled, Enqueuing
<1>9. ASSUME NEW r \in Requests, Leave(r) PROVE Ids'
  BY <1>9 DEF Leave, Enqueuing
<1>10. ASSUME NEW w \in Workers, Dequeue(w) PROVE Ids'
  <2>1. PICK r \in NextMessage :
          /\ delivered' = id[r] /\ pending' = pending \cup {r}
          /\ served' \subseteq served \cup {r}
    BY <1>10 DEF Dequeue
  <2>2. r \in Requests /\ r \in stream /\ id[r] > delivered
    BY DEF NextMessage, Oldest
  <2>3. delivered' \in Nat /\ delivered' > delivered /\ delivered' <= lastId /\ delivered' > 0
    BY <2>1, <2>2
  <2> QED
    BY <1>10, <2>1, <2>2, <2>3 DEF Dequeue
<1>11. ASSUME NEW w \in Workers, Acknowledge(w) PROVE Ids'
  BY <1>11 DEF Acknowledge
<1>12. ASSUME UNCHANGED <<stream, id, lastId, delivered, pending, pc, served>> PROVE Ids'
  BY <1>12
<1>13. ASSUME NEW w \in Workers,
              SetupQueue(w) \/ ListenForCancel(w) \/ StoreChunk(w) \/ StoreResult(w)
                \/ PublishPartial(w) \/ PublishComplete(w) \/ StopReading(w) \/ Shutdown(w) \/ Crash(w)
       PROVE  Ids'
  BY <1>12, <1>13 DEF SetupQueue, ListenForCancel, StoreChunk, StoreResult, PublishPartial,
     PublishComplete, StopReading, Shutdown, Crash
<1>14. ASSUME GrowOld \/ UNCHANGED vars PROVE Ids'
  BY <1>12, <1>14 DEF GrowOld, vars
<1> QED
  BY <1>1, <1>2, <1>3, <1>4, <1>5, <1>6, <1>7, <1>8, <1>9, <1>10, <1>11, <1>13, <1>14
  DEF Next, Enqueue, Serve

-----------------------------------------------------------------------------
LEMMA WorkNext ==
  ASSUME QueueAssumption, TypeOK, Ids, Announced, Working, [Next]_vars
  PROVE  Announced' /\ Working'
<1> USE DEF TypeOK, redis, requester, worker, Goto
<1>0. None \notin Requests /\ None \notin Result
  BY DEF QueueAssumption
<1>1. ASSUME UNCHANGED <<key, work, job, told, served>>, UNCHANGED inbox,
             \A q \in Requests : pc[q] \in Gone => pc'[q] \in Gone
      PROVE  Announced' /\ Working'
  <2>1. Announced'
    BY <1>1 DEF Announced, Ended
  <2>2. Working'
    BY <1>1 DEF Working, Ended, Serving
  <2> QED
    BY <2>1, <2>2
<1>2. ASSUME NEW r \in Requests, Request(r) \/ Enqueue(r) \/ Subscribe(r)
      PROVE  Announced' /\ Working'
  <2>1. UNCHANGED <<key, work, job, told, served>> /\ UNCHANGED inbox
    BY <1>2 DEF Request, Enqueue, PendingRange, AckStale, DeleteStale, OldestPending, Trim, Add,
       Subscribe
  <2>2. \A q \in Requests : pc[q] \in Gone => pc'[q] \in Gone
    BY <1>2 DEF Request, Enqueue, PendingRange, AckStale, DeleteStale, OldestPending, Trim, Add,
       Subscribe, Gone
  <2> QED
    BY <1>1, <2>1, <2>2
<1>3. ASSUME NEW r \in Requests, ReceivePartial(r) \/ ReceiveComplete(r)
      PROVE  Announced' /\ Working'
  <2>1. /\ inbox[r] \in Seq({"partial", "complete"}) /\ inbox[r] # <<>>
        /\ inbox' = [inbox EXCEPT ![r] = Tail(@)]
        /\ UNCHANGED <<key, work, job, told, served>>
    BY <1>3 DEF ReceivePartial, ReceiveComplete
  <2>2. \A i \in 1..Len(inbox'[r]) : i + 1 \in 1..Len(inbox[r]) /\ inbox'[r][i] = inbox[r][i + 1]
    BY <2>1
  <2>3. Announced'
    BY <2>1, <2>2 DEF Announced, Ended
  <2>4. \A q \in Requests : pc[q] \in Gone => pc'[q] \in Gone
    BY <1>3 DEF ReceivePartial, ReceiveComplete, Gone
  <2>5. Working'
    BY <2>1, <2>4 DEF Working, Ended, Serving
  <2> QED
    BY <2>3, <2>5
<1>4. ASSUME NEW r \in Requests, Leave(r) PROVE Announced' /\ Working'
  <2>1. /\ inbox' = [inbox EXCEPT ![r] = <<>>]
        /\ UNCHANGED <<key, work, job, told, served>>
    BY <1>4 DEF Leave
  <2>2. \A q \in Requests : pc[q] \in Gone => pc'[q] \in Gone
    BY <1>4 DEF Leave, Gone
  <2>3. Announced'
    BY <2>1 DEF Announced, Ended
  <2>4. Working'
    BY <2>1, <2>2 DEF Working, Ended, Serving
  <2> QED
    BY <2>3, <2>4
<1>5. ASSUME NEW r \in Requests, PublishCancelled(r) PROVE Announced' /\ Working'
  <2>1. Announced'
    BY <1>5 DEF PublishCancelled, Announced, Ended
  <2>2. UNCHANGED <<key, work, job, served>>
    BY <1>5 DEF PublishCancelled
  <2>3. \A q \in Requests : pc[q] \in Gone => pc'[q] \in Gone
    BY <1>5 DEF PublishCancelled, Gone
  <2>4. pc'[r] \in Gone
    BY <1>5 DEF PublishCancelled, Gone
  <2>5. \A w \in Workers : told'[w] => told[w] \/ (hears[w] /\ job[w] = r)
    BY <1>5 DEF PublishCancelled
  <2> QED
    BY <1>0, <2>1, <2>2, <2>3, <2>4, <2>5 DEF Working, Ended, Serving
<1>6. ASSUME NEW w \in Workers, SetupQueue(w) \/ StopReading(w) PROVE Announced' /\ Working'
  <2>1. Announced'
    BY <1>6 DEF SetupQueue, StopReading, Announced, Ended
  <2>2. /\ UNCHANGED <<key, pc, job, told, served>>
        /\ work[w] \notin Serving
        /\ \E label \in {"read", "stopped"} : work' = [work EXCEPT ![w] = label]
    BY <1>6 DEF SetupQueue, StopReading, Serving
  <2>3. Working'
    BY <2>2 DEF Working, Ended, Serving
  <2> QED
    BY <2>1, <2>3
<1>7. ASSUME NEW w \in Workers, Dequeue(w) PROVE Announced' /\ Working'
  <2>1. PICK r \in NextMessage :
          \/ /\ work' = [work EXCEPT ![w] = "run"]
             /\ job' = [job EXCEPT ![w] = r]
             /\ served' = served \cup {r}
          \/ /\ work' = [work EXCEPT ![w] = IF leaving[w] THEN "stopped" ELSE "read"]
             /\ UNCHANGED <<job, served>>
    BY <1>7 DEF Dequeue
  <2>2. r \in Requests /\ r \notin served
    BY DEF NextMessage, Oldest, Ids
  <2>3. work[w] = "read" /\ UNCHANGED <<key, inbox, pc, told>>
    BY <1>7 DEF Dequeue
  <2>4. Announced'
    BY <2>3 DEF Announced, Ended
  <2>5. CASE UNCHANGED <<job, served>> /\ work' = [work EXCEPT ![w] = IF leaving[w] THEN "stopped" ELSE "read"]
    <3>1. /\ work'[w] \notin Serving /\ work[w] \notin Serving
          /\ \A v \in Workers \ {w} : work'[v] = work[v]
      BY <2>3, <2>5 DEF Serving
    <3>2. UNCHANGED <<key, pc, told, job, served>>
      BY <2>3, <2>5
    <3> QED
      BY <2>4, <3>1, <3>2 DEF Working, Ended, Serving
  <2>6. CASE /\ work' = [work EXCEPT ![w] = "run"]
             /\ job' = [job EXCEPT ![w] = r]
             /\ served' = served \cup {r}
    <3>1. /\ work'[w] = "run" /\ job'[w] = r /\ r \in served' /\ served \subseteq served'
          /\ \A v \in Workers \ {w} : work'[v] = work[v] /\ job'[v] = job[v]
      BY <2>6
    <3>2. key[r] = None /\ ~told[w] /\ \A v \in Workers : work[v] \in Serving => job[v] # r
      BY <2>2, <2>3 DEF Working, Serving
    <3>3. \A v \in Workers :
            /\ IF work'[v] \in Serving THEN job'[v] \in served' ELSE job'[v] = None
            /\ work'[v] \in {"run", "partial"} => ~Ended(job[v])'
            /\ work'[v] = "partial" => key'[job'[v]] # None
            /\ work'[v] \in {"complete", "ack"} => Ended(job[v])'
            /\ told'[v] => work'[v] \in Serving /\ pc'[job'[v]] \in Gone
      <4> TAKE v \in Workers
      <4>1. CASE v = w
        BY <2>3, <3>1, <3>2, <4>1 DEF Serving, Ended
      <4>2. CASE v # w
        BY <2>3, <3>1, <4>2 DEF Working, Ended
      <4> QED
        BY <4>1, <4>2
    <3>4. \A u, v \in Workers :
            work'[u] \in Serving /\ work'[v] \in Serving /\ job'[u] = job'[v] => u = v
      BY <3>1, <3>2 DEF Working
    <3>5. \A q \in Requests \ served' : key'[q] = None
      BY <2>3, <3>1 DEF Working
    <3> QED
      BY <2>4, <3>3, <3>4, <3>5 DEF Working
  <2> QED
    BY <2>1, <2>4, <2>5, <2>6
<1>8. ASSUME NEW w \in Workers, StoreChunk(w) PROVE Announced' /\ Working'
  <2>1. /\ job[w] \in served /\ job[w] \in Requests /\ ~Ended(job[w])
        /\ key' = [key EXCEPT ![job[w]] = [chunk |-> LastChunk(job[w]) + 1, final |-> "no"]]
        /\ work[w] = "run" /\ work' = [work EXCEPT ![w] = "partial"]
        /\ UNCHANGED <<inbox, pc, job, told, served>>
    BY <1>8 DEF StoreChunk, Working, Serving
  <2>2. LastChunk(job[w]) \in Nat
    BY <2>1 DEF LastChunk, Result
  <2>3. key'[job[w]] # None /\ key'[job[w]].final = "no"
    BY <1>0, <2>1, <2>2 DEF Result
  <2>4. \A r \in Requests \ {job[w]} : key'[r] = key[r]
    BY <2>1
  <2>5. Announced'
    BY <2>1, <2>3, <2>4 DEF Announced, Ended
  <2>6. Working'
    BY <2>1, <2>3, <2>4 DEF Working, Ended, Serving
  <2> QED
    BY <2>5, <2>6
<1>9. ASSUME NEW w \in Workers, StoreResult(w) PROVE Announced' /\ Working'
  <2>1. /\ job[w] \in served /\ job[w] \in Requests /\ ~Ended(job[w])
        /\ work[w] = "run" /\ work' = [work EXCEPT ![w] = "complete"]
        /\ UNCHANGED <<inbox, pc, job, told, served>>
    BY <1>9 DEF StoreResult, Working, Serving
  <2>2. LastChunk(job[w]) \in Nat
    BY <2>1 DEF LastChunk, Result
  <2>3. PICK o \in {"value", "error", "cancelled"} :
          key' = [key EXCEPT ![job[w]] = [chunk |-> LastChunk(job[w]), final |-> o]]
    BY <1>9 DEF StoreResult
  <2>4. key'[job[w]] # None /\ key'[job[w]].final # "no"
    BY <1>0, <2>1, <2>2, <2>3 DEF Result
  <2>5. \A r \in Requests \ {job[w]} : key'[r] = key[r]
    BY <2>1, <2>3
  <2>6. Announced'
    BY <2>1, <2>4, <2>5 DEF Announced, Ended
  <2>7. Working'
    BY <2>1, <2>4, <2>5 DEF Working, Ended, Serving
  <2> QED
    BY <2>6, <2>7
<1>10. ASSUME NEW w \in Workers, PublishPartial(w) \/ PublishComplete(w)
       PROVE  Announced' /\ Working'
  <2>1. PICK m \in {"partial", "complete"} :
          /\ Publish(job[w], m)
          /\ work[w] = m /\ work' = [work EXCEPT ![w] = IF m = "partial" THEN "run" ELSE "ack"]
          /\ UNCHANGED <<key, pc, job, told, served>>
    BY <1>10 DEF PublishPartial, PublishComplete
  <2>2. job[w] \in Requests /\ key[job[w]] # None /\ (m = "complete" => Ended(job[w]))
    BY <1>0, <2>1 DEF Working, Serving, Ended
  <2>3. \A r \in Requests :
          \/ inbox'[r] = inbox[r]
          \/ r = job[w] /\ inbox'[r] = Append(inbox[r], m)
    BY <2>1, <2>2 DEF Publish
  <2>4. \A r \in Requests : \A i \in 1..Len(inbox'[r]) :
          \/ i \in 1..Len(inbox[r]) /\ inbox'[r][i] = inbox[r][i]
          \/ r = job[w] /\ inbox'[r][i] = m
    <3> SUFFICES ASSUME NEW r \in Requests, NEW i \in 1..Len(inbox'[r])
                 PROVE  \/ i \in 1..Len(inbox[r]) /\ inbox'[r][i] = inbox[r][i]
                        \/ r = job[w] /\ inbox'[r][i] = m
      OBVIOUS
    <3>1. inbox[r] \in Seq({"partial", "complete"})
      OBVIOUS
    <3>2. CASE inbox'[r] = inbox[r]
      BY <3>2
    <3>3. CASE r = job[w] /\ inbox'[r] = Append(inbox[r], m)
      <4>1. /\ Len(inbox'[r]) = Len(inbox[r]) + 1 /\ inbox'[r][Len(inbox[r]) + 1] = m
            /\ \A j \in 1..Len(inbox[r]) : inbox'[r][j] = inbox[r][j]
        BY <3>1, <3>3
      <4> QED
        BY <3>1, <3>3, <4>1
    <3> QED
      BY <2>3, <3>2, <3>3
  <2>5. Announced'
    BY <2>1, <2>2, <2>4 DEF Announced, Ended
  <2>6. Working'
    BY <2>1 DEF Working, Ended, Serving
  <2> QED
    BY <2>5, <2>6
<1>11. ASSUME NEW w \in Workers, Acknowledge(w) \/ Crash(w) PROVE Announced' /\ Working'
  <2>1. /\ UNCHANGED <<key, inbox, pc, served>>
        /\ work' = [work EXCEPT ![w] = "stopped"] \/ work' = [work EXCEPT ![w] = "read"]
        /\ job' = [job EXCEPT ![w] = None] /\ told' = [told EXCEPT ![w] = FALSE]
    BY <1>11 DEF Acknowledge, Crash
  <2>2. Announced'
    BY <2>1 DEF Announced, Ended
  <2>3. Working'
    BY <2>1 DEF Working, Ended, Serving
  <2> QED
    BY <2>2, <2>3
<1>12. ASSUME \/ GrowOld \/ UNCHANGED vars
              \/ \E w \in Workers : ListenForCancel(w) \/ Shutdown(w)
       PROVE  Announced' /\ Working'
  BY <1>1, <1>12 DEF GrowOld, vars, ListenForCancel, Shutdown
<1> QED
  BY <1>2, <1>3, <1>4, <1>5, <1>6, <1>7, <1>8, <1>9, <1>10, <1>11, <1>12 DEF Next, Listen, Serve

\* The parts are inductive together.
Inv == TypeOK /\ Ids /\ Announced /\ Working

LEMMA InvInit == ASSUME QueueAssumption, Init PROVE Inv
<1>1. TypeOK
  <2>1. <<>> \in Seq({"partial", "complete"}) /\ <<>> \in Seq(Nat)
    OBVIOUS
  <2>2. /\ inbox \in [Requests -> Seq({"partial", "complete"})]
        /\ chunks \in [Requests -> Seq(Nat)]
    BY <2>1 DEF Init
  <2> QED
    BY <2>2 DEF Init, TypeOK
<1>2. Ids /\ Announced /\ Working
  BY DEF Init, Ids, Announced, Working, Ended, Serving
<1> QED
  BY <1>1, <1>2 DEF Inv

LEMMA InvNext == ASSUME QueueAssumption, Inv, [Next]_vars PROVE Inv'
BY TypeNext, IdsNext, WorkNext DEF Inv

LEMMA InvAlways == Spec => []Inv
<1>1. Init => Inv
  BY QueueAssumption, InvInit
<1>2. Inv /\ [Next]_vars => Inv'
  BY QueueAssumption, InvNext
<1> QED
  BY <1>1, <1>2, PTL DEF Spec

\* The values of requesters, workers and keys, in every state.
THEOREM TypeCorrect == Spec => []TypeOK
<1>1. Inv => TypeOK
  BY DEF Inv
<1> QED
  BY <1>1, InvAlways, PTL

-----------------------------------------------------------------------------
(* Trimming.                                                               *)

\* What a clean-up has read is below what is still needed, until it acts on it.
Trims ==
  /\ \A q \in Requests : \A t \in todo[q] : 0 < id[t] /\ id[t] <= delivered
  /\ \A q, s \in Requests :
       pc[q] = "trim" /\ (id[s] > delivered \/ s \in pending) => \A t \in todo[q] : id[t] <= id[s]
  /\ \A q \in Requests : pc[q] = "xdel" => Oldest(todo[q]) \cap pending = {}

LEMMA TrimsNext ==
  ASSUME Inv, Trims, NothingTrimmed, [Next]_vars
  PROVE  Trims' /\ NothingTrimmed'
<1> USE DEF redis, requester, worker, Goto
<1>0. TypeOK /\ Ids
  BY DEF Inv
<1>1. ASSUME UNCHANGED <<stream, id, delivered>>, pending' \subseteq pending,
             \A q \in Requests : todo'[q] \subseteq todo[q],
             \A q \in Requests : pc'[q] = "trim" => pc[q] = "trim",
             \A q \in Requests : pc'[q] = "xdel" => pc[q] = "xdel" /\ todo'[q] = todo[q]
      PROVE  Trims' /\ NothingTrimmed'
  <2>1. NothingTrimmed'
    BY <1>1 DEF NothingTrimmed
  <2>2. \A q \in Requests : pc'[q] = "xdel" => Oldest(todo[q])' = Oldest(todo[q])
    BY <1>1 DEF Oldest
  <2> QED
    BY <1>1, <2>1, <2>2 DEF Trims
<1>2. ASSUME NEW r \in Requests, Request(r) \/ Listen(r) \/ Leave(r) PROVE Trims' /\ NothingTrimmed'
  <2>1. /\ UNCHANGED <<stream, id, delivered, pending>>
        /\ todo' = todo \/ todo' = [todo EXCEPT ![r] = {}]
        /\ \A q \in Requests : pc'[q] # pc[q] => pc'[q] \notin {"trim", "xdel"}
        /\ \A q \in Requests : pc'[q] \in {"trim", "xdel"} => todo'[q] = todo[q]
    BY <1>0, <1>2 DEF TypeOK, Request, Listen, Leave, Subscribe, ReceivePartial, ReceiveComplete,
       PublishCancelled
  <2> QED
    BY <1>0, <1>1, <2>1 DEF TypeOK
<1>3. ASSUME NEW r \in Requests, PendingRange(r) PROVE Trims' /\ NothingTrimmed'
  <2>1. /\ UNCHANGED <<stream, id, delivered, pending>>
        /\ todo' = [todo EXCEPT ![r] = {s \in pending : id[s] <= old}]
        /\ \A q \in Requests : pc'[q] # pc[q] => pc'[q] \notin {"trim", "xdel"} /\ q = r
        /\ pc'[r] \notin {"trim", "xdel"}
    BY <1>0, <1>3 DEF TypeOK, PendingRange
  <2>2. \A t \in todo'[r] : t \in pending
    BY <1>0, <2>1 DEF TypeOK
  <2>3. \A q \in Requests \ {r} : Oldest(todo[q])' = Oldest(todo[q])
    BY <1>0, <2>1 DEF Oldest, TypeOK
  <2> QED
    BY <1>0, <2>1, <2>2, <2>3 DEF Trims, NothingTrimmed, TypeOK, Ids
<1>4. ASSUME NEW r \in Requests, AckStale(r) PROVE Trims' /\ NothingTrimmed'
  <2>1. /\ UNCHANGED <<stream, id, delivered, todo>>
        /\ pending' = pending \ Oldest(todo[r])
        /\ pc' = [pc EXCEPT ![r] = "xdel"]
    BY <1>4 DEF AckStale
  <2>2. \A q \in Requests : Oldest(todo[q])' = Oldest(todo[q])
    BY <2>1 DEF Oldest
  <2> QED
    BY <1>0, <2>1, <2>2 DEF Trims, NothingTrimmed, TypeOK
<1>5. ASSUME NEW r \in Requests, DeleteStale(r) PROVE Trims' /\ NothingTrimmed'
  <2>1. /\ UNCHANGED <<id, delivered, pending>> /\ pc[r] = "xdel"
        /\ stream' = stream \ Oldest(todo[r])
        /\ todo' = [todo EXCEPT ![r] = @ \ Oldest(@)]
        /\ \A q \in Requests : pc'[q] # pc[q] => q = r
        /\ pc'[r] \notin {"trim", "xdel"}
    BY <1>0, <1>5 DEF DeleteStale, TypeOK
  <2>2. Oldest(todo[r]) \cap pending = {} /\ \A s \in Oldest(todo[r]) : id[s] <= delivered
    BY <2>1 DEF Trims, Oldest
  <2>3. NothingTrimmed'
    BY <1>0, <2>1, <2>2 DEF NothingTrimmed, TypeOK
  <2>4. \A q \in Requests \ {r} : todo'[q] = todo[q] /\ Oldest(todo[q])' = Oldest(todo[q])
    BY <1>0, <2>1 DEF Oldest, TypeOK
  <2>5. todo'[r] \subseteq todo[r]
    BY <1>0, <2>1 DEF TypeOK
  <2> QED
    BY <1>0, <2>1, <2>3, <2>4, <2>5 DEF Trims, TypeOK
<1>6. ASSUME NEW r \in Requests, OldestPending(r) PROVE Trims' /\ NothingTrimmed'
  <2>1. /\ UNCHANGED <<stream, id, delivered, pending>>
        /\ todo' = [todo EXCEPT ![r] = Oldest(pending)]
        /\ \A q \in Requests : pc'[q] # pc[q] => q = r
        /\ pc'[r] # "xdel"
    BY <1>0, <1>6 DEF OldestPending, TypeOK
  <2>2. \A t \in todo'[r] : t \in pending /\ \A s \in pending : id[t] <= id[s]
    BY <1>0, <2>1 DEF Oldest, TypeOK
  <2>3. \A q \in Requests \ {r} : todo'[q] = todo[q] /\ Oldest(todo[q])' = Oldest(todo[q])
    BY <1>0, <2>1 DEF Oldest, TypeOK
  <2>4. \A t \in todo'[r] : 0 < id[t] /\ id[t] <= delivered
    BY <1>0, <2>2 DEF Ids
  <2>5. \A s \in Requests : \A t \in todo'[r] :
          id[s] > delivered \/ s \in pending => id[t] <= id[s]
    BY <1>0, <2>2, <2>4 DEF TypeOK
  <2> QED
    BY <1>0, <2>1, <2>3, <2>4, <2>5 DEF Trims, NothingTrimmed, TypeOK
<1>7. ASSUME NEW r \in Requests, Trim(r) PROVE Trims' /\ NothingTrimmed'
  <2>1. /\ UNCHANGED <<id, delivered, pending>> /\ pc[r] = "trim"
        /\ stream' = {s \in stream : \A t \in todo[r] : id[t] <= id[s]}
        /\ todo' = [todo EXCEPT ![r] = {}]
        /\ pc' = [pc EXCEPT ![r] = "add"]
    BY <1>7 DEF Trim
  <2>2. NothingTrimmed'
    BY <1>0, <2>1 DEF NothingTrimmed, Trims, TypeOK
  <2>3. \A q \in Requests \ {r} : todo'[q] = todo[q] /\ Oldest(todo[q])' = Oldest(todo[q])
    BY <1>0, <2>1 DEF Oldest, TypeOK
  <2> QED
    BY <1>0, <2>1, <2>2, <2>3 DEF Trims, TypeOK
<1>8. ASSUME NEW r \in Requests, Add(r) PROVE Trims' /\ NothingTrimmed'
  <2>1. /\ UNCHANGED <<delivered, pending, todo>> /\ pc[r] = "add"
        /\ stream' = stream \cup {r} /\ id' = [id EXCEPT ![r] = lastId + 1]
        /\ pc' = [pc EXCEPT ![r] = "subscribe"]
    BY <1>8 DEF Add
  <2>2. id[r] = 0 /\ r \notin pending /\ lastId \in Nat /\ delivered \in Nat /\ delivered <= lastId
    BY <1>0, <2>1 DEF Ids, Enqueuing, TypeOK
  <2>3. \A q \in Requests : \A t \in todo[q] : t # r /\ t \in Requests /\ id'[t] = id[t]
    BY <1>0, <2>1, <2>2 DEF Trims, TypeOK
  <2>4. \A q \in Requests : Oldest(todo[q])' = Oldest(todo[q])
    BY <2>1, <2>3 DEF Oldest
  <2>5. \A s \in Requests \ {r} : id'[s] = id[s]
    BY <1>0, <2>1 DEF TypeOK
  <2>6. id'[r] = lastId + 1
    BY <1>0, <2>1 DEF TypeOK
  <2>7. NothingTrimmed'
    BY <2>1, <2>5 DEF NothingTrimmed
  <2>8. \A q, s \in Requests :
          pc'[q] = "trim" /\ (id'[s] > delivered \/ s \in pending) => \A t \in todo[q] : id'[t] <= id'[s]
    <3> TAKE q, s \in Requests
    <3>1. CASE s = r
      <4>1. \A t \in todo[q] : id[t] \in Nat /\ id[t] <= delivered
        BY <1>0, <2>3 DEF Trims, TypeOK
      <4> QED
        BY <2>2, <2>3, <2>6, <3>1, <4>1
    <3>2. CASE s # r
      BY <1>0, <2>1, <2>3, <2>5, <3>2 DEF Trims, TypeOK
    <3> QED
      BY <3>1, <3>2
  <2>9. \A q \in Requests : pc'[q] = "xdel" => pc[q] = "xdel"
    BY <1>0, <2>1 DEF TypeOK
  <2> QED
    BY <2>1, <2>3, <2>4, <2>7, <2>8, <2>9 DEF Trims
<1>9. ASSUME NEW w \in Workers, Dequeue(w) PROVE Trims' /\ NothingTrimmed'
  <2>1. PICK r \in NextMessage : delivered' = id[r] /\ pending' = pending \cup {r}
    BY <1>9 DEF Dequeue
  <2>2. r \in Requests /\ r \in stream /\ id[r] > delivered /\ delivered \in Nat /\ id[r] \in Nat
    BY <1>0 DEF NextMessage, Oldest, TypeOK
  <2>3. UNCHANGED <<stream, id, todo, pc>>
    BY <1>9 DEF Dequeue
  <2>4. \A q \in Requests : Oldest(todo[q])' = Oldest(todo[q])
    BY <2>3 DEF Oldest
  <2>5. \A q \in Requests : \A t \in todo[q] : id[t] \in Nat /\ 0 < id[t] /\ id[t] <= delivered /\ t # r
    BY <1>0, <2>2 DEF Trims, TypeOK
  <2>6. \A s \in Requests : id[s] \in Nat
    BY <1>0 DEF TypeOK
  <2>7. NothingTrimmed'
    BY <2>1, <2>2, <2>3, <2>6 DEF NothingTrimmed
  <2>8. \A q \in Requests : \A t \in todo[q] : 0 < id[t] /\ id[t] <= delivered'
    BY <2>1, <2>2, <2>5
  <2>9. \A q, s \in Requests :
          pc[q] = "trim" /\ (id[s] > delivered' \/ s \in pending') => \A t \in todo[q] : id[t] <= id[s]
    <3> TAKE q, s \in Requests
    <3>1. CASE s = r
      BY <2>2, <2>5, <3>1
    <3>2. CASE s # r
      BY <2>1, <2>2, <2>6, <3>2 DEF Trims
    <3> QED
      BY <3>1, <3>2
  <2>10. \A q \in Requests : pc[q] = "xdel" => Oldest(todo[q]) \cap pending' = {}
    BY <2>1, <2>5 DEF Trims, Oldest
  <2> QED
    BY <2>3, <2>4, <2>7, <2>8, <2>9, <2>10 DEF Trims
<1>10. ASSUME NEW w \in Workers, Acknowledge(w) PROVE Trims' /\ NothingTrimmed'
  BY <1>1, <1>10 DEF Acknowledge
<1>11. ASSUME NEW w \in Workers,
              SetupQueue(w) \/ ListenForCancel(w) \/ StoreChunk(w) \/ StoreResult(w)
                \/ PublishPartial(w) \/ PublishComplete(w) \/ StopReading(w) \/ Shutdown(w) \/ Crash(w)
       PROVE  Trims' /\ NothingTrimmed'
  <2>1. UNCHANGED <<stream, id, delivered, pending, pc, todo>>
    BY <1>11 DEF SetupQueue, ListenForCancel, StoreChunk, StoreResult, PublishPartial,
       PublishComplete, StopReading, Shutdown, Crash
  <2> QED
    BY <1>1, <2>1
<1>12. ASSUME GrowOld \/ UNCHANGED vars PROVE Trims' /\ NothingTrimmed'
  BY <1>1, <1>12 DEF GrowOld, vars
<1> QED
  BY <1>2, <1>3, <1>4, <1>5, <1>6, <1>7, <1>8, <1>9, <1>10, <1>11, <1>12
  DEF Next, Enqueue, Serve

\* cleanup_old_messages() never takes out of the stream what is still to be delivered or
\* acknowledged, however the clean-ups of requesters and the workers interleave.
THEOREM NothingTrimmedCorrect == Spec => []NothingTrimmed
<1>1. Init => Trims /\ NothingTrimmed
  BY DEF Init, Trims, NothingTrimmed
<1>2. Inv /\ Trims /\ NothingTrimmed /\ [Next]_vars => Trims' /\ NothingTrimmed'
  BY TrimsNext
<1> QED
  BY <1>1, <1>2, InvAlways, PTL DEF Spec

-----------------------------------------------------------------------------
(* Acknowledgement.                                                        *)

\* publish_task_result() stores before it acknowledges; what is stored as final is not
\* stored again, because nobody else serves the run.
THEOREM AckedCorrect == Spec => []AckedWithResult
<1>1. Init => AckedWithResult
  BY DEF Init, AckedWithResult
<1>2. ASSUME Inv, AckedWithResult, [Next]_vars PROVE AckedWithResult'
  <2> USE DEF redis, requester, worker
  <2>0. TypeOK /\ Working /\ AckedWithResult
    BY <1>2 DEF Inv
  <2>1. ASSUME UNCHANGED <<key, served, pending, dropped>> PROVE AckedWithResult'
    BY <2>0, <2>1 DEF AckedWithResult
  <2>2. ASSUME NEW r \in Requests, Request(r) \/ Enqueue(r) \/ Listen(r) \/ Leave(r)
        PROVE  AckedWithResult'
    <3>1. CASE AckStale(r)
      BY <2>0, <3>1 DEF AckStale, AckedWithResult
    <3>2. CASE ~AckStale(r)
      <4>1. UNCHANGED <<key, served, pending, dropped>>
        BY <2>2, <3>2 DEF Request, Enqueue, Listen, Leave, PendingRange, DeleteStale,
           OldestPending, Trim, Add, Subscribe, ReceivePartial, ReceiveComplete, PublishCancelled
      <4> QED
        BY <2>1, <4>1
    <3> QED
      BY <3>1, <3>2
  <2>3. ASSUME NEW w \in Workers, Dequeue(w) PROVE AckedWithResult'
    <3>1. PICK r \in NextMessage : pending' = pending \cup {r} /\ served' \subseteq served \cup {r}
      BY <2>3 DEF Dequeue
    <3> QED
      BY <2>0, <2>3, <3>1 DEF AckedWithResult, Dequeue
  <2>4. ASSUME NEW w \in Workers, StoreChunk(w) \/ StoreResult(w) PROVE AckedWithResult'
    <3>1. job[w] \in Requests /\ ~Ended(job[w]) /\ UNCHANGED <<pending, served, dropped>>
      BY <2>0, <2>4 DEF StoreChunk, StoreResult, Working, Serving, TypeOK
    <3>2. \A r \in Requests \ {job[w]} : key'[r] = key[r]
      BY <2>0, <2>4 DEF StoreChunk, StoreResult, TypeOK
    <3>3. ASSUME NEW r \in served \ (pending \cup dropped)
          PROVE  key'[r] # None /\ key'[r].final # "no"
      <4>1. r \in Requests /\ key[r] # None /\ key[r].final # "no"
        BY <2>0 DEF AckedWithResult, TypeOK
      <4>2. r # job[w]
        BY <4>1, <3>1 DEF Ended
      <4> QED
        BY <4>1, <4>2, <3>2
    <3> QED
      BY <3>1, <3>3 DEF AckedWithResult
  <2>5. ASSUME NEW w \in Workers, Acknowledge(w) PROVE AckedWithResult'
    <3>1. Ended(job[w]) /\ pending' = pending \ {job[w]} /\ UNCHANGED <<key, served, dropped>>
      BY <2>0, <2>5 DEF Acknowledge, Working
    <3>2. ASSUME NEW r \in served \ ((pending \ {job[w]}) \cup dropped)
          PROVE  key[r] # None /\ key[r].final # "no"
      <4>1. CASE r = job[w]
        BY <3>1, <4>1 DEF Ended
      <4>2. CASE r # job[w]
        BY <2>0, <4>2 DEF AckedWithResult
      <4> QED
        BY <4>1, <4>2
    <3> QED
      BY <3>1, <3>2 DEF AckedWithResult
  <2>6. ASSUME NEW w \in Workers,
               SetupQueue(w) \/ ListenForCancel(w) \/ PublishPartial(w) \/ PublishComplete(w)
                 \/ StopReading(w) \/ Shutdown(w) \/ Crash(w)
        PROVE  AckedWithResult'
    BY <2>6, <2>1 DEF SetupQueue, ListenForCancel, PublishPartial, PublishComplete, StopReading,
       Shutdown, Crash
  <2>7. ASSUME GrowOld \/ UNCHANGED vars PROVE AckedWithResult'
    BY <2>7, <2>1 DEF GrowOld, vars
  <2> QED
    BY <2>2, <2>3, <2>4, <2>5, <2>6, <2>7, <1>2 DEF Next, Serve
<1> QED
  BY <1>1, <1>2, InvAlways, PTL DEF Spec

-----------------------------------------------------------------------------
(* Chunks.                                                                 *)

\* What a requester has been given and what it is still told of is stored by then.
Kept == \A r \in Requests : \A i \in 1..Len(chunks[r]) : chunks[r][i] <= LastChunk(r)
Told(r, i) == inbox[r][i] = "partial" => Len(chunks[r]) + i <= LastChunk(r)
AllTold == \A r \in Requests : \A i \in 1..Len(inbox[r]) : Told(r, i)

\* What is given and what is told are at most what is stored, and less until it is announced.
Known(r) == Len(chunks[r]) + Len(inbox[r])
Due(w) ==
  /\ work[w] = "run" => Known(job[w]) <= LastChunk(job[w])
  /\ work[w] = "partial" => Known(job[w]) < LastChunk(job[w])
Ordered == ChunksInOrder /\ Kept /\ AllTold /\ \A w \in Workers : Due(w)

\* Steps that store, announce and pass on nothing; a worker may come out of its run.
LEMMA OrderedKept ==
  ASSUME Ordered, UNCHANGED <<key, chunks, inbox>>,
         \A w \in Workers : \/ work'[w] = work[w] /\ job'[w] = job[w]
                            \/ work'[w] \notin {"run", "partial"}
  PROVE  Ordered'
<1>1. \A r \in Requests : LastChunk(r)' = LastChunk(r)
  BY DEF LastChunk
<1>2. ChunksInOrder' /\ Kept' /\ AllTold'
  BY <1>1 DEF Ordered, ChunksInOrder, Kept, AllTold, Told
<1>3. ASSUME NEW w \in Workers PROVE Due(w)'
  <2>1. Due(w)
    BY DEF Ordered
  <2>2. CASE work'[w] \notin {"run", "partial"}
    BY <2>2 DEF Due
  <2>3. CASE work'[w] = work[w] /\ job'[w] = job[w]
    BY <2>1, <2>3 DEF Due, Known, LastChunk
  <2> QED
    BY <2>2, <2>3
<1> QED
  BY <1>2, <1>3 DEF Ordered

\* A worker serves its run alone, so it is the one to speak of the run's chunks.
LEMMA ServedAlone ==
  ASSUME Working, NEW w \in Workers, work[w] \in Serving, NEW v \in Workers, v # w,
         work[v] \in {"run", "partial"}
  PROVE  job[v] # job[w]
BY DEF Working, Serving

LEMMA OrderedNext ==
  ASSUME QueueAssumption, TypeOK, Ids, Announced, Working, Ordered, [Next]_vars
  PROVE  Ordered'
<1> USE DEF redis, requester, worker
<1>0. /\ inbox \in [Requests -> Seq({"partial", "complete"})]
      /\ chunks \in [Requests -> Seq(Nat)]
      /\ key \in [Requests -> Result \cup {None}]
      /\ work \in [Workers -> {"setup", "read", "stopped"} \cup Serving]
      /\ job \in [Workers -> Requests \cup {None}]
      /\ None \notin Result
  BY DEF TypeOK, QueueAssumption
<1>L. \A r \in Requests : LastChunk(r) \in Nat
  BY <1>0 DEF LastChunk, Result
<1>D. \A w \in Workers : work[w] \in Serving => job[w] \in Requests
  BY <1>0 DEF Working, TypeOK
<1>1. ASSUME UNCHANGED <<key, chunks, inbox, work, job>> PROVE Ordered'
  BY <1>1, OrderedKept
<1>2. ASSUME NEW r \in Requests,
             \/ Request(r) \/ Enqueue(r) \/ Subscribe(r) \/ PublishCancelled(r)
      PROVE  Ordered'
  <2>1. UNCHANGED <<key, chunks, inbox, work, job>>
    BY <1>2 DEF Request, Enqueue, PendingRange, AckStale, DeleteStale, OldestPending, Trim, Add,
       Subscribe, PublishCancelled
  <2> QED
    BY <1>1, <2>1
\* The subscription is gone, or loses its first message; in both cases what is left moves up.
<1>3. ASSUME NEW r \in Requests, UNCHANGED <<key, work, job>>,
             NEW c \in Seq(Nat), chunks' = [chunks EXCEPT ![r] = c],
             NEW b \in Seq({"partial", "complete"}), inbox' = [inbox EXCEPT ![r] = b],
             Len(c) + Len(b) <= Known(r),
             \A i \in 1..Len(c) : i <= c[i] /\ c[i] <= LastChunk(r) /\ \A j \in 1..i : c[j] <= c[i],
             \A i \in 1..Len(b) : b[i] = "partial" => Len(c) + i <= LastChunk(r)
      PROVE  Ordered'
  <2>1. \A s \in Requests : LastChunk(s)' = LastChunk(s)
    BY <1>3 DEF LastChunk
  <2>2. /\ chunks'[r] = c /\ inbox'[r] = b
        /\ \A s \in Requests \ {r} : chunks'[s] = chunks[s] /\ inbox'[s] = inbox[s]
    BY <1>0, <1>3
  <2>3. ChunksInOrder'
    BY <1>3, <2>2 DEF Ordered, ChunksInOrder
  <2>4. Kept'
    BY <1>3, <2>1, <2>2 DEF Ordered, Kept
  <2>5. AllTold'
    <3>1. ASSUME NEW q \in Requests, NEW i \in 1..Len(inbox'[q]), inbox'[q][i] = "partial"
          PROVE  Len(chunks'[q]) + i <= LastChunk(q)
      <4>1. CASE q = r
        BY <1>3, <2>2, <3>1, <4>1
      <4>2. CASE q # r
        BY <2>2, <3>1, <4>2 DEF Ordered, AllTold, Told
      <4> QED
        BY <4>1, <4>2
    <3> QED
      BY <2>1, <3>1 DEF AllTold, Told
  <2>6. ASSUME NEW w \in Workers PROVE Due(w)'
    <3>1. Due(w)
      BY DEF Ordered
    <3>2. CASE work[w] \in {"run", "partial"}
      <4>1. PICK q \in Requests : q = job[w]
        BY <1>D, <3>2 DEF Serving
      <4>2. Len(chunks[q]) \in Nat /\ Len(inbox[q]) \in Nat
        BY <1>0
      <4>3. Known(q) \in Nat
        <5> DEFINE n == Len(chunks[q])
                   k == Len(inbox[q])
        <5>1. n \in Nat /\ k \in Nat /\ Known(q) = n + k
          BY <4>2 DEF Known
        <5> HIDE DEF n, k
        <5> QED
          BY <5>1
      <4>4. Known(q)' \in Nat /\ Known(q)' <= Known(q) /\ Known(q) \in Nat
        <5>1. CASE q = r
          <6>1. Known(q)' = Len(c) + Len(b)
            BY <2>2, <5>1 DEF Known
          <6>2. Len(c) + Len(b) \in Nat
            BY <1>3
          <6> QED
            BY <1>3, <4>3, <5>1, <6>1, <6>2
        <5>2. CASE q # r
          <6>1. Known(q)' = Known(q)
            BY <2>2, <5>2 DEF Known
          <6> QED
            BY <4>3, <6>1
        <5> QED
          BY <5>1, <5>2
      <4>5. /\ work[w] = "run" => Known(q) <= LastChunk(q)
            /\ work[w] = "partial" => Known(q) < LastChunk(q)
        BY <3>1, <4>1 DEF Due
      <4>6. /\ work[w] = "run" => Known(q)' <= LastChunk(q)'
            /\ work[w] = "partial" => Known(q)' < LastChunk(q)'
        BY <4>4, <4>5, <1>L, <2>1
      <4> QED
        BY <1>3, <4>1, <4>6 DEF Due
    <3>3. CASE work[w] \notin {"run", "partial"}
      BY <1>3, <3>3 DEF Due
    <3> QED
      BY <3>2, <3>3
  <2> QED
    BY <2>3, <2>4, <2>5, <2>6 DEF Ordered
<1>4. ASSUME NEW r \in Requests, Leave(r) PROVE Ordered'
  <2>1. /\ chunks' = [chunks EXCEPT ![r] = chunks[r]] /\ inbox' = [inbox EXCEPT ![r] = <<>>]
        /\ UNCHANGED <<key, work, job>>
    BY <1>0, <1>4 DEF Leave
  <2>2. /\ chunks[r] \in Seq(Nat) /\ <<>> \in Seq({"partial", "complete"})
        /\ Len(chunks[r]) + Len(<<>>) <= Known(r)
    BY <1>0 DEF Known
  <2>3. \A i \in 1..Len(chunks[r]) : /\ i <= chunks[r][i] /\ chunks[r][i] <= LastChunk(r)
                                     /\ \A j \in 1..i : chunks[r][j] <= chunks[r][i]
    BY DEF Ordered, ChunksInOrder, Kept
  <2>4. \A i \in 1..Len(<<>>) : FALSE
    OBVIOUS
  <2> DEFINE c == chunks[r]
             b == <<>>
  <2>5. /\ c \in Seq(Nat) /\ b \in Seq({"partial", "complete"})
        /\ chunks' = [chunks EXCEPT ![r] = c] /\ inbox' = [inbox EXCEPT ![r] = b]
        /\ Len(c) + Len(b) <= Known(r)
        /\ \A i \in 1..Len(c) : /\ i <= c[i] /\ c[i] <= LastChunk(r)
                               /\ \A j \in 1..i : c[j] <= c[i]
        /\ \A i \in 1..Len(b) : b[i] = "partial" => Len(c) + i <= LastChunk(r)
    BY <2>1, <2>2, <2>3, <2>4
  <2> HIDE DEF b, c
  <2> QED
    BY <1>3, <2>1, <2>5
<1>5. ASSUME NEW r \in Requests, inbox[r] # <<>>
      PROVE  /\ Tail(inbox[r]) \in Seq({"partial", "complete"}) /\ 1 \in 1..Len(inbox[r])
             /\ Len(inbox[r]) \in Nat /\ Len(Tail(inbox[r])) = Len(inbox[r]) - 1
             /\ Len(Tail(inbox[r])) \in Nat
             /\ \A i \in 1..Len(Tail(inbox[r])) :
                  i + 1 \in 1..Len(inbox[r]) /\ Tail(inbox[r])[i] = inbox[r][i + 1]
  <2>1. inbox[r] \in Seq({"partial", "complete"})
    BY <1>0
  <2> QED
    BY <1>5, <2>1
<1>6. ASSUME NEW r \in Requests, ReceivePartial(r) PROVE Ordered'
  <2> DEFINE b == Tail(inbox[r])
  <2>1. /\ inbox[r] # <<>> /\ inbox[r][1] = "partial" /\ inbox' = [inbox EXCEPT ![r] = b]
        /\ UNCHANGED <<key, work, job>>
    BY <1>6 DEF ReceivePartial
  <2>2. chunks[r] \in Seq(Nat) /\ Len(chunks[r]) \in Nat
    BY <1>0
  <2>3. Told(r, 1) /\ \A i \in 1..Len(inbox[r]) : Told(r, i)
    BY <1>5, <2>1 DEF Ordered, AllTold
  <2>4. \A i \in 1..Len(b) : b[i] = "partial" => Len(chunks[r]) + (i + 1) <= LastChunk(r)
    BY <1>5, <2>1, <2>3 DEF Told
  <2>5. Len(chunks[r]) + 1 <= LastChunk(r)
    BY <2>1, <2>3 DEF Told
  <2>6. \A i \in 1..Len(chunks[r]) : /\ i <= chunks[r][i] /\ chunks[r][i] <= LastChunk(r)
                                     /\ \A j \in 1..i : chunks[r][j] <= chunks[r][i]
    BY DEF Ordered, ChunksInOrder, Kept
  <2>7. CASE chunks' = chunks
    <3>1. chunks' = [chunks EXCEPT ![r] = chunks[r]]
      BY <1>0, <2>7
    <3>2. Len(chunks[r]) + Len(b) <= Known(r)
      BY <1>5, <2>1, <2>2 DEF Known
    <3>3. Len(b) \in Nat /\ LastChunk(r) \in Nat
      BY <1>5, <2>1, <1>L
    <3> HIDE DEF b
    <3>4. \A i \in 1..Len(b) : b[i] = "partial" => Len(chunks[r]) + i <= LastChunk(r)
      <4> DEFINE n == Len(chunks[r])
      <4>1. n \in Nat /\ \A i \in 1..Len(b) : b[i] = "partial" => n + (i + 1) <= LastChunk(r)
        BY <2>2, <2>4
      <4> HIDE DEF n
      <4>2. \A i \in 1..Len(b) : b[i] = "partial" => n + i <= LastChunk(r)
        BY <3>3, <4>1
      <4> QED
        BY <4>2 DEF n
    <3>5. b \in Seq({"partial", "complete"})
      BY <1>5, <2>1 DEF b
    <3> QED
      BY <1>3, <2>1, <2>2, <2>6, <3>1, <3>2, <3>4, <3>5
  <2>8. CASE chunks' = [chunks EXCEPT ![r] = Append(chunks[r], key[r].chunk)]
    <3> DEFINE c == Append(chunks[r], LastChunk(r))
    <3>1. key[r] # None
      BY <1>5, <2>1 DEF Announced
    <3>2. chunks' = [chunks EXCEPT ![r] = c]
      BY <2>8, <3>1 DEF LastChunk
    <3>3. /\ c \in Seq(Nat) /\ Len(c) = Len(chunks[r]) + 1 /\ c[Len(chunks[r]) + 1] = LastChunk(r)
          /\ \A i \in 1..Len(chunks[r]) : c[i] = chunks[r][i]
      BY <2>2, <1>L
    <3>4. \A i \in 1..Len(c) : i \in 1..Len(chunks[r]) \/ i = Len(chunks[r]) + 1
      BY <2>2, <3>3
    <3>5. ASSUME NEW i \in 1..Len(c)
          PROVE  i <= c[i] /\ c[i] <= LastChunk(r) /\ \A j \in 1..i : c[j] <= c[i]
      <4>1. CASE i \in 1..Len(chunks[r])
        <5>1. \A j \in 1..i : j \in 1..Len(chunks[r])
          BY <4>1, <2>2
        <5> QED
          BY <2>6, <3>3, <4>1, <5>1
      <4>2. CASE i = Len(chunks[r]) + 1
        <5>1. \A j \in 1..i : c[j] <= LastChunk(r)
          BY <2>2, <2>6, <3>3, <3>4, <4>2, <1>L
        <5> QED
          BY <2>5, <3>3, <4>2, <5>1, <1>L
      <4> QED
        BY <3>4, <4>1, <4>2
    <3> HIDE DEF c
    <3>9. Len(b) \in Nat /\ Len(b) = Len(inbox[r]) - 1
      BY <1>5, <2>1
    <3> HIDE DEF b
    <3>6. Len(c) + Len(b) <= Known(r)
      <4> DEFINE n == Len(chunks[r])
                 k == Len(inbox[r])
      <4>1. n \in Nat /\ k \in Nat /\ Len(c) = n + 1 /\ Len(b) = k - 1 /\ Known(r) = n + k
        BY <1>5, <2>1, <2>2, <3>3, <3>9 DEF Known
      <4> HIDE DEF n, k
      <4> QED
        BY <4>1
    <3>7. \A i \in 1..Len(b) : b[i] = "partial" => Len(c) + i <= LastChunk(r)
      <4>1. \A i \in 1..Len(b) : i \in Int /\ Len(c) + i = Len(chunks[r]) + (i + 1)
        <5> DEFINE n == Len(chunks[r])
        <5>1. n \in Nat /\ Len(c) = n + 1
          BY <2>2, <3>3
        <5> HIDE DEF n
        <5>2. \A i \in 1..Len(b) : i \in Int /\ Len(c) + i = n + (i + 1)
          BY <3>9, <5>1
        <5> QED
          BY <5>2 DEF n
      <4> QED
        BY <2>4, <4>1
    <3>8. b \in Seq({"partial", "complete"})
      BY <1>5, <2>1 DEF b
    <3> QED
      BY <1>3, <2>1, <3>2, <3>3, <3>5, <3>6, <3>7, <3>8
  <2> QED
    BY <1>6, <2>7, <2>8 DEF ReceivePartial
<1>7. ASSUME NEW r \in Requests, ReceiveComplete(r) PROVE Ordered'
  <2> DEFINE b == Tail(inbox[r])
  <2>1. /\ inbox[r] # <<>> /\ inbox' = [inbox EXCEPT ![r] = b]
        /\ UNCHANGED <<key, chunks, work, job>>
    BY <1>7 DEF ReceiveComplete
  <2>2. /\ chunks[r] \in Seq(Nat) /\ Len(chunks[r]) \in Nat
        /\ chunks' = [chunks EXCEPT ![r] = chunks[r]]
    BY <1>0, <2>1
  <2>3. \A i \in 1..Len(inbox[r]) : Told(r, i)
    BY DEF Ordered, AllTold
  <2>4. \A i \in 1..Len(b) : b[i] = "partial" => Len(chunks[r]) + (i + 1) <= LastChunk(r)
    BY <1>5, <2>1, <2>3 DEF Told
  <2>5. \A i \in 1..Len(b) : b[i] = "partial" => Len(chunks[r]) + i <= LastChunk(r)
    BY <2>2, <2>4, <1>L, <1>5, <2>1
  <2>6. \A i \in 1..Len(chunks[r]) : /\ i <= chunks[r][i] /\ chunks[r][i] <= LastChunk(r)
                                     /\ \A j \in 1..i : chunks[r][j] <= chunks[r][i]
    BY DEF Ordered, ChunksInOrder, Kept
  <2>7. Len(chunks[r]) + Len(b) <= Known(r) /\ b \in Seq({"partial", "complete"})
    BY <1>5, <2>1, <2>2 DEF Known
  <2> HIDE DEF b
  <2> QED
    BY <1>3, <2>1, <2>2, <2>5, <2>6, <2>7
\* A worker takes a request that nobody has been told anything of.
<1>8. ASSUME NEW w \in Workers, Dequeue(w) PROVE Ordered'
  <2>1. UNCHANGED <<key, chunks, inbox>>
    BY <1>8 DEF Dequeue
  <2>2. CASE \A v \in Workers : \/ work'[v] = work[v] /\ job'[v] = job[v]
                                \/ work'[v] \notin {"run", "partial"}
    BY <2>1, <2>2, OrderedKept
  <2>3. CASE \E r \in NextMessage \ served :
               work' = [work EXCEPT ![w] = "run"] /\ job' = [job EXCEPT ![w] = r]
    <3>1. PICK r \in NextMessage \ served :
            work' = [work EXCEPT ![w] = "run"] /\ job' = [job EXCEPT ![w] = r]
      BY <2>3
    <3>2. r \in Requests
      BY <3>1 DEF NextMessage, Oldest, TypeOK
    <3>3. key[r] = None /\ LastChunk(r) = 0
      BY <3>1, <3>2 DEF Working, LastChunk
    <3>4. Len(inbox[r]) = 0 /\ Len(chunks[r]) = 0
      <4>1. inbox[r] \in Seq({"partial", "complete"}) /\ chunks[r] \in Seq(Nat)
        BY <1>0, <3>2
      <4>2. 1 \notin 1..Len(inbox[r])
        BY <3>2, <3>3 DEF Announced
      <4>3. 1 \notin 1..Len(chunks[r])
        <5> SUFFICES ASSUME 1 \in 1..Len(chunks[r]) PROVE FALSE
          OBVIOUS
        <5>1. chunks[r][1] \in Nat
          BY <4>1
        <5>2. 1 <= chunks[r][1] /\ chunks[r][1] <= 0
          BY <3>2, <3>3 DEF Ordered, ChunksInOrder, Kept
        <5> QED
          BY <5>1, <5>2
      <4> QED
        BY <4>1, <4>2, <4>3
    <3>5. /\ work'[w] = "run" /\ job'[w] = r
          /\ \A v \in Workers \ {w} : work'[v] = work[v] /\ job'[v] = job[v]
      BY <1>0, <3>1
    <3>6. \A q \in Requests : LastChunk(q)' = LastChunk(q) /\ Known(q)' = Known(q)
      BY <2>1 DEF LastChunk, Known
    <3>7. Due(w)'
      <4>1. Len(chunks[r]) + Len(inbox[r]) <= 0
        BY <3>4
      <4> QED
        BY <2>1, <3>3, <3>5, <4>1 DEF Due, Known, LastChunk
    <3>8. ASSUME NEW v \in Workers \ {w} PROVE Due(v)'
      <4>1. Due(v)
        BY DEF Ordered
      <4> QED
        BY <2>1, <3>5, <4>1 DEF Due, Known, LastChunk
    <3>9. ChunksInOrder' /\ Kept' /\ AllTold'
      BY <2>1, <3>6 DEF Ordered, ChunksInOrder, Kept, AllTold, Told
    <3> QED
      BY <3>7, <3>8, <3>9 DEF Ordered
  <2>4. PICK r \in NextMessage :
          \/ work' = [work EXCEPT ![w] = "run"] /\ job' = [job EXCEPT ![w] = r]
          \/ job' = job /\ work' = [work EXCEPT ![w] = IF leaving[w] THEN "stopped" ELSE "read"]
    BY <1>8 DEF Dequeue
  <2>5. r \notin served
    <3>1. id[r] > delivered /\ r \in Requests
      BY DEF NextMessage, Oldest, TypeOK
    <3> QED
      BY <3>1 DEF Ids, TypeOK
  <2> QED
    BY <2>2, <2>3, <2>4, <2>5, <1>0
\* A worker stores a value: nothing less than before.
<1>9. ASSUME NEW w \in Workers, StoreChunk(w) PROVE Ordered'
  <2>1. PICK r \in Requests : r = job[w]
    BY <1>9, <1>D DEF StoreChunk, Serving
  <2>2. /\ key' = [key EXCEPT ![r] = [chunk |-> LastChunk(r) + 1, final |-> "no"]]
        /\ work[w] = "run" /\ work' = [work EXCEPT ![w] = "partial"]
        /\ UNCHANGED <<chunks, inbox, job>>
    BY <1>9, <2>1 DEF StoreChunk
  <2>3. LastChunk(r)' = LastChunk(r) + 1
    <3>1. key'[r] = [chunk |-> LastChunk(r) + 1, final |-> "no"]
      BY <1>0, <2>2
    <3>2. key'[r] \in Result
      BY <3>1, <1>L DEF Result
    <3> QED
      BY <3>1, <3>2, <1>0 DEF LastChunk
  <2>4. \A q \in Requests \ {r} : LastChunk(q)' = LastChunk(q)
    BY <1>0, <2>2 DEF LastChunk
  <2>5. \A q \in Requests : LastChunk(q)' >= LastChunk(q) /\ LastChunk(q)' \in Nat
    BY <1>L, <2>3, <2>4
  <2>6. ChunksInOrder' /\ Kept'
    <3>1. ChunksInOrder'
      BY <2>2 DEF Ordered, ChunksInOrder
    <3>2. ASSUME NEW q \in Requests, NEW i \in 1..Len(chunks[q]) PROVE chunks[q][i] <= LastChunk(q)'
      <4>1. chunks[q][i] \in Nat
        BY <1>0
      <4>2. chunks[q][i] <= LastChunk(q)
        BY DEF Ordered, Kept
      <4> QED
        BY <4>1, <4>2, <2>5, <1>L
    <3> QED
      BY <3>1, <3>2, <2>2 DEF Kept
  <2>7. AllTold'
    <3>1. ASSUME NEW q \in Requests, NEW i \in 1..Len(inbox[q]), inbox[q][i] = "partial"
          PROVE  Len(chunks[q]) + i <= LastChunk(q)'
      <4>1. Len(chunks[q]) \in Nat /\ Len(inbox[q]) \in Nat
        BY <1>0
      <4>2. Len(chunks[q]) + i <= LastChunk(q)
        BY <3>1 DEF Ordered, AllTold, Told
      <4> QED
        BY <4>1, <4>2, <2>5, <1>L
    <3> QED
      BY <3>1, <2>2 DEF AllTold, Told
  <2>8. Known(r) <= LastChunk(r) /\ Known(r) \in Nat
    BY <1>0, <2>1, <2>2 DEF Ordered, Due, Known
  <2>9. Due(w)'
    <3>1. work'[w] = "partial" /\ job'[w] = r /\ Known(r)' = Known(r)
      BY <1>0, <2>1, <2>2 DEF Known
    <3>2. Known(r)' < LastChunk(r)'
      BY <2>3, <2>8, <3>1, <1>L
    <3> QED
      BY <3>1, <3>2 DEF Due, Known, LastChunk
  <2>10. ASSUME NEW v \in Workers \ {w} PROVE Due(v)'
    <3>1. Due(v)
      BY DEF Ordered
    <3>2. work'[v] = work[v] /\ job'[v] = job[v]
      BY <1>0, <2>2
    <3>3. CASE work[v] \in {"run", "partial"}
      <4>1. job[v] \in Requests \ {r}
        BY <2>1, <2>2, <3>3, <1>D, ServedAlone DEF Serving
      <4>2. key'[job[v]] = key[job[v]]
        BY <4>1, <2>2, <1>0
      <4> QED
        BY <2>2, <3>1, <3>2, <4>2 DEF Due, Known, LastChunk
    <3>4. CASE work[v] \notin {"run", "partial"}
      BY <3>2, <3>4 DEF Due
    <3> QED
      BY <3>3, <3>4
  <2> QED
    BY <2>6, <2>7, <2>9, <2>10 DEF Ordered
<1>10. ASSUME NEW w \in Workers, StoreResult(w) PROVE Ordered'
  <2>1. PICK r \in Requests : r = job[w]
    BY <1>10, <1>D DEF StoreResult, Serving
  <2>2. PICK o \in {"value", "error", "cancelled"} :
          key' = [key EXCEPT ![r] = [chunk |-> LastChunk(r), final |-> o]]
    BY <1>10, <2>1 DEF StoreResult
  <2>3. /\ work[w] = "run" /\ work' = [work EXCEPT ![w] = "complete"]
        /\ UNCHANGED <<chunks, inbox, job>>
    BY <1>10 DEF StoreResult
  <2>4. LastChunk(r)' = LastChunk(r)
    <3>1. key'[r] = [chunk |-> LastChunk(r), final |-> o]
      BY <1>0, <2>2
    <3>2. key'[r] \in Result
      BY <3>1, <1>L DEF Result
    <3> QED
      BY <3>1, <3>2, <1>0 DEF LastChunk
  <2>5. \A q \in Requests : LastChunk(q)' = LastChunk(q)
    BY <1>0, <2>2, <2>4 DEF LastChunk
  <2>6. ChunksInOrder' /\ Kept' /\ AllTold'
    BY <2>3, <2>5 DEF Ordered, ChunksInOrder, Kept, AllTold, Told
  <2>7. ASSUME NEW v \in Workers PROVE Due(v)'
    <3>1. Due(v)
      BY DEF Ordered
    <3>2. CASE v = w
      BY <1>0, <2>3, <3>2 DEF Due
    <3>3. CASE v # w
      <4>1. work'[v] = work[v] /\ job'[v] = job[v]
        BY <1>0, <2>3, <3>3
      <4>2. CASE work[v] \in {"run", "partial"}
        <5>1. job[v] \in Requests \ {r}
          BY <2>1, <2>3, <3>3, <4>2, <1>D, ServedAlone DEF Serving
        <5>2. key'[job[v]] = key[job[v]]
          BY <5>1, <2>2, <1>0
        <5> QED
          BY <2>3, <3>1, <4>1, <5>2 DEF Due, Known, LastChunk
      <4>3. CASE work[v] \notin {"run", "partial"}
        BY <4>1, <4>3 DEF Due
      <4> QED
        BY <4>2, <4>3
    <3> QED
      BY <3>2, <3>3
  <2> QED
    BY <2>6, <2>7 DEF Ordered
\* A worker announces what it has stored.
<1>11. ASSUME NEW w \in Workers, NEW m \in {"partial", "complete"},
              work[w] = IF m = "partial" THEN "partial" ELSE "complete",
              work' = [work EXCEPT ![w] = IF m = "partial" THEN "run" ELSE "ack"],
              Publish(job[w], m), UNCHANGED <<key, chunks, job>>
       PROVE  Ordered'
  <2>1. PICK r \in Requests : r = job[w]
    BY <1>11, <1>D DEF Serving
  <2>2. \A q \in Requests : LastChunk(q)' = LastChunk(q)
    BY <1>11 DEF LastChunk
  <2>3. inbox[r] \in Seq({"partial", "complete"}) /\ Len(inbox[r]) \in Nat /\ Len(chunks[r]) \in Nat
    BY <1>0
  <2>4. \/ inbox'[r] = inbox[r]
        \/ inbox'[r] = Append(inbox[r], m)
    BY <1>0, <1>11, <2>1 DEF Publish
  <2>5. /\ Len(inbox'[r]) \in {Len(inbox[r]), Len(inbox[r]) + 1}
        /\ \A i \in 1..Len(inbox'[r]) : \/ i \in 1..Len(inbox[r]) /\ inbox'[r][i] = inbox[r][i]
                                        \/ i = Len(inbox[r]) + 1 /\ inbox'[r][i] = m
    BY <2>3, <2>4
  <2>6. \A q \in Requests \ {r} : inbox'[q] = inbox[q]
    BY <1>0, <1>11, <2>1 DEF Publish
  <2>7. ChunksInOrder' /\ Kept'
    BY <1>11, <2>2 DEF Ordered, ChunksInOrder, Kept
  <2>8. m = "partial" => Len(chunks[r]) + Len(inbox[r]) < LastChunk(r)
    BY <1>11, <2>1 DEF Ordered, Due, Known
  <2>9. AllTold'
    <3>1. ASSUME NEW i \in 1..Len(inbox'[r]), inbox'[r][i] = "partial"
          PROVE  Len(chunks[r]) + i <= LastChunk(r)
      <4>1. CASE i \in 1..Len(inbox[r]) /\ inbox'[r][i] = inbox[r][i]
        BY <3>1, <4>1 DEF Ordered, AllTold, Told
      <4>2. CASE i = Len(inbox[r]) + 1 /\ inbox'[r][i] = m
        <5>1. m = "partial" /\ LastChunk(r) \in Nat
          BY <3>1, <4>2, <1>L
        <5>2. Len(chunks[r]) + Len(inbox[r]) < LastChunk(r)
          BY <2>8, <5>1
        <5> DEFINE n == Len(chunks[r])
                   k == Len(inbox[r])
        <5>3. n \in Nat /\ k \in Nat /\ i = k + 1 /\ n + k < LastChunk(r)
          BY <2>3, <4>2, <5>2
        <5> HIDE DEF n, k
        <5>4. n + i <= LastChunk(r)
          BY <5>1, <5>3
        <5> QED
          BY <5>4 DEF n
      <4> QED
        BY <2>5, <4>1, <4>2
    <3> QED
      BY <1>11, <2>2, <2>6, <3>1 DEF Ordered, AllTold, Told
  <2>10. Due(w)'
    <3>1. CASE m = "partial"
      <4>1. work'[w] = "run" /\ job'[w] = r
        BY <1>0, <1>11, <2>1, <3>1
      <4>2. Known(r)' <= LastChunk(r)'
        <5>1. Len(inbox'[r]) <= Len(inbox[r]) + 1 /\ Len(inbox'[r]) \in Nat
          BY <2>3, <2>5
        <5>2. Len(chunks[r]) + Len(inbox[r]) < LastChunk(r) /\ LastChunk(r) \in Nat
          BY <2>8, <3>1, <1>L
        <5>3. Len(chunks[r]) + Len(inbox'[r]) <= LastChunk(r)
          <6> DEFINE n == Len(chunks[r])
                     k == Len(inbox[r])
                     l == Len(inbox'[r])
          <6>1. /\ n \in Nat /\ k \in Nat /\ l \in Nat
                /\ l <= k + 1 /\ n + k < LastChunk(r)
            BY <2>3, <5>1, <5>2
          <6> HIDE DEF n, k, l
          <6>2. n + l <= LastChunk(r)
            BY <5>2, <6>1
          <6> QED
            BY <6>2 DEF n, l
        <5> QED
          BY <1>11, <2>2, <5>3 DEF Known
      <4> QED
        BY <4>1, <4>2 DEF Due, Known, LastChunk
    <3>2. CASE m # "partial"
      BY <1>0, <1>11, <3>2 DEF Due
    <3> QED
      BY <3>1, <3>2
  <2>11. ASSUME NEW v \in Workers \ {w} PROVE Due(v)'
    <3>1. Due(v)
      BY DEF Ordered
    <3>2. work'[v] = work[v] /\ job'[v] = job[v]
      BY <1>0, <1>11
    <3>3. CASE work[v] \in {"run", "partial"}
      <4>1. job[v] \in Requests \ {r}
        BY <1>11, <2>1, <3>3, <1>D, ServedAlone DEF Serving
      <4>2. inbox'[job[v]] = inbox[job[v]]
        BY <4>1, <2>6
      <4> QED
        BY <1>11, <3>1, <3>2, <4>2 DEF Due, Known, LastChunk
    <3>4. CASE work[v] \notin {"run", "partial"}
      BY <3>2, <3>4 DEF Due
    <3> QED
      BY <3>3, <3>4
  <2> QED
    BY <2>7, <2>9, <2>10, <2>11 DEF Ordered
<1>12. ASSUME NEW w \in Workers, PublishPartial(w) \/ PublishComplete(w) PROVE Ordered'
  BY <1>11, <1>12 DEF PublishPartial, PublishComplete
\* A worker comes out of a run, or has none.
<1>13. ASSUME NEW w \in Workers,
              SetupQueue(w) \/ Acknowledge(w) \/ StopReading(w) \/ Crash(w)
       PROVE  Ordered'
  <2>1. /\ UNCHANGED <<key, chunks, inbox>>
        /\ work' = [work EXCEPT ![w] = work'[w]] /\ work'[w] \in {"read", "stopped"}
        /\ job' = [job EXCEPT ![w] = job'[w]]
    BY <1>0, <1>13 DEF SetupQueue, Acknowledge, StopReading, Crash
  <2>2. \A v \in Workers : \/ work'[v] = work[v] /\ job'[v] = job[v]
                           \/ work'[v] \notin {"run", "partial"}
    BY <1>0, <2>1
  <2> QED
    BY <2>1, <2>2, OrderedKept
<1>14. ASSUME \/ GrowOld \/ UNCHANGED vars
              \/ \E w \in Workers : ListenForCancel(w) \/ Shutdown(w)
       PROVE  Ordered'
  BY <1>1, <1>14 DEF GrowOld, vars, ListenForCancel, Shutdown
<1> QED
  BY <1>2, <1>4, <1>6, <1>7, <1>8, <1>9, <1>10, <1>12, <1>13, <1>14 DEF Next, Listen, Serve

\* Chunks that overwrite each other in one key reach a listener in order, and none before it is
\* announced: the messages it has not read yet are never more than the chunks it is behind.
THEOREM ChunksInOrderCorrect == Spec => []ChunksInOrder
<1>1. Init => Ordered
  BY DEF Init, Ordered, ChunksInOrder, Kept, AllTold, Due
<1>2. Inv /\ Ordered /\ [Next]_vars => Ordered'
  BY QueueAssumption, OrderedNext DEF Inv
<1>3. Ordered => ChunksInOrder
  BY DEF Ordered
<1> QED
  BY <1>1, <1>2, <1>3, InvAlways, PTL DEF Spec

-----------------------------------------------------------------------------
(* Refinement.                                                             *)

\* RemoteCall sees nothing change of r.
Same(r) ==
  CallerOf(r)' = CallerOf(r) /\ ServiceOf(r)' = ServiceOf(r) /\ OutcomeOf(r)' = OutcomeOf(r)

\* Steps of RemoteCall, request by request.
LEMMA CallStutters ==
  ASSUME \A r \in Requests : Same(r), UNCHANGED answer
  PROVE  UNCHANGED Call!callVars
  BY DEF Same, Call!callVars

LEMMA CallerMoves ==
  ASSUME NEW r \in Requests, \A s \in Requests \ {r} : Same(s),
         ServiceOf(r)' = ServiceOf(r), OutcomeOf(r)' = OutcomeOf(r), UNCHANGED answer,
         \/ CallerOf(r) = "idle" /\ CallerOf(r)' = "waiting"
         \/ CallerOf(r) = "waiting" /\ CallerOf(r)' = "gone"
  PROVE  Call!CallNext
<1>1. Call!Ask(r) \/ Call!GiveUp(r)
  BY DEF Same, Call!Ask, Call!GiveUp
<1> QED
  BY <1>1 DEF Call!CallNext

LEMMA ServiceMoves ==
  ASSUME NEW r \in Requests, \A s \in Requests \ {r} : Same(s),
         CallerOf(r)' = CallerOf(r), OutcomeOf(r)' = OutcomeOf(r), UNCHANGED answer,
         \/ CallerOf(r) = "waiting" /\ ServiceOf(r) = "none" /\ ServiceOf(r)' = "queued"
         \/ ServiceOf(r) = "queued" /\ ServiceOf(r)' = "serving"
  PROVE  Call!CallNext
<1>1. Call!Queue(r) \/ Call!Serve(r)
  BY DEF Same, Call!Queue, Call!Serve
<1> QED
  BY <1>1 DEF Call!CallNext

\* Every step of the queue is a step of RemoteCall or none.
LEMMA CallStep ==
  ASSUME QueueAssumption, Inv, [Next]_vars
  PROVE  [Call!CallNext]_(Call!callVars)
<1> USE DEF redis, requester, worker
<1>0. TypeOK /\ Ids /\ Announced /\ Working
  BY DEF Inv
<1>1. ASSUME UNCHANGED <<pc, id, key, served, answer>> PROVE UNCHANGED Call!callVars
  <2>1. \A r \in Requests : Same(r)
    BY <1>1 DEF Same, CallerOf, ServiceOf, OutcomeOf, Ended
  <2> QED
    BY <1>1, <2>1, CallStutters
\* The requester.
<1>2. ASSUME NEW r \in Requests, pc' = [pc EXCEPT ![r] = pc'[r]], UNCHANGED <<id, key, served, answer>>,
             \/ CallerOf(r) = "waiting" /\ pc'[r] \in Waiting \cup Gone
             \/ pc[r] = "idle" /\ pc'[r] \in Waiting
             \/ pc[r] \in Gone /\ pc'[r] \in Gone
      PROVE  [Call!CallNext]_(Call!callVars)
  <2>1. \A s \in Requests \ {r} : Same(s)
    BY <1>0, <1>2 DEF TypeOK, Same, CallerOf, ServiceOf, OutcomeOf, Ended
  <2>2. ServiceOf(r)' = ServiceOf(r) /\ OutcomeOf(r)' = OutcomeOf(r)
    BY <1>2 DEF ServiceOf, OutcomeOf, Ended
  <2>3. \/ CallerOf(r)' = CallerOf(r)
        \/ CallerOf(r) = "idle" /\ CallerOf(r)' = "waiting"
        \/ CallerOf(r) = "waiting" /\ CallerOf(r)' = "gone"
    BY <1>2 DEF CallerOf, Waiting, Enqueuing, Gone
  <2>4. CASE CallerOf(r)' = CallerOf(r)
    BY <1>2, <2>1, <2>2, <2>4, CallStutters DEF Same
  <2> QED
    BY <1>2, <2>1, <2>2, <2>3, <2>4, CallerMoves
<1>3. ASSUME NEW r \in Requests, Request(r) PROVE [Call!CallNext]_(Call!callVars)
  BY <1>0, <1>2, <1>3 DEF Request, Goto, TypeOK, Waiting, Enqueuing
<1>4. ASSUME NEW r \in Requests,
             PendingRange(r) \/ AckStale(r) \/ DeleteStale(r) \/ OldestPending(r) \/ Trim(r)
               \/ Subscribe(r) \/ Leave(r)
      PROVE  [Call!CallNext]_(Call!callVars)
  <2>1. /\ pc[r] \in Waiting /\ pc'[r] \in Waiting \cup Gone
        /\ pc' = [pc EXCEPT ![r] = pc'[r]]
        /\ UNCHANGED <<id, key, served, answer>>
    BY <1>0, <1>4 DEF PendingRange, AckStale, DeleteStale, OldestPending, Trim, Subscribe, Leave,
       Goto, TypeOK, Waiting, Enqueuing, Gone
  <2> QED
    BY <1>2, <2>1 DEF CallerOf
<1>5. ASSUME NEW r \in Requests, PublishCancelled(r) PROVE [Call!CallNext]_(Call!callVars)
  BY <1>0, <1>2, <1>5 DEF PublishCancelled, Goto, TypeOK, Gone
<1>6. ASSUME NEW r \in Requests, ReceivePartial(r) PROVE [Call!CallNext]_(Call!callVars)
  <2>1. CASE UNCHANGED pc
    BY <1>1, <1>6, <2>1 DEF ReceivePartial
  <2>2. CASE Goto(r, "failed")
    BY <1>0, <1>2, <1>6, <2>2 DEF ReceivePartial, Goto, TypeOK, Waiting, Gone, CallerOf
  <2> QED
    BY <1>6, <2>1, <2>2 DEF ReceivePartial
<1>7. ASSUME NEW r \in Requests, Add(r) PROVE [Call!CallNext]_(Call!callVars)
  <2>1. id[r] = 0 /\ r \notin served /\ ~Ended(r)
    BY <1>0, <1>7 DEF Add, Ids, Working, Ended, TypeOK, Enqueuing
  <2>2. \A s \in Requests \ {r} : Same(s)
    BY <1>0, <1>7 DEF Add, Goto, TypeOK, Same, CallerOf, ServiceOf, OutcomeOf, Ended
  <2>3. CallerOf(r) = "waiting" /\ CallerOf(r)' = CallerOf(r)
    BY <1>0, <1>7 DEF Add, Goto, TypeOK, CallerOf, Waiting, Enqueuing
  <2>4. ServiceOf(r) = "none" /\ ServiceOf(r)' = "queued"
    BY <1>0, <1>7, <2>1 DEF Add, TypeOK, ServiceOf, Ended
  <2>5. OutcomeOf(r)' = OutcomeOf(r) /\ UNCHANGED answer
    BY <1>7 DEF Add, OutcomeOf, Ended
  <2> QED
    BY <2>2, <2>3, <2>4, <2>5, ServiceMoves
<1>8. ASSUME NEW r \in Requests, ReceiveComplete(r) PROVE [Call!CallNext]_(Call!callVars)
  <2>1. inbox[r] \in Seq({"partial", "complete"}) /\ inbox[r] # <<>>
    BY <1>0, <1>8 DEF ReceiveComplete, TypeOK
  <2>2. 1 \in 1..Len(inbox[r]) /\ inbox[r][1] = "complete"
    BY <1>8, <2>1 DEF ReceiveComplete
  <2>3. Ended(r)
    BY <1>0, <2>2 DEF Announced
  <2>4. CallerOf(r) = "waiting" /\ ServiceOf(r) = "ended" /\ OutcomeOf(r) = key[r].final
    BY <1>8, <2>3 DEF ReceiveComplete, CallerOf, Waiting, ServiceOf, OutcomeOf
  <2>5. \A s \in Requests : ServiceOf(s)' = ServiceOf(s) /\ OutcomeOf(s)' = OutcomeOf(s)
    BY <1>8 DEF ReceiveComplete, ServiceOf, OutcomeOf, Ended
  <2>6. CallerOf(r)' = "answered" /\ \A s \in Requests \ {r} : CallerOf(s)' = CallerOf(s)
    BY <1>0, <1>8 DEF ReceiveComplete, Goto, TypeOK, CallerOf, Waiting, Enqueuing, Gone
  <2>7. answer' = [answer EXCEPT ![r] = OutcomeOf(r)]
    BY <1>8, <2>4 DEF ReceiveComplete
  <2>8. Call!Answer(r)
    BY <2>4, <2>5, <2>6, <2>7 DEF Call!Answer
  <2> QED
    BY <2>8 DEF Call!CallNext
\* The worker.
<1>9. ASSUME NEW w \in Workers, Dequeue(w) PROVE [Call!CallNext]_(Call!callVars)
  <2>1. UNCHANGED <<pc, id, key, answer>>
    BY <1>9 DEF Dequeue
  <2>2. CASE UNCHANGED served
    BY <1>1, <2>1, <2>2
  <2>3. CASE \E r \in NextMessage : served' = served \cup {r}
    <3>1. PICK r \in NextMessage : served' = served \cup {r}
      BY <2>3
    <3>2. r \in Requests /\ id[r] > 0 /\ r \notin served
      BY <1>0, <3>1 DEF NextMessage, Oldest, TypeOK, Ids
    <3>3. ~Ended(r)
      BY <1>0, <3>2 DEF Working, Ended
    <3>4. \A s \in Requests \ {r} : Same(s)
      BY <2>1, <3>1 DEF Same, CallerOf, ServiceOf, OutcomeOf, Ended
    <3>5. CallerOf(r)' = CallerOf(r) /\ OutcomeOf(r)' = OutcomeOf(r)
      BY <2>1 DEF CallerOf, OutcomeOf, Ended
    <3>6. ServiceOf(r) = "queued" /\ ServiceOf(r)' = "serving"
      BY <1>0, <2>1, <3>1, <3>2, <3>3 DEF ServiceOf, Ended, TypeOK
    <3> QED
      BY <2>1, <3>2, <3>4, <3>5, <3>6, ServiceMoves
  <2> QED
    BY <1>9, <2>2, <2>3 DEF Dequeue
<1>10. ASSUME NEW w \in Workers, StoreChunk(w) PROVE [Call!CallNext]_(Call!callVars)
  <2>1. PICK r \in Requests : r = job[w]
    BY <1>0, <1>10 DEF StoreChunk, Working, Serving, TypeOK
  <2>2. r \in served /\ ~Ended(r)
    BY <1>0, <1>10, <2>1 DEF StoreChunk, Working, Serving
  <2>3. key' = [key EXCEPT ![r] = [chunk |-> LastChunk(r) + 1, final |-> "no"]]
    BY <1>10, <2>1 DEF StoreChunk
  <2>4. key'[r].final = "no" /\ \A s \in Requests \ {r} : key'[s] = key[s]
    BY <1>0, <2>3 DEF TypeOK
  <2>5. ~Ended(r)'
    BY <2>4 DEF Ended
  <2>6. UNCHANGED <<pc, id, served, answer>>
    BY <1>10 DEF StoreChunk
  <2>7. \A s \in Requests : Ended(s)' = Ended(s)
    BY <2>2, <2>4, <2>5 DEF Ended
  <2>8. \A s \in Requests : CallerOf(s)' = CallerOf(s) /\ ServiceOf(s)' = ServiceOf(s)
    BY <2>6, <2>7 DEF CallerOf, ServiceOf
  <2>9. \A s \in Requests : OutcomeOf(s)' = OutcomeOf(s)
    BY <2>2, <2>4, <2>7 DEF OutcomeOf
  <2> QED
    BY <2>6, <2>8, <2>9, CallStutters DEF Same
<1>11. ASSUME NEW w \in Workers, StoreResult(w) PROVE [Call!CallNext]_(Call!callVars)
  <2>1. PICK r \in Requests : r = job[w]
    BY <1>0, <1>11 DEF StoreResult, Working, Serving, TypeOK
  <2>2. r \in served /\ ~Ended(r)
    BY <1>0, <1>11, <2>1 DEF StoreResult, Working, Serving
  <2>3. PICK o \in {"value", "error"} \cup IF told[w] THEN {"cancelled"} ELSE {} :
          key' = [key EXCEPT ![r] = [chunk |-> LastChunk(r), final |-> o]]
    BY <1>11, <2>1 DEF StoreResult
  <2>4. /\ key'[r] = [chunk |-> LastChunk(r), final |-> o]
        /\ \A s \in Requests \ {r} : key'[s] = key[s]
    BY <1>0, <2>3 DEF TypeOK
  <2>5. key'[r] # None /\ key'[r].final = o /\ o # "no"
    <3>1. LastChunk(r) \in Nat
      BY <1>0 DEF TypeOK, LastChunk, Result
    <3>2. key'[r] \in Result
      BY <2>4, <3>1 DEF Result
    <3> QED
      BY <2>4, <3>2, QueueAssumption DEF QueueAssumption
  <2>6. Ended(r)'
    BY <2>5 DEF Ended
  <2>7. UNCHANGED <<pc, id, served, answer>>
    BY <1>11 DEF StoreResult
  <2>8. ServiceOf(r) = "serving" /\ ServiceOf(r)' = "ended" /\ OutcomeOf(r)' = o
    BY <2>2, <2>5, <2>6, <2>7 DEF ServiceOf, OutcomeOf
  <2>9. \A s \in Requests \ {r} : Same(s)
    BY <2>4, <2>7 DEF Same, CallerOf, ServiceOf, OutcomeOf, Ended
  <2>10. \A s \in Requests : CallerOf(s)' = CallerOf(s)
    BY <2>7 DEF CallerOf
  <2>11. told[w] => CallerOf(r) = "gone"
    BY <1>0, <1>11, <2>1 DEF StoreResult, Working, Serving, CallerOf, Waiting, Enqueuing, Gone
  <2>12. o \in {"value", "error"} \cup IF CallerOf(r) = "gone" THEN {"cancelled"} ELSE {}
    BY <2>3, <2>11
  <2>13. [s \in Requests |-> OutcomeOf(s)]' = [[s \in Requests |-> OutcomeOf(s)] EXCEPT ![r] = o]
    BY <2>8, <2>9 DEF Same
  <2>14. [s \in Requests |-> ServiceOf(s)]'
           = [[s \in Requests |-> ServiceOf(s)] EXCEPT ![r] = "ended"]
    BY <2>8, <2>9 DEF Same
  <2>15. UNCHANGED <<[s \in Requests |-> CallerOf(s)], answer>>
    BY <2>7, <2>10
  <2>16. Call!End(r)
    BY <2>8, <2>12, <2>13, <2>14, <2>15 DEF Call!End
  <2> QED
    BY <2>16 DEF Call!CallNext
<1>12. ASSUME \/ \E w \in Workers :
                   \/ SetupQueue(w) \/ ListenForCancel(w) \/ PublishPartial(w) \/ PublishComplete(w)
                   \/ Acknowledge(w) \/ StopReading(w) \/ Shutdown(w) \/ Crash(w)
              \/ GrowOld \/ UNCHANGED vars
       PROVE  [Call!CallNext]_(Call!callVars)
  <2>1. UNCHANGED <<pc, id, key, served, answer>>
    BY <1>12 DEF SetupQueue, ListenForCancel, PublishPartial, PublishComplete, Acknowledge,
       StopReading, Shutdown, Crash, GrowOld, vars
  <2> QED
    BY <1>1, <2>1
<1> QED
  BY <1>3, <1>4, <1>5, <1>6, <1>7, <1>8, <1>9, <1>10, <1>11, <1>12 DEF Next, Enqueue, Listen, Serve

\* Streams, keys and channels implement RemoteCall: at most one worker serves a request, an
\* answer is the outcome of the run it was asked for, and only a run whose caller has gone ends
\* as cancelled.
THEOREM Refinement == Spec => RemoteCallSpec
<1>1. Init => Call!CallInit
  BY DEF Init, Call!CallInit, CallerOf, ServiceOf, OutcomeOf, Ended, Waiting, Enqueuing, Gone
<1>2. Inv /\ [Next]_vars => [Call!CallNext]_(Call!callVars)
  BY CallStep, QueueAssumption
<1> QED
  BY <1>1, <1>2, InvAlways, PTL DEF Spec, RemoteCallSpec, Call!CallSpec
=============================================================================
