------------------------- MODULE TokenBucket_proofs -------------------------
(* Theorems about TokenBucket, for every capacity, rate, lag and set of clients. *)
EXTENDS TokenBucket, TLAPS

Level == AtMost(tokens + since * Rate, Capacity)

\* Products, for which the arithmetic of the provers needs help.
LEMMA Products ==
  ASSUME NEW a \in Nat, NEW b \in Nat, NEW r \in Nat, b <= a
  PROVE  /\ (a - b) * r = a * r - b * r
         /\ a * r \in Nat /\ b * r \in Nat /\ b * r <= a * r
         /\ (a - b) * r \in Nat
<1>1. PICK d \in Nat : a = b + d
  BY a - b \in Nat
<1>2. (b + d) * r = b * r + d * r
  BY SMT
<1>3. b * r \in Nat /\ d * r \in Nat
  BY SMT
<1>4. a - b = d
  BY <1>1
<1> QED
  BY <1>1, <1>2, <1>3, <1>4

\* A refill with a reading `lag' old: no more than the eager bucket holds, and less at most
\* by what that lag will bring; the reading sets the stored time back or uses it up.
LEMMA RefillFacts ==
  ASSUME BucketAssumption, tokens \in 0..Capacity, since \in 0..Idle,
         NEW lag \in 0..MaxLag
  PROVE  /\ Refilled(lag) \in 0..Capacity /\ SetBack(lag) \in Nat
         /\ since * Rate \in Nat /\ lag * Rate \in Nat /\ SetBack(lag) * Rate \in Nat
         /\ lag * Rate <= Rate * MaxLag /\ Rate * MaxLag \in Nat
         /\ Refilled(lag) <= Level
         /\ Level <= Refilled(lag) + lag * Rate
         /\ Refilled(lag) + lag * Rate <= tokens + since * Rate + SetBack(lag) * Rate
<1>1. since \in Nat /\ lag \in Nat /\ MaxLag \in Nat /\ Rate \in Nat /\ lag <= MaxLag
      /\ Capacity \in Nat /\ tokens \in Nat /\ tokens <= Capacity
  BY DEF BucketAssumption, Idle
<1>2. lag * Rate \in Nat /\ lag * Rate <= MaxLag * Rate /\ MaxLag * Rate = Rate * MaxLag
      /\ MaxLag * Rate \in Nat
  BY <1>1, Products
<1>3. since * Rate \in Nat
  BY <1>1, Products
<1>4. CASE lag <= since
  <2>1. (since - lag) * Rate = since * Rate - lag * Rate /\ (since - lag) * Rate \in Nat
    BY <1>1, <1>4, Products
  <2>2. AtLeast(since - lag, 0) = since - lag /\ SetBack(lag) = 0 /\ SetBack(lag) * Rate = 0
    BY <1>1, <1>4 DEF AtLeast, SetBack
  <2>3. Refilled(lag) = AtMost(tokens + (since * Rate - lag * Rate), Capacity)
    BY <2>1, <2>2 DEF Refilled
  <2> QED
    BY <1>1, <1>2, <1>3, <2>1, <2>2, <2>3 DEF AtMost, Level
<1>5. CASE since < lag
  <2>1. (lag - since) * Rate = lag * Rate - since * Rate /\ (lag - since) * Rate \in Nat
        /\ since * Rate <= lag * Rate
    BY <1>1, <1>5, Products
  <2>2. AtLeast(since - lag, 0) = 0 /\ SetBack(lag) = lag - since
    BY <1>1, <1>5 DEF AtLeast, SetBack
  <2>3. Refilled(lag) = tokens
    BY <1>1, <2>2 DEF Refilled, AtMost
  <2> QED
    BY <1>1, <1>2, <1>3, <2>1, <2>2, <2>3 DEF AtMost, Level, SetBack
<1> QED
  BY <1>1, <1>4, <1>5

-----------------------------------------------------------------------------
(* Types. *)

LEMMA TypeNext ==
  ASSUME BucketAssumption, TypeOK, [Next]_vars
  PROVE  TypeOK'
<1> USE DEF TypeOK
<1>1. CASE Tick
  BY <1>1 DEF Tick, AtMost, AtLeast, LessFor, Idle, BucketAssumption
<1>2. ASSUME NEW c \in Clients, Acquire(c)
      PROVE  TypeOK'
  BY <1>2 DEF Acquire, BucketAssumption
<1>3. ASSUME NEW c \in Clients, LuaAcquire(c)
      PROVE  TypeOK'
  <2>0. last[c] \in 0..MaxLag /\ MaxLag \in Nat
    BY DEF BucketAssumption
  <2>1. PICK lag \in 0..MaxLag :
          /\ last' = [last EXCEPT ![c] = lag]
          /\ Take(Request[c], lag) \/ Refuse(Request[c], lag)
          /\ \E label \in {"idle", "read", "cancelled"} : pc' = [pc EXCEPT ![c] = label]
    <3>1. PICK lag \in 0..last[c] :
            /\ last' = [last EXCEPT ![c] = lag]
            /\ Take(Request[c], lag) \/ Refuse(Request[c], lag)
            /\ \E label \in {"idle", "read", "cancelled"} : pc' = [pc EXCEPT ![c] = label]
      BY <1>3 DEF LuaAcquire
    <3>2. lag \in 0..MaxLag
      BY <2>0
    <3> QED
      BY <3>1, <3>2
  <2>2. Refilled(lag) \in 0..Capacity /\ SetBack(lag) * Rate \in Nat
    BY RefillFacts
  <2>3. LessFor(net, SetBack(lag)) \in Nat
    BY <2>2 DEF LessFor, AtLeast
  <2>4. Request[c] \in Nat /\ lag \in 0..Idle
    BY DEF BucketAssumption, Idle
  <2>5. tokens' \in 0..Capacity /\ since' \in 0..Idle /\ burst' \in Nat /\ net' \in Nat
        /\ taken' \in Nat
    BY <2>1, <2>2, <2>3, <2>4 DEF Take, Refuse, Grants, BucketAssumption
  <2> QED
    BY <1>3, <2>1, <2>5 DEF LuaAcquire
<1>4. ASSUME NEW c \in Clients, ReadAvailable(c)
      PROVE  TypeOK'
  <2>1. Request[c] - tokens \in Int /\ Rate \in Nat \ {0}
    BY DEF BucketAssumption
  <2>2. Sleeps(Request[c] - tokens) \subseteq Nat
    BY <2>1 DEF Sleeps
  <2> QED
    BY <1>4, <2>2 DEF ReadAvailable
<1>5. ASSUME NEW c \in Clients, Wake(c)
      PROVE  TypeOK'
  BY <1>5 DEF Wake
<1>6. ASSUME NEW c \in Clients, Cancel(c)
      PROVE  TypeOK'
  BY <1>6 DEF Cancel
<1>7. CASE UNCHANGED vars
  BY <1>7 DEF vars
<1> QED
  BY <1>1, <1>2, <1>3, <1>4, <1>5, <1>6, <1>7 DEF Next, Step

\* Every variable keeps its type; in particular the bucket is never overdrawn nor overfull.
THEOREM TypeCorrect == Spec => []TypeOK
<1>1. Init => TypeOK
  BY BucketAssumption DEF Init, TypeOK, Idle, BucketAssumption
<1>2. TypeOK /\ [Next]_vars => TypeOK'
  BY TypeNext, BucketAssumption
<1> QED
  BY <1>1, <1>2, PTL DEF Spec

-----------------------------------------------------------------------------
(* The bound on the rate. *)

\* What has been taken in the worst stretch, less what set-backs explain, and what is or would be there to take next.
Credit == net = 0 \/ net + tokens + since * Rate <= Capacity + Rate * MaxLag

LEMMA CreditNext ==
  ASSUME BucketAssumption, TypeOK, Credit, [Next]_vars
  PROVE  Credit'
<1>0. Rate \in Nat /\ Rate >= 1 /\ Capacity \in Nat /\ MaxLag \in Nat /\ tokens \in Nat
      /\ since \in Nat /\ net \in Nat /\ Idle \in Nat /\ tokens \in 0..Capacity
      /\ since \in 0..Idle
  BY DEF BucketAssumption, TypeOK, Idle
<1>1. CASE Tick
  <2>1. since' <= since + 1 /\ since' \in Nat /\ tokens' = tokens
    BY <1>0, <1>1 DEF Tick, AtMost
  <2>2. since' * Rate <= (since + 1) * Rate /\ since' * Rate \in Nat
    <3>1. since + 1 \in Nat
      BY <1>0
    <3> QED
      BY <1>0, <2>1, <3>1, Products
  <2>3. (since + 1) * Rate = since * Rate + Rate /\ since * Rate \in Nat
    BY <1>0, Products
  <2>4. net' = IF net - Rate > 0 THEN net - Rate ELSE 0
    BY <1>0, <1>1 DEF Tick, LessFor, AtLeast
  <2>5. net' # 0 => net # 0 /\ net' = net - Rate
    BY <1>0, <2>4
  <2>6. since' * Rate <= since * Rate + Rate
    BY <2>2, <2>3
  <2>7. Rate * MaxLag \in Nat
    BY <1>0, Products
  <2> QED
    BY <1>0, <2>1, <2>2, <2>3, <2>5, <2>6, <2>7 DEF Credit
<1>2. ASSUME NEW c \in Clients, LuaAcquire(c)
      PROVE  Credit'
  <2>0. last[c] \in 0..MaxLag /\ MaxLag \in Nat
    BY DEF BucketAssumption, TypeOK
  <2>1. PICK lag \in 0..MaxLag : Take(Request[c], lag) \/ Refuse(Request[c], lag)
    BY <1>2, <2>0 DEF LuaAcquire
  <2>2. /\ Refilled(lag) \in 0..Capacity
        /\ since * Rate \in Nat /\ lag * Rate \in Nat /\ SetBack(lag) * Rate \in Nat
        /\ lag * Rate <= Rate * MaxLag /\ Rate * MaxLag \in Nat
        /\ Refilled(lag) + lag * Rate <= tokens + since * Rate + SetBack(lag) * Rate
    BY <1>0, RefillFacts
  <2>3. PICK n \in Nat : /\ tokens' = Refilled(lag) - n /\ since' = lag
                         /\ net' = LessFor(net, SetBack(lag)) + n
    <3>1. Request[c] \in Nat /\ LessFor(net, SetBack(lag)) \in Nat
      BY <1>0, <2>2 DEF BucketAssumption, LessFor, AtLeast
    <3>2. CASE Take(Request[c], lag)
      BY <3>1, <3>2 DEF Take, Grants
    <3>3. CASE Refuse(Request[c], lag)
      BY <2>2, <3>1, <3>3 DEF Refuse, Grants
    <3> QED
      BY <2>1, <3>2, <3>3
  <2>4. LessFor(net, SetBack(lag)) = IF net - SetBack(lag) * Rate > 0
                                  THEN net - SetBack(lag) * Rate ELSE 0
    BY DEF LessFor, AtLeast
  <2>5. net' + tokens' + since' * Rate <= Capacity + Rate * MaxLag
    <3>1. CASE net - SetBack(lag) * Rate > 0
      BY <1>0, <2>2, <2>3, <2>4, <3>1 DEF Credit
    <3>2. CASE ~(net - SetBack(lag) * Rate > 0)
      BY <1>0, <2>2, <2>3, <2>4, <3>2
    <3> QED
      BY <3>1, <3>2
  <2> QED
    BY <2>5 DEF Credit
<1>3. CASE UNCHANGED <<tokens, since, net>>
  BY <1>3 DEF Credit
<1> QED
  BY <1>1, <1>2, <1>3 DEF Next, Step, Acquire, ReadAvailable, Wake, Cancel, vars

\* The script of acquire(): in any stretch of time, what is taken exceeds the rate by no more
\* than a full bucket, the tokens of one lag, and the tokens of every second by which a reading
\* in that stretch sets last_refill back.  The last is not bounded: see RateLimited.
THEOREM RateBoundCorrect == Spec => []RateBound
<1>1. Init => Credit
  BY DEF Init, Credit
<1>2. TypeOK /\ Credit /\ [Next]_vars => Credit'
  BY CreditNext, BucketAssumption
<1>3. TypeOK /\ Credit => RateBound
  <2> SUFFICES ASSUME TypeOK, Credit
               PROVE  RateBound
    OBVIOUS
  <2>1. since \in Nat /\ Rate \in Nat /\ MaxLag \in Nat /\ Capacity \in Nat /\ tokens \in Nat
        /\ net \in Nat
    BY BucketAssumption DEF BucketAssumption, TypeOK, Idle
  <2>2. since * Rate \in Nat /\ Rate * MaxLag \in Nat
    BY <2>1, Products
  <2> QED
    BY <2>1, <2>2 DEF Credit, RateBound
<1> QED
  BY <1>1, <1>2, <1>3, TypeCorrect, PTL DEF Spec

-----------------------------------------------------------------------------
(* The refinement. *)

LEMMA EagerStep ==
  ASSUME BucketAssumption, TypeOK, [Next]_vars
  PROVE  [Eager!BucketNext]_(Eager!bucketVars)
<1>0. Rate \in Nat /\ Rate >= 1 /\ Capacity \in Nat /\ MaxLag \in Nat /\ tokens \in Nat
      /\ since \in Nat /\ Idle \in Nat /\ tokens \in 0..Capacity /\ since \in 0..Idle
  BY DEF BucketAssumption, TypeOK, Idle
<1> DEFINE Rising == tokens + since * Rate
<1>1. CASE Tick
  <2>1. tokens' = tokens /\ taken' = taken /\ since * Rate \in Nat
    BY <1>0, <1>1, Products DEF Tick
  <2>2. CASE since < Idle
    <3>1. since' = since + 1
      BY <1>0, <1>1, <2>2 DEF Tick, AtMost
    <3>2. (since + 1) * Rate = since * Rate + Rate
      BY <1>0, Products
    <3>3. Level' = AtMost(Level + Rate, Capacity)
      BY <1>0, <2>1, <3>1, <3>2 DEF Level, AtMost
    <3> QED
      BY <2>1, <3>3 DEF Eager!BucketNext, Eager!Second, Eager!Upto, Level, AtMost
  <2>3. CASE since = Idle
    <3>1. since' = Idle
      BY <1>0, <1>1, <2>3 DEF Tick, AtMost
    <3>2. Idle * Rate >= Idle
      BY <1>0
    <3>3. Level = Capacity /\ Level' = Capacity
      BY <1>0, <2>1, <2>3, <3>1, <3>2 DEF Level, AtMost, Idle
    <3> QED
      BY <1>0, <2>1, <3>3 DEF Eager!BucketNext, Eager!Second, Eager!Upto, Level, AtMost
  <2> QED
    BY <1>0, <2>2, <2>3
<1>2. ASSUME NEW c \in Clients, LuaAcquire(c)
      PROVE  Eager!BucketNext
  <2>0. last[c] \in 0..MaxLag /\ MaxLag \in Nat
    BY DEF BucketAssumption, TypeOK
  <2>1. PICK lag \in 0..MaxLag : Take(Request[c], lag) \/ Refuse(Request[c], lag)
    BY <1>2, <2>0 DEF LuaAcquire
  <2>2. /\ Refilled(lag) \in 0..Capacity /\ since * Rate \in Nat /\ lag * Rate \in Nat
        /\ lag * Rate <= Rate * MaxLag /\ Rate * MaxLag \in Nat
        /\ Refilled(lag) <= Level /\ Level <= Refilled(lag) + lag * Rate
    BY <1>0, RefillFacts
  <2>3. PICK n \in {Request[d] : d \in Clients} \cup {0} :
          /\ n \in Nat /\ n <= Refilled(lag)
          /\ tokens' = Refilled(lag) - n /\ since' = lag /\ taken' = taken + n
    <3>1. Request[c] \in Nat /\ taken \in Nat
      BY DEF BucketAssumption, TypeOK
    <3>2. CASE Take(Request[c], lag)
      BY <3>1, <3>2 DEF Take, Grants
    <3>3. CASE Refuse(Request[c], lag)
      BY <2>2, <3>1, <3>3 DEF Refuse, Grants
    <3> QED
      BY <2>1, <3>2, <3>3
  <2>4. Level \in Nat
    BY <1>0, <2>2 DEF Level, AtMost
  <2> DEFINE extra == Refilled(lag) + lag * Rate - Level
  <2>5. extra \in 0..(Rate * MaxLag)
    BY <2>2, <2>4
  <2>6. Level' = AtMost(Level - n + extra, Capacity)
    <3>1. Level' = AtMost(tokens' + since' * Rate, Capacity)
      BY DEF Level, AtMost
    <3>2. tokens' + since' * Rate = Level - n + extra
      BY <2>2, <2>3, <2>4
    <3> QED
      BY <3>1, <3>2
  <2>7. n <= Level
    BY <2>2, <2>3, <2>4
  <2> QED
    BY <2>3, <2>5, <2>6, <2>7 DEF Eager!BucketNext, Eager!Take, Eager!Upto, Level, AtMost
<1>3. CASE UNCHANGED <<tokens, since, taken>>
  BY <1>3 DEF Eager!bucketVars, AtMost
<1> QED
  BY <1>1, <1>2, <1>3 DEF Next, Step, Acquire, ReadAvailable, Wake, Cancel, vars

\* The bucket that refills on demand, by the clocks of its clients, implements the bucket
\* that is refilled every second and may find the tokens of one lag again at a call.
THEOREM Refinement == Spec => EagerBucketSpec
<1>1. Init => Eager!BucketInit
  <2> SUFFICES ASSUME Init
               PROVE  Eager!BucketInit
    OBVIOUS
  <2>1. tokens + since * Rate = Capacity
    BY BucketAssumption DEF Init, BucketAssumption
  <2> QED
    BY <2>1 DEF Init, Eager!BucketInit, AtMost
<1>2. TypeOK /\ [Next]_vars => [Eager!BucketNext]_(Eager!bucketVars)
  BY EagerStep, BucketAssumption
<1> QED
  BY <1>1, <1>2, TypeCorrect, PTL DEF Spec, EagerBucketSpec, Eager!BucketSpec
=============================================================================
