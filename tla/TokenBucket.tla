----------------------------- MODULE TokenBucket -----------------------------
(***************************************************************************)
(* The token bucket of filament/redis/token_bucket.py, which limits the    *)
(* rate of the runs of one function.                                       *)
(*                                                                         *)
(* Redis holds the tokens left and the time of the last refill; one Lua    *)
(* script refills and takes.  The time is the client's, floored to the     *)
(* second and read before the script is sent, so a script may store a time *)
(* before the one it found: `since' is the time that has passed since the  *)
(* stored one, and a reading `lag' seconds old stores since' = lag.  One   *)
(* client's clock does not go back; clients on several hosts differ.       *)
(* Absent keys read as a full bucket refilled now, which is Init.          *)
(***************************************************************************)
EXTENDS Integers

CONSTANTS
  Clients,     \* runs that share the bucket
  Request,     \* the tokens each asks for
  Capacity,    \* capacity
  Rate,        \* rate_limit: tokens per second
  MaxLag,      \* bound: seconds by which a reading is old, or a host's clock behind
  Rounds       \* bound: how often a client calls acquire()

ASSUME BucketAssumption ==
  /\ Capacity \in Nat /\ Rate \in Nat \ {0} /\ MaxLag \in Nat /\ Rounds \in Nat
  /\ Request \in [Clients -> Nat]

VARIABLES
  tokens,      \* key token_bucket:last_tokens
  since,       \* seconds since key token_bucket:last_refill, up to Idle
  last,        \* how old each client's last reading of its clock is, up to MaxLag
  pc,          \* what each client does; "orphan": its script, but no client, is left
  wait,        \* seconds a client still sleeps
  round,       \* how often each client has called acquire()
  burst, net,  \* ghosts: see LessFor
  taken        \* ghost: tokens taken so far

vars == <<tokens, since, last, pc, wait, round, burst, net, taken>>

AtMost(x, bound) == IF x < bound THEN x ELSE bound
AtLeast(x, bound) == IF x > bound THEN x ELSE bound

\* After that long the bucket is full, whatever the lag of the next reading.
Idle == Capacity + MaxLag

TypeOK ==
  /\ tokens \in 0..Capacity
  /\ since \in 0..Idle /\ last \in [Clients -> 0..MaxLag]
  /\ pc \in [Clients -> {"idle", "script", "orphan", "read", "sleep", "failed", "cancelled"}]
  /\ wait \in [Clients -> Nat]
  /\ round \in [Clients -> 0..Rounds]
  /\ burst \in Nat /\ net \in Nat
  /\ taken \in Nat

Init ==
  /\ tokens = Capacity
  /\ since = 0 /\ last = [c \in Clients |-> MaxLag]
  /\ pc = [c \in Clients |-> "idle"]
  /\ wait = [c \in Clients |-> 0]
  /\ round = [c \in Clients |-> 0]
  /\ burst = 0 /\ net = 0
  /\ taken = 0

\* Mutant: the check against the capacity is gone.
AcquireUnchecked(c) ==
  /\ pc[c] = "idle" /\ round[c] < Rounds
  /\ round' = [round EXCEPT ![c] = @ + 1]
  /\ pc' = [pc EXCEPT ![c] = "script"]
  /\ UNCHANGED <<tokens, since, last, wait, burst, net, taken>>

\* A request above the capacity raises ValueError before anything is sent.
Acquire(c) ==
  /\ pc[c] = "idle" /\ round[c] < Rounds
  /\ round' = [round EXCEPT ![c] = @ + 1]
  /\ pc' = [pc EXCEPT ![c] = IF Request[c] > Capacity THEN "failed" ELSE "script"]
  /\ UNCHANGED <<tokens, since, last, wait, burst, net, taken>>

-----------------------------------------------------------------------------
(* The script. *)

\* Mutant: no math.max(0, ...) around the time that has passed.
RefilledBackwards(lag) == AtMost(tokens + (since - lag) * Rate, Capacity)

Refilled(lag) == AtMost(tokens + AtLeast(since - lag, 0) * Rate, Capacity)

\* By how many seconds a reading sets the stored time back, which the next may refill again.
SetBack(lag) == AtLeast(lag - since, 0)

\* `burst' is by how much, at most, the tokens taken exceed Rate for each second, over all
\* stretches of time that end now.  `net' is the same, but the seconds that readings have
\* set the stored time back count as if they had passed.
LessFor(excess, seconds) == AtLeast(excess - seconds * Rate, 0)
Grants(n, lag) ==
  /\ burst' = burst + n
  /\ net' = LessFor(net, SetBack(lag)) + n
  /\ taken' = taken + n

\* Mutants: what is granted is not subtracted; a refusal stores the time of the refill
\* but not the tokens.
TakeWithoutPaying(n, lag) ==
  /\ n <= Refilled(lag)
  /\ tokens' = Refilled(lag)
  /\ since' = lag
  /\ Grants(n, lag)
RefuseForgettingRefill(n, lag) ==
  /\ n > Refilled(lag)
  /\ tokens' = tokens
  /\ since' = lag
  /\ Grants(0, lag)

Take(n, lag) ==
  /\ n <= Refilled(lag)
  /\ tokens' = Refilled(lag) - n
  /\ since' = lag
  /\ Grants(n, lag)

Refuse(n, lag) ==
  /\ n > Refilled(lag)
  /\ tokens' = Refilled(lag)
  /\ since' = lag
  /\ Grants(0, lag)

\* The script of a client that has been cancelled in the meantime may still run.
LuaAcquire(c) ==
  /\ pc[c] \in {"script", "orphan"}
  /\ \E lag \in 0..last[c] :
       /\ last' = [last EXCEPT ![c] = lag]
       /\ \/ /\ Take(Request[c], lag)
             /\ pc' = [pc EXCEPT ![c] = IF @ = "script" THEN "idle" ELSE "cancelled"]
          \/ /\ Refuse(Request[c], lag)
             /\ pc' = [pc EXCEPT ![c] = IF @ = "script" THEN "read" ELSE "cancelled"]
  /\ UNCHANGED <<wait, round>>

-----------------------------------------------------------------------------
\* Seconds that begin during max(1, (requested - available) / rate) seconds of sleep.
Sleeps(missing) ==
  IF missing <= Rate THEN {1}
  ELSE {missing \div Rate, (missing + Rate - 1) \div Rate}

\* Others may have come between the script and this GET.
ReadAvailable(c) ==
  /\ pc[c] = "read"
  /\ \E seconds \in Sleeps(Request[c] - tokens) : wait' = [wait EXCEPT ![c] = seconds]
  /\ pc' = [pc EXCEPT ![c] = "sleep"]
  /\ UNCHANGED <<tokens, since, last, round, burst, net, taken>>

Wake(c) ==
  /\ pc[c] = "sleep" /\ wait[c] = 0
  /\ pc' = [pc EXCEPT ![c] = "script"]
  /\ UNCHANGED <<tokens, since, last, wait, round, burst, net, taken>>

Cancel(c) ==
  /\ pc[c] \in {"script", "read", "sleep"}
  /\ \/ pc' = [pc EXCEPT ![c] = "cancelled"]
     \/ pc[c] = "script" /\ pc' = [pc EXCEPT ![c] = "orphan"]
  /\ wait' = [wait EXCEPT ![c] = 0]
  /\ UNCHANGED <<tokens, since, last, round, burst, net, taken>>

Tick ==
  /\ since' = AtMost(since + 1, Idle)
  /\ last' = [c \in Clients |-> AtMost(last[c] + 1, MaxLag)]
  /\ wait' = [c \in Clients |-> AtLeast(wait[c] - 1, 0)]
  /\ burst' = LessFor(burst, 1) /\ net' = LessFor(net, 1)
  /\ UNCHANGED <<tokens, pc, round, taken>>

Step(c) == LuaAcquire(c) \/ ReadAvailable(c) \/ Wake(c)

Next == Tick \/ \E c \in Clients : Acquire(c) \/ Step(c) \/ Cancel(c)

Spec == Init /\ [][Next]_vars

\* Redis answers, sleeps end, time passes.  Callers come and go as they like.
FairSpec == Spec /\ WF_vars(Tick) /\ \A c \in Clients : WF_vars(Step(c))

-----------------------------------------------------------------------------
(* Properties. *)

\* README.md, `token-bucket ... limits': in any stretch of time no more is taken than a full
\* bucket, what comes in, and what a reading before the stretch leaves over.
RateLimited == burst <= Capacity + Rate * MaxLag

\* What the code keeps to instead: a stretch may in addition take what comes in during each
\* second by which a reading in it sets the stored time back, as often as that happens; all
\* else is paid for, in whatever order scripts with floored and lagging clocks run.
RateBound == net <= Capacity + Rate * MaxLag

\* The refill on demand implements a bucket that is refilled every second, but for the
\* tokens of one lag that a call may find once more: no token is lost by a refusal, a
\* rounding or a reading out of order, and no other is granted that is not there.
Eager == INSTANCE EagerBucket WITH
  level <- AtMost(tokens + since * Rate, Capacity), Drift <- MaxLag,
  Amounts <- {Request[c] : c \in Clients}
EagerBucketSpec == Eager!BucketSpec

\* A caller is answered in the end, although there is no queue before the bucket and others
\* take the tokens it slept for; one that asks for too much is not kept waiting.
Served == \A c \in Clients : pc[c] \in {"script", "read", "sleep"}
                               ~> pc[c] \notin {"script", "read", "sleep"}
=============================================================================
