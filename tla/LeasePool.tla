------------------------------ MODULE LeasePool ------------------------------
(***************************************************************************)
(* What a semaphore promises, without the keys, scripts and clocks that    *)
(* filament/redis/semaphore.py keeps it with: a caller enters only while   *)
(* fewer than max_leases callers are inside within their ttl.  A caller    *)
(* that overstays its ttl has lapsed: it is still inside, but counts no    *)
(* more, unless it extends in time for its place not to have been given    *)
(* away.                                                                   *)
(***************************************************************************)
EXTENDS Integers, FiniteSets

CONSTANTS Clients, MaxLeases

VARIABLES inside, lapsed

poolVars == <<inside, lapsed>>

PoolInit == inside = {} /\ lapsed = {}

\* The reply to a request may take longer than the ttl it asks for.
Enter(c) ==
  /\ c \in Clients \ inside
  /\ Cardinality(inside \ lapsed) < MaxLeases
  /\ inside' = inside \cup {c}
  /\ lapsed' \in {lapsed, lapsed \cup {c}}

\* The ttl of some callers runs out.
Lapse ==
  /\ \E S \in SUBSET (inside \ lapsed) : lapsed' = lapsed \cup S
  /\ UNCHANGED inside

Renew(c) ==
  /\ c \in lapsed
  /\ Cardinality(inside \ lapsed) < MaxLeases
  /\ lapsed' = lapsed \ {c}
  /\ UNCHANGED inside

\* A caller returns, is cancelled or dies.
Quit(c) ==
  /\ c \in inside
  /\ inside' = inside \ {c}
  /\ lapsed' = lapsed \ {c}

PoolNext == Lapse \/ \E c \in Clients : Enter(c) \/ Renew(c) \/ Quit(c)

PoolSpec == PoolInit /\ [][PoolNext]_poolVars
=============================================================================
