----------------------------- MODULE EagerBucket -----------------------------
(***************************************************************************)
(* What a token bucket promises, without the stored time of the last       *)
(* refill: it gains Rate tokens with every second until it is full, and a  *)
(* caller takes only tokens that are there.  Callers whose clocks differ   *)
(* by up to Drift seconds may find the tokens of that time once more, at   *)
(* every call: how often they may do so is not limited here.               *)
(***************************************************************************)
EXTENDS Integers

CONSTANTS Rate, Capacity, Drift, Amounts

VARIABLES level, taken

bucketVars == <<level, taken>>

Upto(x) == IF x < Capacity THEN x ELSE Capacity

Second ==
  /\ level' = Upto(level + Rate)
  /\ UNCHANGED taken

Take(n) ==
  /\ n <= level
  /\ \E extra \in 0..(Rate * Drift) : level' = Upto(level - n + extra)
  /\ taken' = taken + n

BucketInit == level = Capacity /\ taken = 0
BucketNext == Second \/ \E n \in Amounts \cup {0} : Take(n)
BucketSpec == BucketInit /\ [][BucketNext]_bucketVars
=============================================================================
