---------------------------- MODULE MCTokenBucket ----------------------------
(* Three runs of different weight, one of them heavier than the bucket, for TLC. *)
EXTENDS TokenBucket, TLC

CONSTANTS c1, c2, c3

Weights == c1 :> 2 @@ c2 :> 3 @@ c3 :> 5
=============================================================================
