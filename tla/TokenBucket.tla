----------------------------- MODULE TokenBucket -----------------------------
(***************************************************************************)
(* What a rate limiter promises, without the map and the eviction that      *)
(* implement it: one bucket for each key, full at first, that gains one     *)
(* token in PerToken ticks and pays one for each request it admits.  Credit *)
(* is counted in ticks.                                                     *)
(***************************************************************************)
EXTENDS Naturals

CONSTANTS
  Keys,
  Burst,     \* tokens a bucket holds
  PerToken   \* ticks a token takes

VARIABLES
  bucket,  \* the credit of each key
  answer   \* the last answer given: to whom, and whether it was let through

bucketVars == <<bucket, answer>>

Full == Burst * PerToken
Refilled(credit) == IF credit < Full THEN credit + 1 ELSE credit

Ask(k) ==
  LET ok == bucket[k] >= PerToken
  IN /\ bucket' = [bucket EXCEPT ![k] = IF ok THEN @ - PerToken ELSE @]
     /\ answer' = [key |-> k, ok |-> ok]

Refill ==
  /\ bucket' = [k \in Keys |-> Refilled(bucket[k])]
  /\ UNCHANGED answer

Init ==
  /\ bucket = [k \in Keys |-> Full]
  /\ answer = <<>>

Next == Refill \/ \E k \in Keys : Ask(k)

Spec == Init /\ [][Next]_bucketVars
=============================================================================
