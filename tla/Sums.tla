-------------------------------- MODULE Sums --------------------------------
(***************************************************************************)
(* Sums over a list of numbers, as the tools that count tokens, batches    *)
(* and slots run them up.                                                  *)
(***************************************************************************)
EXTENDS Integers, Sequences

(* What is counted after each of them, from nothing on.                    *)
PrefixSums(numbers) ==
    LET sum[k \in 0..Len(numbers)] == IF k = 0 THEN 0 ELSE sum[k - 1] + numbers[k]
    IN  sum

TotalOf(numbers) == PrefixSums(numbers)[Len(numbers)]
=============================================================================
