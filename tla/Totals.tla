------------------------------- MODULE Totals -------------------------------
(* Sums of numbered integers f[1] + ... + f[count].                        *)
EXTENDS Integers

PartialSums(f, count) ==
    LET upTo[n \in 0..count] == IF n = 0 THEN 0 ELSE upTo[n - 1] + f[n]
    IN  upTo

Total(f, count) == PartialSums(f, count)[count]
=============================================================================
