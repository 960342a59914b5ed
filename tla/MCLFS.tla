------------------------------- MODULE MCLFS -------------------------------
(***************************************************************************)
(* Instances of LFS for TLC: two or three goroutines, one or two keys,     *)
(* regions that are full after two or three records.                       *)
(***************************************************************************)
EXTENDS LFSKV, TLC

CONSTANTS k1, k2, v1, t1, t2, t3

MCInodeNum == [k \in Keys |-> IF k = k1 THEN 1 ELSE 2]

\* A tombstone is shorter than any other record.
MCSegSize ==
    [kv \in Keys \X {v1, Tombstone} |-> IF kv[2] = Tombstone THEN 1 ELSE 2]

\* Goroutines run the same code and no action tells them apart.
MCSymmetry == Permutations(Threads)

=============================================================================
