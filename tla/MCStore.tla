------------------------------ MODULE MCStore ------------------------------
(***************************************************************************)
(* Instances of Store for TLC.  Two keys, records of two sizes, regions    *)
(* that are full after two or three records.                               *)
(***************************************************************************)
EXTENDS StoreKV

CONSTANTS k1, k2, v1, v2

MCKeys == {k1, k2}

MCValues == {v1, v2}

MCInodeNum == [k \in {k1, k2} |-> IF k = k1 THEN 1 ELSE 2]

\* A tombstone is the shortest record and v2 the longest one.
MCSegSize ==
    [kv \in {k1, k2} \X {v1, v2, Tombstone} |->
        IF kv[2] = Tombstone THEN 1 ELSE IF kv[2] = v1 THEN 2 ELSE 3]

=============================================================================
