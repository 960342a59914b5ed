-------------------------------- MODULE KV --------------------------------
(***************************************************************************)
(* What the storage engine promises to its callers, with no files and no   *)
(* index: a map from inode numbers to items, where an item may carry an    *)
(* instant from which it counts as absent.  Nothing but a put, a delete or *)
(* the expiry of an item changes the map; in particular the end of the     *)
(* process and the next start of it do not.                                *)
(***************************************************************************)
EXTENDS Naturals

CONSTANTS
    KVInums,    \* inode numbers
    KVValues,   \* payloads
    KVTtls,     \* times to live a client may ask for; 0 is "for ever"
    NoItem      \* "absent"

Item == [value : KVValues, expired : Nat]

VARIABLES kv, clock

vars == <<kv, clock>>

Init ==
    /\ kv = [i \in KVInums |-> NoItem]
    /\ clock = 1

ExpiredAt(i, now) ==
    kv[i] # NoItem /\ kv[i].expired # 0 /\ kv[i].expired <= now

\* An item past its instant may be dropped, and is so at an arbitrary time.
Evict(S, now) ==
    /\ \A i \in S : ExpiredAt(i, now)
    /\ kv' = [i \in KVInums |-> IF i \in S THEN NoItem ELSE kv[i]]

Put(i, v, ttl) ==
    /\ kv' = [kv EXCEPT ![i] =
                [value |-> v,
                 expired |-> IF ttl > 0 THEN clock + ttl ELSE 0]]
    /\ UNCHANGED clock

Delete(i) ==
    /\ kv' = [kv EXCEPT ![i] = NoItem]
    /\ UNCHANGED clock

Expire ==
    /\ \E S \in SUBSET KVInums : Evict(S, clock)
    /\ UNCHANGED clock

Tick ==
    /\ clock' = clock + 1
    /\ \E S \in SUBSET KVInums : Evict(S, clock')

Next ==
    \/ \E i \in KVInums, v \in KVValues, ttl \in KVTtls : Put(i, v, ttl)
    \/ \E i \in KVInums : Delete(i)
    \/ Expire
    \/ Tick

Spec == Init /\ [][Next]_vars

=============================================================================
