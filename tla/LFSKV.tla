------------------------------- MODULE LFSKV -------------------------------
(***************************************************************************)
(* LogStructuredFS, driven by careful clients, implements module KVCalls:  *)
(* the calls of all goroutines are as if each had happened in one step     *)
(* between its begin and its end.  A put takes effect where it enters its  *)
(* INode in the index, a delete where it removes the entry, an update with *)
(* its append, and a fetch with its lookup, though it reads the record     *)
(* long after.  An item carries the key of its record: keys with the same  *)
(* hash share an inode number.                                             *)
(***************************************************************************)
EXTENDS LFS

CONSTANT NoItem  \* "absent"

ItemOf(s) ==
    [value |-> [key |-> s.key, value |-> s.value], expired |-> s.expired]

\* What reading where the INode points returns.
ItemAt(D, inode) ==
    LET read == ReadSegment(D, inode.region, inode.pos)
    IN  IF read = {} THEN NoItem ELSE ItemOf((CHOOSE e \in read : TRUE).seg)

\* An update has appended its record, and its INode does not yet lead there.
Changing == {"update_offset", "update_position", "update_times", "update_region_id",
             "update_region"}

Rewriting(i) == {t \in Threads : pc[t] \in Changing /\ InodeNum[key[t]] = i}

MapItem(i) ==
    IF Rewriting(i) # {} THEN ItemOf(seg[CHOOSE t \in Rewriting(i) : TRUE])
    ELSE IF index[i] = 0 THEN NoItem
    ELSE ItemAt(disk, heap[index[i]])

Called(t, op, v) ==
    [at |-> "pending", op |-> op, inum |-> InodeNum[key[t]], value |-> v]

Over(result) == [at |-> "over", ok |-> TRUE, result |-> result]

\* A put or an update that has not yet taken effect.
Putting == {"put_append", "put_index", "update_lookup", "update_swap", "update_append"}

\* A fetch with the INode it looked up.
Reading == {"fetch_expired_at", "fetch_expired_at_0", "fetch_region", "fetch_read"}

CallOf(t) ==
    CASE pc[t] = "idle" -> [at |-> "idle"]
      [] pc[t] = "fetch_lookup" -> Called(t, "get", NoItem)
      [] pc[t] \in Putting ->
           Called(t, "put", [key |-> seg[t].key, value |-> seg[t].value])
      [] pc[t] \in InDelete -> Called(t, "delete", NoItem)
      [] pc[t] \in Reading -> Over(ItemAt(disk, heap[ptr[t]]))
      [] pc[t] = "fetch_version" -> Over(ItemOf(got[t].read.seg))
      [] OTHER -> Over(NoItem)

KVView ==
    INSTANCE KVCalls WITH
        KVClients <- Threads, KVInums <- Inums,
        KVValues <- [key : Keys, value : Values],
        kv <- [i \in Inums |-> MapItem(i)],
        call <- [t \in Threads |-> CallOf(t)]

\* Every call takes effect once, between its begin and its end, and a fetch
\* returns what the last put, delete or update before its lookup left, through
\* rotations and whatever is written while it reads.
Linearizable == KVView!ResumedSpec

=============================================================================
