------------------------------ MODULE KVCalls ------------------------------
(***************************************************************************)
(* The map of module KV as its clients see it: calls begin, take effect in *)
(* one step between their begin and their end, and may fail.  The map      *)
(* changes with the effect of a put or a delete and at no other time.  A   *)
(* call with nothing to hand out may end with its effect.                  *)
(***************************************************************************)
EXTENDS Naturals

CONSTANTS KVClients, KVInums, KVValues, NoItem

VARIABLES
    kv,   \* the map
    call  \* the call of each client

Map == INSTANCE KV WITH KVTtls <- {0}, clock <- 1

vars == <<kv, call>>

Idle == [at |-> "idle"]

Pending(op, i, v) == [at |-> "pending", op |-> op, inum |-> i, value |-> v]

Succeeded(result) == [at |-> "over", ok |-> TRUE, result |-> result]

Failed == [at |-> "over", ok |-> FALSE]

Init == Map!Init /\ call = [c \in KVClients |-> Idle]

Becomes(c, s) == call' = [call EXCEPT ![c] = s]

Begin(c) ==
    /\ call[c] = Idle
    /\ \E i \in KVInums :
          \/ \E op \in {"get", "delete"} : Becomes(c, Pending(op, i, NoItem))
          \/ \E v \in KVValues : Becomes(c, Pending("put", i, v))
    /\ UNCHANGED kv

PutNow(c) ==
    /\ call[c].at = "pending" /\ call[c].op = "put"
    /\ Map!Put(call[c].inum, call[c].value, 0)
    /\ Becomes(c, Succeeded(NoItem))

DeleteNow(c) ==
    /\ call[c].at = "pending" /\ call[c].op = "delete"
    /\ Map!Delete(call[c].inum)
    /\ \E s \in {Succeeded(NoItem), Idle} : Becomes(c, s)

GetNow(c) ==
    /\ call[c].at = "pending" /\ call[c].op = "get"
    /\ \/ Becomes(c, Succeeded(kv[call[c].inum]))
       \/ kv[call[c].inum] = NoItem /\ Becomes(c, Idle)
    /\ UNCHANGED kv

Fail(c) ==
    /\ call[c].at = "pending"
    /\ \/ Becomes(c, Failed)
       \/ call[c].op = "put" /\ Becomes(c, Idle)
    /\ UNCHANGED kv

End(c) ==
    /\ call[c].at = "over"
    /\ Becomes(c, Idle)
    /\ UNCHANGED kv

\* The process ends, and with it all calls.
Stop ==
    /\ call' = [c \in KVClients |-> Idle]
    /\ UNCHANGED kv

Next ==
    \/ \E c \in KVClients :
          Begin(c) \/ PutNow(c) \/ DeleteNow(c) \/ GetNow(c) \/ Fail(c) \/ End(c)
    \/ Stop

Spec == Init /\ [][Next]_vars

\* The map goes on from what there was before the clients came.
Resumed ==
    /\ kv \in [KVInums -> Map!Item \cup {NoItem}]
    /\ call = [c \in KVClients |-> Idle]

ResumedSpec == Resumed /\ [][Next]_vars

=============================================================================
