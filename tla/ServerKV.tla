----------------------------- MODULE ServerKV ------------------------------
(***************************************************************************)
(* The server implements module KVCalls: one map for all clients and all   *)
(* processes, changed by puts and deletes alone.  While no process runs,   *)
(* the map is what the next one will serve.  Times to live are left to     *)
(* Store.                                                                  *)
(***************************************************************************)
EXTENDS Server

CONSTANT NoItem  \* "absent"

ServedIndex ==
    IF phase \notin {"down", "launched"} THEN index
    ELSE IF indexFile # NoFile THEN indexFile
    ELSE Replay(log)

Content(kind, data) == [value |-> [kind |-> kind, data |-> data], expired |-> 0]

ItemOf(p) == IF p = 0 THEN NoItem ELSE Content(log[p].kind, log[p].data)

\* A get that finds nothing succeeds as a call of the map, with no item.
ResultOf(r) ==
    IF r.verb = "get" /\ r.pos # 0 THEN Content(r.kind, r.data) ELSE NoItem

Succeeds(r) ==
    \/ r.status \in {"200", "201", "204"}
    \/ r.verb = "get" /\ r.pos = 0

CallOf(r) ==
    CASE r.at = "received" ->
           [at |-> "pending", op |-> r.verb, inum |-> r.key,
            value |-> IF r.verb = "put" THEN [kind |-> r.kind, data |-> r.data] ELSE NoItem]
      [] r.at = "called" /\ Succeeds(r) ->
           [at |-> "over", ok |-> TRUE, result |-> ResultOf(r)]
      [] r.at = "called" /\ ~ Succeeds(r) -> [at |-> "over", ok |-> FALSE]
      [] OTHER -> [at |-> "idle"]

KVView ==
    INSTANCE KVCalls WITH
        KVClients <- Clients, KVInums <- Keys,
        KVValues <- [kind : Kinds, data : Data],
        kv <- [k \in Keys |-> ItemOf(ServedIndex[k])],
        call <- [c \in Clients |-> CallOf(request[c])]

\* Every call takes effect once, between its begin and its answer, a get finds
\* what the last put or delete left, and no signal, drain, exit or start loses a
\* write or brings one back (the controllers, runServer, Shutdown, CloseFS and
\* OpenFS together).
ServesKV == KVView!Spec

=============================================================================
