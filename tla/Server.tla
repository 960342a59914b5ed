------------------------------- MODULE Server -------------------------------
(***************************************************************************)
(* The server process from start to exit (cmd/process.go, server/): the    *)
(* order in which it opens the store, configures the transformer, serves   *)
(* and takes signals, the controllers, and the drain before CloseFS.       *)
(* Processes follow one another on the same files, each with a             *)
(* configuration of its own.                                               *)
(*                                                                         *)
(* A call of the store is one step here: what overlapping calls do to each *)
(* other is in LFS, what files and index go through is in Store.  The      *)
(* regions are one log, a position in it stands for region and offset.     *)
(*                                                                         *)
(* The disk takes a record whole or not at all, and a rotation succeeds.   *)
(* A record cut short leaves lfs.offset behind the end of the file, and a  *)
(* rotation that fails has counted regionID up: entries made after either  *)
(* lead to other records or nowhere.  One log has no room for that; both   *)
(* faults and what follows from them are in Store, with the regions, and   *)
(* nothing here speaks of a server that has met one.                       *)
(***************************************************************************)
EXTENDS Codec, Naturals, Sequences, FiniteSets

CONSTANTS
    Clients,   \* connections, one request at a time each
    Keys,
    Kinds,     \* routes in use, of "set", "zset", "list", "text", "table", "number"
    Data,      \* contents a client may put
    Zero,      \* the content "binding:required" refuses: null, 0 or ""
    Configs,   \* transformers the configuration may ask for
    Ends,      \* ways a process may end
    Faults,    \* "refuse": the disk takes no byte of a record; "stat": the health query fails
    NoFile,    \* there is no index file
    MaxLog     \* records ever written (bound)

ASSUME ServerAssumption ==
    /\ Configs \subseteq Transformer
    /\ Ends \subseteq {"signal", "early", "listen", "collector", "crash"}
    /\ Faults \subseteq {"refuse", "stat"}
    /\ Zero \notin Data
    /\ Kinds \subseteq {"set", "zset", "list", "text", "table", "number"}
    /\ NoFile \notin [Keys -> Nat]
    /\ MaxLog \in Nat

VARIABLES
    phase,        \* how far runServer has come
    config,       \* compressor and encryptor of conf.Settings
    transformer,  \* the global Transformer of package vfs
    log,          \* the records in the regions, oldest first
    index,        \* the index: the position of a key's record, 0 for none
    indexFile,    \* index.wdb
    request       \* what is being handled for each client

store == <<log, index, indexFile>>
vars == <<phase, config, transformer, log, index, indexFile, request>>

-----------------------------------------------------------------------------

\* Records and requests.

Record(key, kind, data, value) ==
    [key |-> key, kind |-> kind, data |-> data, value |-> value]

IsTombstone(rec) == rec.kind = "unknown"

NoRequest ==
    [at |-> "idle", verb |-> "none", kind |-> "unknown", key |-> "none",
     data |-> Zero, status |-> "none", pos |-> 0]

Started(verb, kind, key, data) ==
    [at |-> "received", verb |-> verb, kind |-> kind, key |-> key,
     data |-> data, status |-> "none", pos |-> 0]

Refused(status) == [NoRequest EXCEPT !.at = "done", !.status = status]

InFlight == {c \in Clients : request[c].at \in {"received", "called"}}

\* Mutant: the last one is.
LastStatus(status, next) == next

\* The first status a handler writes is the one that is sent.
FirstStatus(status, next) == IF status = "none" THEN next ELSE status

\* The last record of a key, if there is one.
LastOf(l, k) ==
    {p \in DOMAIN l : l[p].key = k /\ \A q \in DOMAIN l : l[q].key = k => q <= p}

\* The index a scan of the regions builds: later records replace earlier ones.
Replay(l) ==
    [k \in Keys |->
        IF \E p \in LastOf(l, k) : ~ IsTombstone(l[p])
        THEN CHOOSE p \in LastOf(l, k) : TRUE
        ELSE 0]

-----------------------------------------------------------------------------
(***************************************************************************)
(* The process.                                                            *)
(***************************************************************************)

Init ==
    /\ phase = "down"
    /\ config = Plain /\ transformer = Plain
    /\ log = <<>>
    /\ index = [k \in Keys |-> 0]
    /\ indexFile = NoFile
    /\ request = [c \in Clients |-> NoRequest]

\* Mutant: the transformer is configured before the store is opened.
AtOpenConfigured == config'

\* The global transformer of a new process is NewTransformer().
AtOpen == Plain

\* A process starts with a configuration.
Launch ==
    /\ phase = "down"
    /\ config' \in Configs
    /\ transformer' = AtOpen
    /\ phase' = "launched"
    /\ UNCHANGED <<store, request>>

\* OpenFS believes the index file; without one it reads, and decodes, every
\* record, and fails with the first that does not decode.
OpenFS ==
    /\ phase = "launched"
    /\ IF indexFile # NoFile THEN index' = indexFile
       ELSE /\ \A p \in DOMAIN log :
                  Decode(transformer, log[p].value) \cap {Broken, Panic} = {}
            /\ index' = Replay(log)
    /\ phase' = "open"
    /\ UNCHANGED <<config, transformer, log, indexFile, request>>

\* Mutant: the secret is refused, and the error of SetEncryptor is not looked at.
AsConfiguredUnsealed == [config EXCEPT !.secret = NoSecret]

\* SetCompressor and SetEncryptor.
AsConfigured == config

Configure ==
    /\ phase = "open"
    /\ transformer' = AsConfigured
    /\ phase' = "configured"
    /\ UNCHANGED <<config, store, request>>

\* SetupFS, and the goroutine that listens is on its way.
Startup ==
    /\ phase = "configured"
    /\ phase' = "serving"
    /\ UNCHANGED <<config, transformer, store, request>>

\* Half a second later signals are caught; requests are being served already.
Notify ==
    /\ phase = "serving"
    /\ phase' = "ready"
    /\ UNCHANGED <<config, transformer, store, request>>

\* A signal that is caught: Shutdown closes the listener.
Signal ==
    /\ "signal" \in Ends
    /\ phase = "ready"
    /\ phase' = "draining"
    /\ UNCHANGED <<config, transformer, store, request>>

\* Mutant: connections are closed, not drained.
DrainedAtOnce == TRUE

\* http.Server.Shutdown returns when no request is in flight.
Drained == InFlight = {}

\* Mutant: an index file that is there is left alone.
ExportIndexOnce == IF indexFile = NoFile THEN index ELSE indexFile

ExportIndex == index

\* Shutdown is through, CloseFS writes the index file and the process exits.
CloseFS ==
    /\ phase = "draining"
    /\ Drained
    /\ indexFile' = ExportIndex
    /\ phase' = "down"
    /\ request' = [c \in Clients |-> NoRequest]
    /\ UNCHANGED <<config, transformer, log, index>>

\* The process ends without Shutdown.
Die ==
    /\ phase' = "down"
    /\ request' = [c \in Clients |-> NoRequest]
    /\ UNCHANGED <<config, transformer, store>>

\* A signal before Notify has its default effect.
SignalEarly ==
    /\ "early" \in Ends
    /\ phase \in {"launched", "open", "configured", "serving"}
    /\ Die

\* ListenAndServe fails, to listen or to accept: clog.Failed panics.
StartupFails ==
    /\ "listen" \in Ends
    /\ phase \in {"serving", "ready"}
    /\ Die

\* The collector reads a record that does not decode: nothing recovers a panic
\* of its goroutine.
CollectorPanics ==
    /\ "collector" \in Ends
    /\ phase \in {"configured", "serving", "ready", "draining"}
    /\ \E p \in DOMAIN log : Panic \in Decode(transformer, log[p].value)
    /\ Die

Crash ==
    /\ "crash" \in Ends
    /\ phase # "down"
    /\ Die

-----------------------------------------------------------------------------
(***************************************************************************)
(* Requests.                                                               *)
(***************************************************************************)

\* Mutant: and also afterwards.
AcceptsDraining(c) ==
    /\ phase \in {"serving", "ready", "draining"}
    /\ c \notin InFlight

\* A connection is accepted while the listener is open.
Accepts(c) ==
    /\ phase \in {"serving", "ready"}
    /\ c \notin InFlight

Reply(c, r) ==
    /\ request' = [request EXCEPT ![c] = r]
    /\ UNCHANGED <<phase, config, transformer, store>>

\* authMiddleware: the address is not on the list, or the token is wrong.
Unauthorized(c) == Accepts(c) /\ Reply(c, Refused("401"))

\* Error404Handler.
UnknownRoute(c) == Accepts(c) /\ Reply(c, Refused("404"))

\* GetHealthController: after an error it goes on with a nil health, and the
\* panic takes the connection with the answer still in its buffer.
Health(c) ==
    /\ Accepts(c)
    /\ \/ Reply(c, Refused("200"))
       \/ "stat" \in Faults /\ Reply(c, Refused("panic"))

\* The log has room for one more write (bound).
Room ==
    Len(log) + Cardinality({c \in Clients : request[c].at = "received" /\ request[c].verb # "get"})
        < MaxLog

\* The middleware lets a request for a key through, and a put binds its body.
Receive(c, kind) ==
    /\ kind \in Kinds
    /\ Accepts(c)
    /\ \/ \E k \in Keys : Reply(c, Started("get", kind, k, Zero))
       \/ \E k \in Keys : Room /\ Reply(c, Started("delete", kind, k, Zero))
       \/ \E k \in Keys, d \in Data : Room /\ Reply(c, Started("put", kind, k, d))
       \/ Reply(c, Refused("400"))

ListRequest(c)   == Receive(c, "list")
TableRequest(c)  == Receive(c, "table")
ZsetRequest(c)   == Receive(c, "zset")
TextRequest(c)   == Receive(c, "text")
NumberRequest(c) == Receive(c, "number")
SetRequest(c)    == Receive(c, "set")

Routes(c) ==
    \/ ListRequest(c) \/ TableRequest(c) \/ ZsetRequest(c)
    \/ TextRequest(c) \/ NumberRequest(c) \/ SetRequest(c)

\* The call returned, and the controller has its answer.
Called(c, status, pos, data) ==
    request' = [request EXCEPT ![c].at = "called", ![c].status = status,
                               ![c].pos = pos, ![c].data = data]

\* FetchSegment fails on a key without an entry and on a record that does not
\* decode, and both are answered with 404; a failing conversion with 500.
Get(c) ==
    /\ request[c].at = "received" /\ request[c].verb = "get"
    /\ LET r == request[c]
           p == index[r.key]
       IN  IF p = 0 THEN Called(c, "404", 0, Zero)
           ELSE \E v \in Decode(transformer, log[p].value) :
                  LET typed == Convert(r.kind, log[p].kind, v)
                  IN  \/ v = Panic  /\ Called(c, "panic", p, Zero)
                      \/ v = Broken /\ Called(c, "404", p, Zero)
                      \/ v \notin {Panic, Broken} /\ typed = Broken /\ Called(c, "500", p, Zero)
                      \/ typed # Broken /\ Called(c, "200", p, typed[2])
    /\ UNCHANGED <<phase, config, transformer, store>>

\* NewSegment and PutSegment, a rotation that succeeds included.
Put(c) ==
    /\ request[c].at = "received" /\ request[c].verb = "put"
    /\ LET r   == request[c]
           rec == Record(r.key, r.kind, r.data, Encode(transformer, Bson(r.data)))
       IN  \/ /\ log' = Append(log, rec)
              /\ index' = [index EXCEPT ![r.key] = Len(log) + 1]
              /\ Called(c, "201", Len(log) + 1, r.data)
           \/ /\ "refuse" \in Faults
              /\ Called(c, "500", 0, r.data)
              /\ UNCHANGED <<log, index>>
    /\ UNCHANGED <<phase, config, transformer, indexFile>>

\* DeleteSegment, whatever the kind of the key and whether it is there or not.
\* The controller writes its 204 also after the 500 of an error.
Delete(c) ==
    /\ request[c].at = "received" /\ request[c].verb = "delete"
    /\ LET r == request[c]
       IN  \/ /\ log' = Append(log, Record(r.key, "unknown", Zero, Empty))
              /\ index' = [index EXCEPT ![r.key] = 0]
              /\ Called(c, FirstStatus("none", "204"), Len(log) + 1, Zero)
           \/ /\ "refuse" \in Faults
              /\ Called(c, FirstStatus(FirstStatus("none", "500"), "204"), 0, Zero)
              /\ UNCHANGED <<log, index>>
    /\ UNCHANGED <<phase, config, transformer, indexFile>>

\* The answer is sent; past the write timeout, or with the client gone, it is lost.
Answer(c) ==
    /\ request[c].at = "called"
    /\ \E s \in {request[c].status, "lost"} :
          Reply(c, [request[c] EXCEPT !.at = "done", !.status = s])

Handle(c) == Get(c) \/ Put(c) \/ Delete(c) \/ Answer(c)

-----------------------------------------------------------------------------

Process ==
    \/ Launch \/ OpenFS \/ Configure \/ Startup \/ Notify \/ Signal \/ CloseFS
    \/ SignalEarly \/ StartupFails \/ CollectorPanics \/ Crash

Next ==
    \/ Process
    \/ \E c \in Clients :
          Unauthorized(c) \/ UnknownRoute(c) \/ Health(c) \/ Routes(c) \/ Handle(c)

Spec == Init /\ [][Next]_vars

\* The main goroutine goes on and so does every handler, and whoever runs the
\* server starts it again.
FairSpec ==
    /\ Spec
    /\ WF_vars(Launch) /\ WF_vars(OpenFS) /\ WF_vars(Configure) /\ WF_vars(Startup) /\ WF_vars(Notify)
    /\ WF_vars(CloseFS)
    /\ \A c \in Clients : WF_vars(Handle(c))

-----------------------------------------------------------------------------
(***************************************************************************)
(* Properties.                                                             *)
(***************************************************************************)

\* Every variable has its type, and an entry of the index is the position of a
\* record of its key that is no tombstone.
TypeOK ==
    /\ phase \in {"down", "launched", "open", "configured", "serving", "ready", "draining"}
    /\ config \in {Plain} \cup Configs
    /\ transformer \in {Plain, config}
    /\ phase \in {"configured", "serving", "ready", "draining"} => transformer = config
    /\ \A p \in DOMAIN log : log[p].key \in Keys
    /\ \A k \in Keys : index[k] # 0 =>
          index[k] \in DOMAIN log /\ log[index[k]].key = k /\ ~ IsTombstone(log[index[k]])
    /\ \A c \in Clients : request[c].at \in {"idle", "received", "called", "done"}
    /\ InFlight # {} => phase \in {"serving", "ready", "draining"}

\* A write that is answered with success has its record in the log, one that is
\* refused for its sender or its body has none (the controllers of db_service.go
\* and the order of their answers).
HonestAnswers ==
    \A c \in Clients : request[c].at = "done" =>
        LET r == request[c]
        IN  /\ r.status \in {"201", "204"} =>
                  /\ r.pos \in DOMAIN log
                  /\ log[r.pos].key = r.key
                  /\ IsTombstone(log[r.pos]) <=> r.verb = "delete"
            /\ r.status \in {"400", "401"} => r.pos = 0

\* A get that is answered with a value hands out what was put under the key with
\* the type that is asked for, whatever the transformer was then and is now
\* (readSegment, Decode and the To... conversions).
ReadsAsWritten ==
    \A c \in Clients : request[c].at = "done" /\ request[c].verb = "get" =>
        LET r == request[c]
        IN  r.status = "200" =>
                /\ r.pos \in DOMAIN log
                /\ log[r.pos].key = r.key /\ log[r.pos].kind = r.kind
                /\ log[r.pos].data = r.data

\* What was written under the configuration of now can be read: a get that finds
\* such a record fails for its type alone (Encode and Decode are inverse, and
\* nothing is served before both are configured).
SameConfigReads ==
    \A c \in Clients : request[c].at = "done" /\ request[c].verb = "get" =>
        LET r == request[c]
        IN  r.pos # 0 /\ log[r.pos].value = Encode(config, Bson(log[r.pos].data)) =>
                r.status \in IF log[r.pos].kind = r.kind THEN {"200", "lost"} ELSE {"500", "lost"}

\* A request that was accepted is answered, or its answer is lost on the way, or
\* its process has ended before: a shutdown waits for it (HttpServer.Shutdown).
Answered ==
    \A c \in Clients : request[c].at = "received" ~> request[c].at = "done"

\* A process that has caught a signal exits, whatever its clients do.
ShutdownEnds == phase = "draining" ~> phase = "down"

\* The store opens with every configuration a process may be started with, records
\* of other configurations and tombstones included, unless the process is killed
\* meanwhile (the scan runs in OpenFS, before runServer configures the transformer).
Reopens == phase = "launched" ~> phase \in {"open", "down"}

=============================================================================
