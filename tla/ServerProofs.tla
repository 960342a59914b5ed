---------------------------- MODULE ServerProofs ----------------------------
(***************************************************************************)
(* The safety properties of Server, for any clients, keys, kinds and       *)
(* configurations, and that it implements KVCalls when processes end by    *)
(* caught signals only or never by one.                                    *)
(***************************************************************************)
EXTENDS ServerKV, TLAPS

-----------------------------------------------------------------------------
(***************************************************************************)
(* Encoding and decoding.                                                  *)
(***************************************************************************)

Terms == {"bson", "snappy", "empty", "garbage", "broken", "panic"}

LEMMA DecryptOther ==
    ASSUME NEW s, NEW v, v[1] # s, NEW w \in Decrypt(s, v)
    PROVE  w \in {Panic, Garbage}
BY DEF Decrypt

LEMMA DecryptOwn == ASSUME NEW s, NEW v PROVE Decrypt(s, Encrypt(s, v)) = {v}
BY DEF Decrypt, Encrypt

\* What was encoded with a transformer is decoded by it, and by nothing else.
LEMMA DecodeInvertsEncode ==
    ASSUME NEW t \in Transformer, NEW d
    PROVE  Decode(t, Encode(t, Bson(d))) = {Bson(d)}
<1> DEFINE packed == IF t.compress THEN Compress(Bson(d)) ELSE Bson(d)
<1> DEFINE opened == IF t.secret = NoSecret THEN {Encode(t, Bson(d))}
                     ELSE Decrypt(t.secret, Encode(t, Bson(d)))
<1>1. opened = {packed}
  BY DecryptOwn DEF Encode
<1>2. packed # Panic
  BY DEF Compress, Bson, Panic
<1>3. t.compress => Decompress(packed) = Bson(d)
  BY DEF Compress, Decompress
<1>4. Decode(t, Encode(t, Bson(d))) = {IF t.compress /\ w # Panic THEN Decompress(w) ELSE w : w \in opened}
  BY DEF Decode
<1> HIDE DEF opened
<1>5. CASE t.compress
  BY <1>1, <1>2, <1>3, <1>4, <1>5
<1>6. CASE ~ t.compress
  BY <1>1, <1>4, <1>6
<1> QED BY <1>5, <1>6

\* Whatever is decoded into a document is the document that was encoded.
LEMMA DecodedIsEncoded ==
    ASSUME NEW t \in Transformer, NEW u \in Transformer, NEW d,
           NEW v \in Decode(t, Encode(u, Bson(d))), v[1] = "bson"
    PROVE  v = Bson(d)
<1> DEFINE packed == IF u.compress THEN Compress(Bson(d)) ELSE Bson(d)
<1> DEFINE sealed == Encode(u, Bson(d))
<1>1. /\ packed[1] \in {"bson", "snappy"}
      /\ packed[1] = "bson" => packed = Bson(d)
      /\ packed[1] = "snappy" => packed = <<"snappy", Bson(d)>>
  BY DEF Compress, Bson
<1>2. \/ u.secret = NoSecret /\ sealed = packed
      \/ u.secret \in Secrets /\ sealed = <<u.secret, packed>>
  BY DEF Encode, Encrypt, Transformer
<1>3. t.secret \in Secrets \cup {NoSecret}
  BY DEF Transformer
<1>4. PICK w \in (IF t.secret = NoSecret THEN {sealed} ELSE Decrypt(t.secret, sealed)) :
          v = IF t.compress /\ w # Panic THEN Decompress(w) ELSE w
  BY DEF Decode
<1>5. \A s \in Secrets : s \notin Terms
  BY CodecAssumption DEF Terms
<1>6. w = sealed \/ w = packed \/ w \in {Panic, Garbage}
  <2>1. CASE t.secret = NoSecret
    BY <1>4, <2>1
  <2>2. CASE t.secret # NoSecret /\ sealed[1] = t.secret
    <3>1. sealed = <<u.secret, packed>>
      BY <1>1, <1>2, <1>3, <1>5, <2>2 DEF Terms
    <3> QED BY <1>4, <2>2, <3>1 DEF Decrypt
  <2>3. CASE t.secret # NoSecret /\ sealed[1] # t.secret
    BY <1>4, <2>3, DecryptOther
  <2> QED BY <2>1, <2>2, <2>3
<1> HIDE DEF packed, sealed
<1>7. \/ w = Bson(d)
      \/ w = <<"snappy", Bson(d)>>
      \/ \E s \in Secrets : w = <<s, packed>>
      \/ w = Panic \/ w = Garbage
  BY <1>1, <1>2, <1>6
<1>8. CASE w = Bson(d)
  <2>1. Decompress(w) = Broken
    BY <1>8 DEF Decompress, Bson
  <2>2. Broken[1] # "bson"
    BY DEF Broken
  <2> QED BY <1>4, <1>8, <2>1, <2>2
<1>9. CASE w = <<"snappy", Bson(d)>>
  BY <1>4, <1>9 DEF Decompress, Panic
<1>10. CASE \E s \in Secrets : w = <<s, packed>>
  <2>1. w[1] \notin {"bson", "snappy"}
    BY <1>10, <1>5 DEF Terms
  <2>2. Decompress(w) = Broken /\ Broken[1] # "bson"
    BY <2>1 DEF Decompress, Broken
  <2> QED BY <1>4, <2>1, <2>2
<1>11. CASE w = Panic \/ w = Garbage
  <2>1. /\ Panic[1] # "bson" /\ Garbage[1] # "bson" /\ Broken[1] # "bson"
        /\ Decompress(Garbage) = Broken
    BY DEF Panic, Garbage, Broken, Decompress
  <2>2. v \in {Panic, Garbage, Broken}
    BY <1>4, <1>11, <2>1
  <2> QED BY <2>1, <2>2
<1> QED BY <1>7, <1>8, <1>9, <1>10, <1>11

-----------------------------------------------------------------------------
(***************************************************************************)
(* The inductive invariant: the types, what a record of the log may be,    *)
(* what an index may point at, and what is known of a call that has its    *)
(* answer.                                                                 *)
(***************************************************************************)

Phases == {"down", "launched", "open", "configured", "serving", "ready", "draining"}

\* The phases in which requests are handled.
Open == {"serving", "ready", "draining"}

Statuses ==
    {"none", "200", "201", "204", "400", "401", "404", "500", "panic", "lost"}

Verbs == {"none", "get", "put", "delete"}

Positions == [Keys -> Nat]

Request ==
    [at : {"idle", "received", "called", "done"}, verb : Verbs,
     kind : Kinds \cup {"unknown"}, key : Keys \cup {"none"},
     data : Data \cup {Zero}, status : Statuses, pos : Nat]

Bytes == {Empty} \cup {Encode(t, Bson(d)) : t \in Transformer, d \in Data}

LogRecord ==
    [key : Keys, kind : Kinds \cup {"unknown"}, data : Data \cup {Zero}, value : Bytes]

\* A tombstone has no value, any other record one that was encoded.
WellFormed(rec) ==
    ~ IsTombstone(rec) =>
        /\ rec.data \in Data
        /\ \E t \in Transformer : rec.value = Encode(t, Bson(rec.data))

\* An entry is the position of a record of its key.
Leads(l, ix) ==
    \A k \in Keys : ix[k] # 0 =>
        ix[k] \in DOMAIN l /\ l[ix[k]].key = k /\ ~ IsTombstone(l[ix[k]])

\* What was received is a request for a key.
Sensible(r) ==
    /\ r.key \in Keys
    /\ r.verb \in {"get", "put", "delete"}
    /\ r.kind \in Kinds
    /\ r.verb = "put" => r.data \in Data

\* What the answer of a call says of the log.
Truthful(l, asked, r) ==
    /\ r.pos \in 0 .. Len(l)
    /\ r.status \in {"201", "204"} =>
          /\ r.pos # 0 /\ l[r.pos].key = r.key
          /\ IsTombstone(l[r.pos]) <=> r.verb = "delete"
    /\ r.status \in {"400", "401"} => r.pos = 0
    /\ r.verb = "get" /\ r.status = "200" =>
          /\ r.pos # 0 /\ l[r.pos].key = r.key
          /\ l[r.pos].kind = r.kind /\ l[r.pos].data = r.data
    /\ r.verb = "get" /\ r.pos # 0 /\ l[r.pos].value = Encode(asked, Bson(l[r.pos].data)) =>
          r.status \in (IF l[r.pos].kind = r.kind THEN {"200", "lost"} ELSE {"500", "lost"})

ProcessInv ==
    /\ phase \in Phases
    /\ config \in Transformer /\ config \in {Plain} \cup Configs
    /\ transformer \in {Plain, config}
    /\ phase \in {"configured"} \cup Open => transformer = config

LogInv ==
    /\ log \in Seq(LogRecord)
    /\ \A p \in DOMAIN log : WellFormed(log[p])

IndexInv ==
    /\ index \in Positions /\ Leads(log, index)
    /\ indexFile \in Positions \cup {NoFile}
    /\ indexFile # NoFile => Leads(log, indexFile)

RequestInv ==
    /\ request \in [Clients -> Request]
    /\ \A c \in Clients :
          /\ request[c].at # "idle" => phase \in Open
          /\ request[c].at = "received" => Sensible(request[c])
          /\ request[c].at \in {"called", "done"} => Truthful(log, config, request[c])

IInv == ProcessInv /\ LogInv /\ IndexInv /\ RequestInv

LEMMA PlainIsTransformer == Plain \in Transformer
BY DEF Plain, Transformer

LEMMA InitInv == Init => IInv
<1> SUFFICES ASSUME Init PROVE IInv
  OBVIOUS
<1>1. ProcessInv
  BY PlainIsTransformer DEF Init, ProcessInv, Phases, Open
<1>2. LogInv
  BY DEF Init, LogInv
<1>3. IndexInv
  BY DEF Init, IndexInv, Positions, Leads
<1>4. NoRequest \in Request
  BY DEF NoRequest, Request, Verbs, Statuses
<1>5. RequestInv
  BY <1>4 DEF Init, RequestInv, NoRequest
<1> QED BY <1>1, <1>2, <1>3, <1>5 DEF IInv

-----------------------------------------------------------------------------
(***************************************************************************)
(* The log grows, and positions in it stay what they are.                  *)
(***************************************************************************)

LEMMA Appended ==
    ASSUME NEW l \in Seq(LogRecord), NEW rec \in LogRecord
    PROVE  LET m == Append(l, rec)
           IN  /\ m \in Seq(LogRecord) /\ Len(m) = Len(l) + 1
               /\ DOMAIN l = 1 .. Len(l) /\ DOMAIN m = 1 .. (Len(l) + 1)
               /\ \A p \in 1 .. Len(l) : m[p] = l[p]
               /\ m[Len(l) + 1] = rec
               /\ Len(l) \in Nat
OBVIOUS

LEMMA LeadsGrows ==
    ASSUME NEW l \in Seq(LogRecord), NEW rec \in LogRecord, NEW ix, Leads(l, ix)
    PROVE  Leads(Append(l, rec), ix)
<1> DEFINE m == Append(l, rec)
<1>1. DOMAIN l = 1 .. Len(l) /\ DOMAIN m = 1 .. (Len(l) + 1) /\ Len(l) \in Nat
  BY Appended
<1>2. \A p \in 1 .. Len(l) : m[p] = l[p]
  BY Appended
<1> HIDE DEF m
<1>3. Leads(m, ix)
  BY <1>1, <1>2 DEF Leads
<1> QED BY <1>3 DEF m

LEMMA TruthfulGrows ==
    ASSUME NEW l \in Seq(LogRecord), NEW rec \in LogRecord,
           NEW asked, NEW r \in Request, Truthful(l, asked, r)
    PROVE  Truthful(Append(l, rec), asked, r)
<1> DEFINE m == Append(l, rec)
<1>1. Len(m) = Len(l) + 1 /\ Len(l) \in Nat
  BY Appended
<1>2. \A p \in 1 .. Len(l) : m[p] = l[p]
  BY Appended
<1>3. r.pos \in 0 .. Len(l) /\ r.pos \in Nat
  BY DEF Truthful
<1>4. r.pos # 0 => m[r.pos] = l[r.pos]
  BY <1>1, <1>2, <1>3
<1> HIDE DEF m
<1>5. r.pos \in 0 .. Len(m)
  BY <1>1, <1>3
<1>6. Truthful(m, asked, r)
  BY <1>4, <1>5 DEF Truthful
<1> QED BY <1>6 DEF m

\* A key has at most one last record.
LEMMA LastIsUnique ==
    ASSUME NEW l \in Seq(LogRecord), NEW k, NEW p \in LastOf(l, k), NEW q \in LastOf(l, k)
    PROVE  p = q
<1>1. p \in Nat /\ q \in Nat
  BY DEF LastOf
<1>2. p <= q /\ q <= p
  BY DEF LastOf
<1> QED BY <1>1, <1>2

\* What a scan of the log finds leads to records of the log.
LEMMA ReplayLeads ==
    ASSUME NEW l \in Seq(LogRecord)
    PROVE  Replay(l) \in Positions /\ Leads(l, Replay(l))
<1>1. ASSUME NEW k \in Keys
      PROVE  \/ Replay(l)[k] = 0
             \/ /\ Replay(l)[k] \in DOMAIN l /\ Replay(l)[k] \in Nat
                /\ l[Replay(l)[k]].key = k
                /\ ~ IsTombstone(l[Replay(l)[k]])
  <2>1. CASE \E p \in LastOf(l, k) : ~ IsTombstone(l[p])
    <3>1. PICK p \in LastOf(l, k) : ~ IsTombstone(l[p])
      BY <2>1
    <3>2. (CHOOSE q \in LastOf(l, k) : TRUE) = p
      BY <3>1, LastIsUnique
    <3>3. Replay(l)[k] = p
      BY <2>1, <3>2 DEF Replay
    <3> QED BY <3>1, <3>3 DEF LastOf
  <2>2. CASE ~ \E p \in LastOf(l, k) : ~ IsTombstone(l[p])
    BY <2>2 DEF Replay
  <2> QED BY <2>1, <2>2
<1>2. Replay(l) = [k \in Keys |-> Replay(l)[k]]
  BY DEF Replay
<1>3. Replay(l) \in Positions
  BY <1>1, <1>2 DEF Positions
<1> QED BY <1>1, <1>3 DEF Leads

-----------------------------------------------------------------------------
(***************************************************************************)
(* The steps of the process.                                               *)
(***************************************************************************)

\* The end of a process forgets the requests.
LEMMA ForgetsRequests ==
    ASSUME request' = [c \in Clients |-> NoRequest]
    PROVE  RequestInv'
<1>1. NoRequest \in Request
  BY DEF NoRequest, Request, Verbs, Statuses
<1>2. \A c \in Clients : request'[c] = NoRequest
  OBVIOUS
<1>3. NoRequest.at = "idle"
  BY DEF NoRequest
<1> QED BY <1>1, <1>2, <1>3 DEF RequestInv

LEMMA DieInv == IInv /\ Die => IInv'
<1> SUFFICES ASSUME IInv, Die PROVE IInv'
  OBVIOUS
<1>1. RequestInv'
  BY ForgetsRequests DEF Die
<1>2. ProcessInv'
  BY DEF Die, IInv, ProcessInv, Phases, Open
<1>3. LogInv' /\ IndexInv'
  BY DEF Die, store, IInv, LogInv, IndexInv
<1> QED BY <1>1, <1>2, <1>3 DEF IInv

\* No request is known of before the process listens.
LEMMA IdleBefore ==
    ASSUME RequestInv, phase \notin Open, UNCHANGED request
    PROVE  RequestInv'
BY DEF RequestInv

LEMMA ProcessStepInv == IInv /\ Process => IInv'
<1> SUFFICES ASSUME IInv, Process PROVE IInv'
  OBVIOUS
<1>1. CASE Launch
  <2>1. ProcessInv'
    BY <1>1, PlainIsTransformer, ServerAssumption
    DEF Launch, AtOpen, IInv, ProcessInv, Phases, Open
  <2>2. LogInv' /\ IndexInv'
    BY <1>1 DEF Launch, store, IInv, LogInv, IndexInv
  <2>3. RequestInv'
    BY <1>1, IdleBefore DEF Launch, IInv, Open
  <2> QED BY <2>1, <2>2, <2>3 DEF IInv
<1>2. CASE OpenFS
  <2>1. ProcessInv'
    BY <1>2 DEF OpenFS, IInv, ProcessInv, Phases, Open
  <2>2. LogInv'
    BY <1>2 DEF OpenFS, IInv, LogInv
  <2>3. index' \in Positions /\ Leads(log, index')
    BY <1>2, ReplayLeads DEF OpenFS, IInv, IndexInv, LogInv
  <2>4. IndexInv'
    BY <1>2, <2>3 DEF OpenFS, IInv, IndexInv
  <2>5. RequestInv'
    BY <1>2, IdleBefore DEF OpenFS, IInv, Open
  <2> QED BY <2>1, <2>2, <2>4, <2>5 DEF IInv
<1>3. CASE Configure
  <2>1. ProcessInv'
    BY <1>3 DEF Configure, AsConfigured, IInv, ProcessInv, Phases, Open
  <2>2. LogInv' /\ IndexInv'
    BY <1>3 DEF Configure, store, IInv, LogInv, IndexInv
  <2>3. RequestInv'
    BY <1>3, IdleBefore DEF Configure, IInv, Open
  <2> QED BY <2>1, <2>2, <2>3 DEF IInv
<1>4. CASE Startup \/ Notify \/ Signal
  <2>1. /\ phase' \in Open
        /\ phase \in {"configured"} \cup Open
        /\ UNCHANGED <<config, transformer, log, index, indexFile, request>>
    BY <1>4 DEF Startup, Notify, Signal, store, Open
  <2>2. ProcessInv'
    BY <2>1 DEF IInv, ProcessInv, Phases, Open
  <2>3. LogInv' /\ IndexInv'
    BY <2>1 DEF IInv, LogInv, IndexInv
  <2>4. RequestInv'
    BY <2>1 DEF IInv, RequestInv
  <2> QED BY <2>2, <2>3, <2>4 DEF IInv
<1>5. CASE CloseFS
  <2>1. ProcessInv'
    BY <1>5 DEF CloseFS, IInv, ProcessInv, Phases, Open
  <2>2. LogInv' /\ IndexInv'
    BY <1>5 DEF CloseFS, ExportIndex, IInv, LogInv, IndexInv
  <2>3. RequestInv'
    BY <1>5, ForgetsRequests DEF CloseFS
  <2> QED BY <2>1, <2>2, <2>3 DEF IInv
<1>6. CASE SignalEarly \/ StartupFails \/ CollectorPanics \/ Crash
  BY <1>6, DieInv DEF SignalEarly, StartupFails, CollectorPanics, Crash
<1> QED BY <1>1, <1>2, <1>3, <1>4, <1>5, <1>6 DEF Process

-----------------------------------------------------------------------------
(***************************************************************************)
(* The steps of the requests.                                              *)
(***************************************************************************)

\* One request goes on, and the log is as it was.
LEMMA OneRequest ==
    ASSUME RequestInv, NEW c \in Clients, NEW r \in Request,
           request' = [request EXCEPT ![c] = r],
           UNCHANGED <<phase, config, log>>, phase \in Open,
           r.at = "received" => Sensible(r),
           r.at \in {"called", "done"} => Truthful(log, config, r)
    PROVE  RequestInv'
BY DEF RequestInv

\* The controller has its answer, and the log may have grown by a record.
Answering(r, status, pos, data) ==
    [r EXCEPT !.at = "called", !.status = status, !.pos = pos, !.data = data]

LEMMA CalledAnswers ==
    ASSUME request \in [Clients -> Request], NEW c \in Clients,
           NEW status \in Statuses, NEW pos \in Nat, NEW data \in Data \cup {Zero},
           Called(c, status, pos, data)
    PROVE  LET r == Answering(request[c], status, pos, data)
           IN  /\ r \in Request
               /\ request' = [request EXCEPT ![c] = r]
               /\ r.at = "called" /\ r.status = status /\ r.pos = pos /\ r.data = data
               /\ r.verb = request[c].verb /\ r.kind = request[c].kind /\ r.key = request[c].key
<1>1. request[c] \in Request
  OBVIOUS
<1>2. Answering(request[c], status, pos, data) \in Request
  BY <1>1 DEF Answering, Request
<1>3. request' = [request EXCEPT ![c] = Answering(request[c], status, pos, data)]
  BY <1>1 DEF Called, Answering, Request
<1> QED BY <1>1, <1>2, <1>3 DEF Answering, Request

\* A reply leaves the process and the store as they are.
LEMMA ReplyInv ==
    ASSUME IInv, NEW c \in Clients, NEW r \in Request, Reply(c, r), phase \in Open,
           r.at = "received" => Sensible(r),
           r.at \in {"called", "done"} => Truthful(log, config, r)
    PROVE  IInv'
<1>1. RequestInv'
  BY OneRequest DEF Reply, store, IInv
<1>2. ProcessInv'
  BY DEF Reply, IInv, ProcessInv
<1>3. LogInv' /\ IndexInv'
  BY DEF Reply, store, IInv, LogInv, IndexInv
<1> QED BY <1>1, <1>2, <1>3 DEF IInv

LEMMA RefusedInv ==
    ASSUME IInv, NEW c \in Clients, Accepts(c),
           NEW status \in {"200", "400", "401", "404", "panic"}, Reply(c, Refused(status))
    PROVE  IInv'
<1> DEFINE r == Refused(status)
<1>1. r \in Request /\ r.at = "done" /\ r.pos = 0 /\ r.verb = "none" /\ r.status = status
  BY DEF Refused, NoRequest, Request, Verbs, Statuses
<1>2. Len(log) \in Nat
  BY DEF IInv, LogInv
<1> HIDE DEF r
<1>3. Truthful(log, config, r)
  BY <1>1, <1>2 DEF Truthful
<1>4. phase \in Open
  BY DEF Accepts, Open
<1>5. Reply(c, r)
  BY DEF r
<1> QED BY <1>1, <1>3, <1>4, <1>5, ReplyInv

LEMMA ReceiveInv ==
    ASSUME IInv, NEW c \in Clients, NEW kind, Receive(c, kind)
    PROVE  IInv'
<1>1. kind \in Kinds /\ Accepts(c)
  BY DEF Receive
<1>2. phase \in Open
  BY <1>1 DEF Accepts, Open
<1>3. ASSUME NEW verb \in {"get", "put", "delete"}, NEW k \in Keys, NEW d \in Data \cup {Zero},
             verb = "put" => d \in Data, Reply(c, Started(verb, kind, k, d))
      PROVE  IInv'
  <2> DEFINE r == Started(verb, kind, k, d)
  <2>1. r \in Request /\ r.at = "received" /\ Sensible(r)
    BY <1>1, <1>3 DEF Started, Request, Verbs, Statuses, Sensible
  <2> HIDE DEF r
  <2>2. Reply(c, r)
    BY <1>3 DEF r
  <2> QED BY <1>2, <2>1, <2>2, ReplyInv
<1>4. ASSUME Reply(c, Refused("400")) PROVE IInv'
  BY <1>1, <1>4, RefusedInv
<1> QED BY <1>3, <1>4 DEF Receive

LEMMA AnswerInv ==
    ASSUME IInv, NEW c \in Clients, Answer(c)
    PROVE  IInv'
<1>1. request[c] \in Request /\ request[c].at = "called"
  BY DEF IInv, RequestInv, Answer
<1>2. Truthful(log, config, request[c]) /\ phase \in Open
  BY <1>1 DEF IInv, RequestInv
<1>3. PICK s \in {request[c].status, "lost"} :
          Reply(c, [request[c] EXCEPT !.at = "done", !.status = s])
  BY DEF Answer
<1> DEFINE r == [request[c] EXCEPT !.at = "done", !.status = s]
<1>4. r \in Request /\ r.at = "done"
  BY <1>1 DEF Request, Statuses
<1>5. /\ r.pos = request[c].pos /\ r.verb = request[c].verb /\ r.key = request[c].key
      /\ r.kind = request[c].kind /\ r.data = request[c].data
      /\ r.status \in {request[c].status, "lost"}
  BY <1>1 DEF Request
<1> HIDE DEF r
<1>6. Truthful(log, config, r)
  BY <1>2, <1>5 DEF Truthful
<1>7. Reply(c, r)
  BY <1>3 DEF r
<1> QED BY <1>2, <1>4, <1>6, <1>7, ReplyInv

\* What a call that is going on is known to be.
LEMMA OnCall ==
    ASSUME IInv, NEW c \in Clients, request[c].at = "received"
    PROVE  /\ request \in [Clients -> Request] /\ request[c] \in Request
           /\ Sensible(request[c]) /\ phase \in Open
           /\ transformer = config /\ config \in Transformer
           /\ log \in Seq(LogRecord) /\ Len(log) \in Nat /\ DOMAIN log = 1 .. Len(log)
           /\ index \in Positions /\ Leads(log, index)
<1>1. log \in Seq(LogRecord) /\ index \in Positions /\ Leads(log, index)
  BY DEF IInv, LogInv, IndexInv
<1>2. request \in [Clients -> Request] /\ request[c] \in Request
  BY DEF IInv, RequestInv
<1>3. Sensible(request[c]) /\ phase \in Open
  BY DEF IInv, RequestInv
<1>4. transformer = config /\ config \in Transformer
  BY <1>3 DEF IInv, ProcessInv, Open
<1> QED BY <1>1, <1>2, <1>3, <1>4

\* A call that leaves the store as it is.
LEMMA CalledInv ==
    ASSUME IInv, NEW c \in Clients, request[c].at = "received",
           NEW status \in Statuses, NEW pos \in Nat, NEW data \in Data \cup {Zero},
           Called(c, status, pos, data),
           UNCHANGED <<phase, config, transformer, store>>,
           Truthful(log, config, Answering(request[c], status, pos, data))
    PROVE  IInv'
<1> DEFINE r == Answering(request[c], status, pos, data)
<1>1. request \in [Clients -> Request] /\ phase \in Open
  BY OnCall
<1>2. r \in Request /\ request' = [request EXCEPT ![c] = r] /\ r.at = "called"
  BY <1>1, CalledAnswers
<1> HIDE DEF r
<1>3. Truthful(log, config, r)
  BY DEF r
<1>4. Reply(c, r)
  BY <1>2 DEF Reply
<1> QED BY <1>1, <1>2, <1>3, <1>4, ReplyInv

\* A get is answered as the entry of its key has it: not found without one, with
\* what the record was made of or not at all, and with it if the configuration is
\* that of the record and the type fits.
LEMMA GetAnswers ==
    ASSUME IInv, NEW c \in Clients, Get(c)
    PROVE  LET r == request[c]
               p == index[r.key]
           IN  \E status \in {"200", "404", "500", "panic"}, data \in Data \cup {Zero} :
                  /\ Called(c, status, p, data)
                  /\ p = 0 => status = "404"
                  /\ status = "200" => log[p].kind = r.kind /\ log[p].data = data
                  /\ p # 0 /\ log[p].value = Encode(config, Bson(log[p].data)) =>
                        status = (IF log[p].kind = r.kind THEN "200" ELSE "500")
<1> DEFINE r == request[c]
<1> DEFINE p == index[r.key]
<1> DEFINE d == log[p].data
<1>1. /\ r.key \in Keys /\ transformer = config /\ config \in Transformer
      /\ p # 0 => p \in DOMAIN log /\ ~ IsTombstone(log[p])
  BY OnCall DEF Get, Sensible, Leads
<1>2. CASE p = 0
  <2>1. Called(c, "404", 0, Zero)
    BY <1>2 DEF Get
  <2> QED BY <1>2, <2>1
<1>3. CASE p # 0
  <2>1. d \in Data /\ \E t \in Transformer : log[p].value = Encode(t, Bson(d))
    BY <1>1, <1>3 DEF IInv, LogInv, WellFormed
  <2>2. PICK t \in Transformer : log[p].value = Encode(t, Bson(d))
    BY <2>1
  <2>3. PICK v \in Decode(config, log[p].value) :
          LET typed == Convert(r.kind, log[p].kind, v)
          IN  \/ v = Panic  /\ Called(c, "panic", p, Zero)
              \/ v = Broken /\ Called(c, "404", p, Zero)
              \/ v \notin {Panic, Broken} /\ typed = Broken /\ Called(c, "500", p, Zero)
              \/ typed # Broken /\ Called(c, "200", p, typed[2])
    BY <1>1, <1>3 DEF Get
  <2>4. v[1] = "bson" => v = Bson(d)
    BY <1>1, <2>2, <2>3, DecodedIsEncoded
  <2>5. log[p].value = Encode(config, Bson(d)) => v = Bson(d)
    BY <1>1, <2>3, DecodeInvertsEncode
  <2>6. Bson(d) \notin {Panic, Broken} /\ Bson(d)[1] = "bson" /\ Bson(d)[2] = d
    BY DEF Bson, Panic, Broken
  <2> HIDE DEF d, p, r
  <2>7. CASE v = Panic /\ Called(c, "panic", p, Zero)
    BY <1>3, <2>5, <2>6, <2>7 DEF d, p, r
  <2>8. CASE v = Broken /\ Called(c, "404", p, Zero)
    BY <1>3, <2>5, <2>6, <2>8 DEF d, p, r
  <2>9. CASE Convert(r.kind, log[p].kind, v) = Broken /\ Called(c, "500", p, Zero)
    <3>1. v = Bson(d) => r.kind # log[p].kind
      BY <2>6, <2>9 DEF Convert
    <3> QED BY <1>3, <2>5, <2>9, <3>1 DEF d, p, r
  <2>10. CASE /\ Convert(r.kind, log[p].kind, v) # Broken
              /\ Called(c, "200", p, Convert(r.kind, log[p].kind, v)[2])
    <3>1. r.kind = log[p].kind /\ v = Bson(d) /\ Convert(r.kind, log[p].kind, v) = Bson(d)
      BY <2>4, <2>10 DEF Convert
    <3>2. Called(c, "200", p, d)
      BY <2>6, <2>10, <3>1
    <3> QED BY <1>3, <2>1, <3>1, <3>2 DEF d, p, r
  <2> QED BY <2>3, <2>7, <2>8, <2>9, <2>10
<1> QED BY <1>2, <1>3

LEMMA GetInv ==
    ASSUME IInv, NEW c \in Clients, Get(c)
    PROVE  IInv'
<1> DEFINE r == request[c]
<1> DEFINE p == index[r.key]
<1>1. PICK status \in {"200", "404", "500", "panic"}, data \in Data \cup {Zero} :
          /\ Called(c, status, p, data)
          /\ p = 0 => status = "404"
          /\ status = "200" => log[p].kind = r.kind /\ log[p].data = data
          /\ p # 0 /\ log[p].value = Encode(config, Bson(log[p].data)) =>
                status = (IF log[p].kind = r.kind THEN "200" ELSE "500")
  BY GetAnswers
<1>2. r.at = "received" /\ r.verb = "get" /\ UNCHANGED <<phase, config, transformer, store>>
  BY DEF Get
<1>3. /\ request \in [Clients -> Request] /\ Len(log) \in Nat
      /\ p \in Nat /\ p \in 0 .. Len(log)
      /\ p # 0 => log[p].key = r.key
  BY <1>2, OnCall DEF Sensible, Positions, Leads
<1>4. status \in Statuses
  BY DEF Statuses
<1> DEFINE a == Answering(r, status, p, data)
<1>5. /\ a.status = status /\ a.pos = p /\ a.data = data
      /\ a.verb = "get" /\ a.kind = r.kind /\ a.key = r.key
  BY <1>1, <1>2, <1>3, <1>4, CalledAnswers
<1> HIDE DEF a
<1>6. Truthful(log, config, a)
  BY <1>1, <1>3, <1>5 DEF Truthful
<1> QED BY <1>1, <1>2, <1>3, <1>4, <1>6, CalledInv DEF a

\* A call that appends a record and sets the entry of its key.
LEMMA WriteInv ==
    ASSUME IInv, NEW c \in Clients, request[c].at = "received",
           NEW rec \in LogRecord, WellFormed(rec), rec.key = request[c].key,
           log' = Append(log, rec),
           NEW entry \in {0, Len(log) + 1}, entry = 0 <=> IsTombstone(rec),
           index' = [index EXCEPT ![rec.key] = entry],
           NEW status \in {"201", "204", "500"}, NEW data \in Data \cup {Zero},
           Called(c, status, Len(log) + 1, data),
           request[c].verb # "get", IsTombstone(rec) <=> request[c].verb = "delete",
           UNCHANGED <<phase, config, transformer, indexFile>>
    PROVE  IInv'
<1> DEFINE pos == Len(log) + 1
<1> DEFINE r == Answering(request[c], status, pos, data)
<1>1. /\ request \in [Clients -> Request] /\ phase \in Open
      /\ log \in Seq(LogRecord) /\ Len(log) \in Nat /\ DOMAIN log = 1 .. Len(log)
      /\ index \in Positions /\ Leads(log, index)
  BY OnCall
<1>2. /\ log' \in Seq(LogRecord) /\ Len(log') = pos /\ DOMAIN log' = 1 .. pos
      /\ \A p \in 1 .. Len(log) : log'[p] = log[p]
      /\ log'[pos] = rec
  BY <1>1, Appended
<1>3. LogInv'
  <2> SUFFICES ASSUME NEW p \in 1 .. pos PROVE WellFormed(log'[p])
    BY <1>2 DEF LogInv
  <2>1. CASE p = pos
    BY <1>2, <2>1
  <2>2. CASE p # pos
    <3>1. p \in 1 .. Len(log)
      BY <1>1, <2>2
    <3> QED BY <1>1, <1>2, <3>1 DEF IInv, LogInv
  <2> QED BY <2>1, <2>2
<1>4. IndexInv'
  <2>1. Leads(log', index) /\ (indexFile # NoFile => Leads(log', indexFile))
    BY <1>1, LeadsGrows DEF IInv, IndexInv
  <2>2. index' \in Positions
    <3>1. entry \in Nat
      BY <1>1
    <3> QED BY <1>1, <3>1 DEF Positions
  <2>3. Leads(log', index')
    <3> SUFFICES ASSUME NEW k \in Keys, index'[k] # 0
                 PROVE  index'[k] \in DOMAIN log' /\ log'[index'[k]].key = k
                        /\ ~ IsTombstone(log'[index'[k]])
      BY DEF Leads
    <3>1. CASE k = rec.key
      BY <1>1, <1>2, <3>1 DEF Positions
    <3>2. CASE k # rec.key
      BY <1>1, <2>1, <3>2 DEF Positions, Leads
    <3> QED BY <3>1, <3>2
  <2> QED BY <2>1, <2>2, <2>3 DEF IInv, IndexInv
<1>5. ProcessInv'
  BY DEF IInv, ProcessInv
<1>6. /\ r \in Request /\ request' = [request EXCEPT ![c] = r]
      /\ r.at = "called" /\ r.status = status /\ r.pos = pos
      /\ r.verb = request[c].verb /\ r.key = request[c].key
  <2>1. status \in Statuses /\ pos \in Nat
    BY <1>1 DEF Statuses
  <2> QED BY <1>1, <2>1, CalledAnswers
<1> HIDE DEF r
<1>7. Truthful(log', config, r)
  BY <1>1, <1>2, <1>6 DEF Truthful
<1>8. RequestInv'
  <2>1. request' \in [Clients -> Request]
    BY <1>1, <1>6
  <2>2. ASSUME NEW b \in Clients, request'[b].at \in {"called", "done"}
        PROVE  Truthful(log', config', request'[b])
    <3>1. CASE b = c
      BY <1>1, <1>6, <1>7, <3>1
    <3>2. CASE b # c
      <4>1. request'[b] = request[b] /\ request[b] \in Request
        BY <1>1, <1>6, <3>2
      <4>2. Truthful(log, config, request[b])
        BY <2>2, <4>1 DEF IInv, RequestInv
      <4> QED BY <1>1, <4>1, <4>2, TruthfulGrows
    <3> QED BY <3>1, <3>2
  <2>3. ASSUME NEW b \in Clients
        PROVE  /\ request'[b].at # "idle" => phase' \in Open
               /\ request'[b].at = "received" => Sensible(request'[b])
    BY <1>1, <1>6 DEF IInv, RequestInv
  <2> QED BY <2>1, <2>2, <2>3 DEF RequestInv
<1> QED BY <1>3, <1>4, <1>5, <1>8 DEF IInv

\* A write that fails before its record is in the log.  A delete says 204 only
\* with its record there.
LEMMA FailedInv ==
    ASSUME IInv, NEW c \in Clients, request[c].at = "received", request[c].verb # "get",
           NEW data \in Data \cup {Zero}, Called(c, "500", 0, data),
           UNCHANGED <<phase, config, transformer, store>>
    PROVE  IInv'
<1> DEFINE r == Answering(request[c], "500", 0, data)
<1>1. request \in [Clients -> Request] /\ Len(log) \in Nat
  BY OnCall
<1>2. "500" \in Statuses
  BY DEF Statuses
<1>3. r.status = "500" /\ r.pos = 0 /\ r.verb # "get"
  BY <1>1, <1>2, CalledAnswers
<1> HIDE DEF r
<1>4. Truthful(log, config, r)
  BY <1>1, <1>3 DEF Truthful
<1> QED BY <1>2, <1>4, CalledInv DEF r

\* What a put writes.
PutRecord(r) == Record(r.key, r.kind, r.data, Encode(transformer, Bson(r.data)))

\* What a delete writes.
DeleteRecord(r) == Record(r.key, "unknown", Zero, Empty)

LEMMA PutRecordIsGood ==
    ASSUME IInv, NEW c \in Clients, request[c].at = "received", request[c].verb = "put"
    PROVE  LET rec == PutRecord(request[c])
           IN  /\ rec \in LogRecord /\ WellFormed(rec) /\ ~ IsTombstone(rec)
               /\ rec.key = request[c].key /\ rec.kind = request[c].kind
               /\ rec.data = request[c].data
<1> DEFINE r == request[c]
<1>1. r.key \in Keys /\ r.kind \in Kinds /\ r.data \in Data /\ transformer \in Transformer
  BY OnCall DEF Sensible
<1>2. Encode(transformer, Bson(r.data)) \in Bytes
  BY <1>1 DEF Bytes
<1>3. "unknown" \notin Kinds
  BY ServerAssumption
<1> QED BY <1>1, <1>2, <1>3 DEF PutRecord, Record, LogRecord, WellFormed, IsTombstone

LEMMA DeleteRecordIsGood ==
    ASSUME IInv, NEW c \in Clients, request[c].at = "received"
    PROVE  LET rec == DeleteRecord(request[c])
           IN  /\ rec \in LogRecord /\ WellFormed(rec) /\ IsTombstone(rec)
               /\ rec.key = request[c].key
<1>1. request[c].key \in Keys
  BY OnCall DEF Sensible
<1> QED BY <1>1 DEF DeleteRecord, Record, LogRecord, WellFormed, IsTombstone, Bytes

LEMMA PutInv ==
    ASSUME IInv, NEW c \in Clients, Put(c)
    PROVE  IInv'
<1> DEFINE r == request[c]
<1>1. r.at = "received" /\ r.verb = "put" /\ r.data \in Data
  BY OnCall DEF Put, Sensible
<1>2. \/ /\ log' = Append(log, PutRecord(r))
         /\ index' = [index EXCEPT ![r.key] = Len(log) + 1]
         /\ Called(c, "201", Len(log) + 1, r.data)
      \/ Called(c, "500", 0, r.data) /\ UNCHANGED <<log, index>>
  BY DEF Put, PutRecord
<1>3. UNCHANGED <<phase, config, transformer, indexFile>>
  BY DEF Put
<1>4. Len(log) + 1 # 0
  BY <1>1, OnCall
<1>5. CASE Called(c, "500", 0, r.data) /\ UNCHANGED <<log, index>>
  BY <1>1, <1>3, <1>5, FailedInv DEF store
<1>6. CASE log' = Append(log, PutRecord(r))
  <2> DEFINE rec == PutRecord(r)
  <2>1. rec \in LogRecord /\ WellFormed(rec) /\ ~ IsTombstone(rec) /\ rec.key = r.key
    BY <1>1, PutRecordIsGood
  <2> HIDE DEF rec
  <2>2. log' = Append(log, rec)
    BY <1>6 DEF rec
  <2>3. CASE /\ index' = [index EXCEPT ![r.key] = Len(log) + 1]
             /\ Called(c, "201", Len(log) + 1, r.data)
    BY <1>1, <1>3, <1>4, <2>1, <2>2, <2>3, WriteInv
  <2> QED BY <1>2, <1>5, <2>3
<1> QED BY <1>2, <1>5, <1>6

LEMMA DeleteInv ==
    ASSUME IInv, NEW c \in Clients, Delete(c)
    PROVE  IInv'
<1> DEFINE r == request[c]
<1>1. r.at = "received" /\ r.verb = "delete"
  BY DEF Delete
<1>2. \/ /\ log' = Append(log, DeleteRecord(r))
         /\ index' = [index EXCEPT ![r.key] = 0]
         /\ Called(c, "204", Len(log) + 1, Zero)
      \/ Called(c, "500", 0, Zero) /\ UNCHANGED <<log, index>>
  BY DEF Delete, DeleteRecord, FirstStatus
<1>3. UNCHANGED <<phase, config, transformer, indexFile>>
  BY DEF Delete
<1>4. CASE Called(c, "500", 0, Zero) /\ UNCHANGED <<log, index>>
  BY <1>1, <1>3, <1>4, FailedInv DEF store
<1>5. CASE /\ log' = Append(log, DeleteRecord(r))
           /\ index' = [index EXCEPT ![r.key] = 0]
           /\ Called(c, "204", Len(log) + 1, Zero)
  <2> DEFINE rec == DeleteRecord(r)
  <2>1. rec \in LogRecord /\ WellFormed(rec) /\ IsTombstone(rec) /\ rec.key = r.key
    BY <1>1, DeleteRecordIsGood
  <2> HIDE DEF rec
  <2>2. log' = Append(log, rec)
    BY <1>5 DEF rec
  <2> QED BY <1>1, <1>3, <1>5, <2>1, <2>2, WriteInv
<1> QED BY <1>2, <1>4, <1>5

LEMMA RequestStepInv ==
    ASSUME IInv, NEW c \in Clients,
           \/ Unauthorized(c) \/ UnknownRoute(c) \/ Health(c) \/ Routes(c) \/ Handle(c)
    PROVE  IInv'
<1>1. CASE Unauthorized(c) \/ UnknownRoute(c) \/ Health(c)
  BY <1>1, RefusedInv DEF Unauthorized, UnknownRoute, Health
<1>2. CASE Routes(c)
  BY <1>2, ReceiveInv
  DEF Routes, ListRequest, TableRequest, ZsetRequest, TextRequest, NumberRequest, SetRequest
<1>3. CASE Handle(c)
  BY <1>3, GetInv, PutInv, DeleteInv, AnswerInv DEF Handle
<1> QED BY <1>1, <1>2, <1>3

LEMMA StutterInv == IInv /\ UNCHANGED vars => IInv'
<1> SUFFICES ASSUME IInv, UNCHANGED vars PROVE IInv'
  OBVIOUS
<1>1. ProcessInv'
  BY DEF vars, store, IInv, ProcessInv
<1>2. LogInv' /\ IndexInv'
  BY DEF vars, store, IInv, LogInv, IndexInv
<1>3. RequestInv'
  BY DEF vars, store, IInv, RequestInv
<1> QED BY <1>1, <1>2, <1>3 DEF IInv

LEMMA NextInv == IInv /\ [Next]_vars => IInv'
<1> SUFFICES ASSUME IInv, [Next]_vars PROVE IInv'
  OBVIOUS
<1>1. CASE Process
  BY <1>1, ProcessStepInv
<1>2. CASE \E c \in Clients :
              \/ Unauthorized(c) \/ UnknownRoute(c) \/ Health(c) \/ Routes(c) \/ Handle(c)
  BY <1>2, RequestStepInv
<1>3. CASE UNCHANGED vars
  BY <1>3, StutterInv
<1> QED BY <1>1, <1>2, <1>3 DEF Next

LEMMA SpecInv == Spec => []IInv
BY InitInv, NextInv, PTL DEF Spec

-----------------------------------------------------------------------------
(***************************************************************************)
(* The safety properties.                                                  *)
(***************************************************************************)

\* Every variable has its type and every entry leads to a record of its key, in
\* every process and under every change of configuration (runServer, Put, Delete).
THEOREM TypeCorrect == Spec => []TypeOK
<1>1. IInv => TypeOK
  <2> SUFFICES ASSUME IInv PROVE TypeOK
    OBVIOUS
  <2>1. \A p \in DOMAIN log : log[p].key \in Keys
    <3>1. \A p \in DOMAIN log : log[p] \in LogRecord
      BY DEF IInv, LogInv
    <3> QED BY <3>1 DEF LogRecord
  <2>2. \A c \in Clients : request[c].at \in {"idle", "received", "called", "done"}
    BY DEF IInv, RequestInv, Request
  <2>3. InFlight # {} => phase \in Open
    BY DEF IInv, RequestInv, InFlight
  <2> QED BY <2>1, <2>2, <2>3
          DEF TypeOK, IInv, ProcessInv, IndexInv, Leads, Phases, Open
<1> QED BY <1>1, SpecInv, PTL

\* The answers of the controllers say what became of a write.
THEOREM AnswersAreHonest == Spec => []HonestAnswers
<1>1. IInv => HonestAnswers
  <2> SUFFICES ASSUME IInv, NEW c \in Clients, request[c].at = "done"
               PROVE  LET r == request[c]
                      IN  /\ r.status \in {"201", "204"} =>
                                /\ r.pos \in DOMAIN log
                                /\ log[r.pos].key = r.key
                                /\ IsTombstone(log[r.pos]) <=> r.verb = "delete"
                          /\ r.status \in {"400", "401"} => r.pos = 0
    BY DEF HonestAnswers
  <2>1. Truthful(log, config, request[c]) /\ DOMAIN log = 1 .. Len(log) /\ Len(log) \in Nat
    BY DEF IInv, RequestInv, LogInv
  <2> QED BY <2>1 DEF Truthful
<1> QED BY <1>1, SpecInv, PTL

\* A get hands out what was put under its key, for any change of compression,
\* encryption and key from one process to the next (Transformer.Decode).
THEOREM ReadsAreAsWritten == Spec => []ReadsAsWritten
<1>1. IInv => ReadsAsWritten
  <2> SUFFICES ASSUME IInv, NEW c \in Clients, request[c].at = "done",
                      request[c].verb = "get", request[c].status = "200"
               PROVE  LET r == request[c]
                      IN  /\ r.pos \in DOMAIN log
                          /\ log[r.pos].key = r.key /\ log[r.pos].kind = r.kind
                          /\ log[r.pos].data = r.data
    BY DEF ReadsAsWritten
  <2>1. Truthful(log, config, request[c]) /\ DOMAIN log = 1 .. Len(log) /\ Len(log) \in Nat
    BY DEF IInv, RequestInv, LogInv
  <2> QED BY <2>1 DEF Truthful
<1> QED BY <1>1, SpecInv, PTL

\* What the present configuration encoded can be read under it.
THEOREM OwnRecordsAreRead == Spec => []SameConfigReads
<1>1. IInv => SameConfigReads
  BY DEF IInv, RequestInv, Truthful, SameConfigReads
<1> QED BY <1>1, SpecInv, PTL

-----------------------------------------------------------------------------
(***************************************************************************)
(* The refinement.  A process that ends by CloseFS leaves an index file,   *)
(* and one that ends otherwise leaves the file of an earlier one.  When    *)
(* only one of the two happens, the index of the last process is the index *)
(* of the next.                                                            *)
(***************************************************************************)

EndsOneWay == Ends \subseteq {"signal"} \/ "signal" \notin Ends

\* Without an index file the index is what a scan finds; what a process leaves
\* behind, if it is a file, is the index; and without signals it is none.
Kept ==
    /\ indexFile = NoFile => index = Replay(log)
    /\ phase \in {"down", "launched"} /\ indexFile # NoFile => indexFile = index
    /\ "signal" \notin Ends => phase # "draining" /\ indexFile = NoFile

\* The last record of a key is the new one, if it is of the key.
LEMMA LastAppended ==
    ASSUME NEW l \in Seq(LogRecord), NEW rec \in LogRecord, NEW k \in Keys
    PROVE  LastOf(Append(l, rec), k) =
              IF k = rec.key THEN {Len(l) + 1} ELSE LastOf(l, k)
<1> DEFINE m == Append(l, rec)
<1>1. /\ Len(l) \in Nat /\ DOMAIN l = 1 .. Len(l) /\ DOMAIN m = 1 .. (Len(l) + 1)
      /\ m[Len(l) + 1] = rec
      /\ \A p \in 1 .. Len(l) : m[p] = l[p]
  BY Appended
<1> HIDE DEF m
<1>2. CASE k = rec.key
  <2>1. \A p \in LastOf(m, k) : p = Len(l) + 1
    BY <1>1, <1>2 DEF LastOf
  <2>2. Len(l) + 1 \in LastOf(m, k)
    BY <1>1, <1>2 DEF LastOf
  <2>3. LastOf(m, k) = {Len(l) + 1}
    BY <2>1, <2>2
  <2> QED BY <1>2, <2>3 DEF m
<1>3. CASE k # rec.key
  <2>1. \A p \in DOMAIN m : m[p].key = k <=> p \in DOMAIN l /\ l[p].key = k
    BY <1>1, <1>3
  <2>2. \A p : p \in LastOf(m, k) <=> p \in LastOf(l, k)
    BY <1>1, <2>1 DEF LastOf
  <2>3. LastOf(m, k) = LastOf(l, k)
    BY <2>2
  <2> QED BY <1>3, <2>3 DEF m
<1> QED BY <1>2, <1>3

\* A scan after a write finds what the write set.
LEMMA ReplayAppended ==
    ASSUME NEW l \in Seq(LogRecord), NEW rec \in LogRecord
    PROVE  Replay(Append(l, rec)) =
              [Replay(l) EXCEPT ![rec.key] = IF IsTombstone(rec) THEN 0 ELSE Len(l) + 1]
<1> DEFINE m == Append(l, rec)
<1>1. /\ Len(l) \in Nat /\ DOMAIN l = 1 .. Len(l)
      /\ m[Len(l) + 1] = rec
      /\ \A p \in 1 .. Len(l) : m[p] = l[p]
  BY Appended
<1>2. \A k \in Keys :
         LastOf(m, k) = IF k = rec.key THEN {Len(l) + 1} ELSE LastOf(l, k)
  BY LastAppended
<1> HIDE DEF m
<1>3. ASSUME NEW k \in Keys
      PROVE  Replay(m)[k] = IF k = rec.key THEN (IF IsTombstone(rec) THEN 0 ELSE Len(l) + 1)
                            ELSE Replay(l)[k]
  <2>1. CASE k = rec.key
    <3>1. LastOf(m, k) = {Len(l) + 1}
      BY <1>2, <2>1
    <3>2. (CHOOSE p \in LastOf(m, k) : TRUE) = Len(l) + 1
      BY <3>1
    <3> QED BY <1>1, <2>1, <3>1, <3>2 DEF Replay
  <2>2. CASE k # rec.key
    <3>1. LastOf(m, k) = LastOf(l, k)
      BY <1>2, <2>2
    <3>2. \A p \in LastOf(l, k) : m[p] = l[p]
      BY <1>1 DEF LastOf
    <3> QED BY <2>2, <3>1, <3>2 DEF Replay
  <2> QED BY <2>1, <2>2
<1>4. Replay(m) = [k \in Keys |-> Replay(m)[k]] /\ Replay(l) = [k \in Keys |-> Replay(l)[k]]
  BY DEF Replay
<1>5. Replay(m) = [Replay(l) EXCEPT ![rec.key] = IF IsTombstone(rec) THEN 0 ELSE Len(l) + 1]
  BY <1>3, <1>4
<1> QED BY <1>5 DEF m

\* Every write of a record sets its entry as a scan would.
LEMMA WritesAsScanned ==
    ASSUME IInv, NEW c \in Clients, Handle(c)
    PROVE  \/ UNCHANGED <<log, index>>
           \/ \E rec \in LogRecord :
                 LET entry == IF IsTombstone(rec) THEN 0 ELSE Len(log) + 1
                 IN  /\ log' = Append(log, rec)
                     /\ index' = [index EXCEPT ![rec.key] = entry]
<1>1. CASE Get(c)
  BY <1>1 DEF Get, store
<1>2. CASE Answer(c)
  BY <1>2 DEF Answer, Reply, store
<1>3. CASE Put(c)
  <2> DEFINE rec == PutRecord(request[c])
  <2>1. rec \in LogRecord /\ ~ IsTombstone(rec) /\ rec.key = request[c].key
    BY <1>3, PutRecordIsGood DEF Put
  <2>2. \/ log' = Append(log, rec) /\ index' = [index EXCEPT ![request[c].key] = Len(log) + 1]
        \/ UNCHANGED <<log, index>>
    BY <1>3 DEF Put, PutRecord
  <2> HIDE DEF rec
  <2> QED BY <2>1, <2>2
<1>4. CASE Delete(c)
  <2> DEFINE rec == DeleteRecord(request[c])
  <2>1. rec \in LogRecord /\ IsTombstone(rec) /\ rec.key = request[c].key
    BY <1>4, DeleteRecordIsGood DEF Delete
  <2>2. \/ log' = Append(log, rec) /\ index' = [index EXCEPT ![request[c].key] = 0]
        \/ UNCHANGED <<log, index>>
    BY <1>4 DEF Delete, DeleteRecord
  <2> HIDE DEF rec
  <2> QED BY <2>1, <2>2
<1> QED BY <1>1, <1>2, <1>3, <1>4 DEF Handle

\* Requests leave the process as it is, and what they do not handle the store.
LEMMA RequestFrame ==
    ASSUME IInv, NEW c \in Clients,
           \/ Unauthorized(c) \/ UnknownRoute(c) \/ Health(c) \/ Routes(c) \/ Handle(c)
    PROVE  /\ UNCHANGED <<phase, indexFile>> /\ phase \in Open
           /\ UNCHANGED store \/ Handle(c)
<1>1. CASE Unauthorized(c) \/ UnknownRoute(c) \/ Health(c)
  BY <1>1 DEF Unauthorized, UnknownRoute, Health, Accepts, Reply, store, Open
<1>2. CASE Routes(c)
  BY <1>2
  DEF Routes, ListRequest, TableRequest, ZsetRequest, TextRequest, NumberRequest, SetRequest,
      Receive, Accepts, Reply, store, Open
<1>3. CASE Handle(c)
  <2>1. request[c].at # "idle"
    BY <1>3 DEF Handle, Get, Put, Delete, Answer
  <2>2. phase \in Open
    BY <2>1 DEF IInv, RequestInv
  <2>3. UNCHANGED <<phase, indexFile>>
    BY <1>3 DEF Handle, Get, Put, Delete, Answer, Reply, store
  <2> QED BY <1>3, <2>2, <2>3
<1> QED BY <1>1, <1>2, <1>3

LEMMA InitKept == Init => Kept
<1> SUFFICES ASSUME Init PROVE Kept
  OBVIOUS
<1>1. \A k \in Keys : LastOf(log, k) = {}
  BY DEF Init, LastOf
<1>2. index = Replay(log)
  BY <1>1 DEF Init, Replay
<1> QED BY <1>2 DEF Init, Kept

LEMMA NextKept ==
    ASSUME EndsOneWay
    PROVE  IInv /\ Kept /\ [Next]_vars => Kept'
<1> SUFFICES ASSUME IInv, Kept, [Next]_vars PROVE Kept'
  OBVIOUS
<1>1. CASE Launch
  BY <1>1 DEF Launch, store, Kept
<1>2. CASE OpenFS
  BY <1>2 DEF OpenFS, Kept
<1>3. CASE Configure \/ Startup \/ Notify
  BY <1>3 DEF Configure, Startup, Notify, store, Kept
<1>4. CASE Signal
  BY <1>4 DEF Signal, store, Kept
<1>5. CASE CloseFS
  <2>1. index # NoFile
    BY ServerAssumption DEF IInv, IndexInv, Positions
  <2> QED BY <1>5, <2>1 DEF CloseFS, ExportIndex, Kept
<1>6. CASE SignalEarly \/ StartupFails \/ CollectorPanics \/ Crash
  <2>1. Die /\ "signal" \notin Ends
    BY <1>6 DEF SignalEarly, StartupFails, CollectorPanics, Crash, EndsOneWay
  <2> QED BY <2>1 DEF Die, store, Kept
<1>7. ASSUME NEW c \in Clients,
             \/ Unauthorized(c) \/ UnknownRoute(c) \/ Health(c) \/ Routes(c) \/ Handle(c)
      PROVE  Kept'
  <2>1. /\ UNCHANGED <<phase, indexFile>> /\ phase \notin {"down", "launched"}
        /\ UNCHANGED store \/ Handle(c)
    BY <1>7, RequestFrame DEF Open
  <2>2. CASE UNCHANGED store
    BY <2>1, <2>2 DEF store, Kept
  <2>3. CASE Handle(c)
    <3>1. CASE UNCHANGED <<log, index>>
      BY <2>1, <3>1 DEF Kept
    <3>2. ASSUME NEW rec \in LogRecord, log' = Append(log, rec),
                 index' = [index EXCEPT ![rec.key] = IF IsTombstone(rec) THEN 0 ELSE Len(log) + 1]
          PROVE  Kept'
      <4>1. log \in Seq(LogRecord)
        BY DEF IInv, LogInv
      <4>2. index = Replay(log) => index' = Replay(log')
        BY <3>2, <4>1, ReplayAppended
      <4> QED BY <2>1, <4>2 DEF Kept
    <3> QED BY <2>3, <3>1, <3>2, WritesAsScanned
  <2> QED BY <2>1, <2>2, <2>3
<1>8. CASE UNCHANGED vars
  BY <1>8 DEF vars, store, Kept
<1> QED BY <1>1, <1>2, <1>3, <1>4, <1>5, <1>6, <1>7, <1>8 DEF Next, Process

\* What the map is seen to be.
Served == [k \in Keys |-> ItemOf(ServedIndex[k])]

Calls == [c \in Clients |-> CallOf(request[c])]

LEMMA ServesIndex ==
    ASSUME Kept PROVE ServedIndex = index
BY DEF Kept, ServedIndex

\* The map stays with the index and the records it leads to.
LEMMA ServedKept ==
    ASSUME Kept, Kept', UNCHANGED <<log, index>>
    PROVE  Served' = Served
<1>1. ServedIndex = index
  BY ServesIndex
<1>2. ServedIndex' = index'
  BY DEF Kept, ServedIndex
<1> QED BY <1>1, <1>2 DEF Served, ItemOf

\* When one request goes on, one call does.
LEMMA OneCall ==
    ASSUME request \in [Clients -> Request], NEW c \in Clients, NEW r,
           request' = [request EXCEPT ![c] = r]
    PROVE  Calls' = [Calls EXCEPT ![c] = CallOf(r)]
<1>1. \A b \in Clients : request'[b] = IF b = c THEN r ELSE request[b]
  OBVIOUS
<1>2. \A b \in Clients : CallOf(request'[b]) = IF b = c THEN CallOf(r) ELSE CallOf(request[b])
  BY <1>1
<1>3. Calls' = [b \in Clients |-> CallOf(request'[b])]
  BY DEF Calls
<1> QED BY <1>2, <1>3 DEF Calls

Abstracted == <<Served, Calls>>

\* Processes start and end, and the map is as it was.
LEMMA MapProcess ==
    ASSUME IInv, Kept, Kept', Process
    PROVE  KVView!Stop \/ UNCHANGED Abstracted
<1>1. Served' = Served
  <2>1. UNCHANGED <<log, index>>
    BY DEF Process, Launch, OpenFS, Configure, Startup, Notify, Signal, CloseFS,
           SignalEarly, StartupFails, CollectorPanics, Crash, Die, store, Kept
  <2> QED BY <2>1, ServedKept
<1>2. CASE UNCHANGED request
  BY <1>1, <1>2 DEF Abstracted, Calls
<1>3. CASE request' = [c \in Clients |-> NoRequest]
  <2>1. CallOf(NoRequest) = KVView!Idle
    BY DEF CallOf, NoRequest, KVView!Idle
  <2>2. Calls' = [c \in Clients |-> KVView!Idle]
    BY <1>3, <2>1 DEF Calls
  <2> QED BY <1>1, <2>2 DEF KVView!Stop, Served, Calls
<1> QED BY <1>2, <1>3
        DEF Process, Launch, OpenFS, Configure, Startup, Notify, Signal, CloseFS,
            SignalEarly, StartupFails, CollectorPanics, Crash, Die

\* A reply of the front end is no call.
LEMMA MapRefused ==
    ASSUME IInv, Kept, Kept', NEW c \in Clients, Accepts(c), NEW status,
           Reply(c, Refused(status))
    PROVE  UNCHANGED Abstracted
<1>1. request \in [Clients -> Request] /\ request[c].at \notin {"received", "called"}
  BY DEF IInv, RequestInv, Accepts, InFlight
<1>2. CallOf(request[c]) = KVView!Idle /\ CallOf(Refused(status)) = KVView!Idle
  BY <1>1 DEF CallOf, Refused, NoRequest, KVView!Idle
<1>3. Calls' = [Calls EXCEPT ![c] = KVView!Idle]
  BY <1>1, <1>2, OneCall DEF Reply
<1>4. Calls' = Calls
  BY <1>2, <1>3 DEF Calls
<1>5. Served' = Served
  BY ServedKept DEF Reply, store
<1> QED BY <1>4, <1>5 DEF Abstracted

LEMMA MapReceive ==
    ASSUME IInv, Kept, Kept', NEW c \in Clients, NEW kind, Receive(c, kind)
    PROVE  KVView!Begin(c) \/ UNCHANGED Abstracted
<1>1. Accepts(c) /\ kind \in Kinds
  BY DEF Receive
<1>2. request \in [Clients -> Request] /\ Calls[c] = KVView!Idle
  BY <1>1 DEF IInv, RequestInv, Accepts, InFlight, Calls, CallOf, KVView!Idle
<1>3. CASE Reply(c, Refused("400"))
  BY <1>1, <1>3, MapRefused
<1>4. ASSUME NEW verb \in {"get", "put", "delete"}, NEW k \in Keys, NEW d,
             verb = "put" => d \in Data, Reply(c, Started(verb, kind, k, d))
      PROVE  KVView!Begin(c)
  <2> DEFINE v == IF verb = "put" THEN [kind |-> kind, data |-> d] ELSE NoItem
  <2>1. CallOf(Started(verb, kind, k, d)) = KVView!Pending(verb, k, v)
    BY DEF CallOf, Started, KVView!Pending
  <2>2. Calls' = [Calls EXCEPT ![c] = KVView!Pending(verb, k, v)]
    BY <1>2, <1>4, <2>1, OneCall DEF Reply
  <2>3. Served' = Served
    BY <1>4, ServedKept DEF Reply, store
  <2>4. verb = "put" => v \in [kind : Kinds, data : Data]
    BY <1>1, <1>4
  <2>5. verb # "put" => v = NoItem
    OBVIOUS
  <2> HIDE DEF v
  <2> QED BY <1>2, <2>2, <2>3, <2>4, <2>5
          DEF KVView!Begin, KVView!Becomes, Served, Calls
<1> QED BY <1>3, <1>4 DEF Receive

LEMMA MapAnswer ==
    ASSUME IInv, Kept, Kept', NEW c \in Clients, Answer(c)
    PROVE  KVView!End(c)
<1>1. PICK s : Reply(c, [request[c] EXCEPT !.at = "done", !.status = s])
  BY DEF Answer
<1>2. /\ request \in [Clients -> Request] /\ request[c] \in Request
      /\ request[c].at = "called"
  BY DEF Answer, IInv, RequestInv
<1>3. CallOf([request[c] EXCEPT !.at = "done", !.status = s]) = KVView!Idle
  BY <1>2 DEF CallOf, Request, KVView!Idle
<1>4. Calls' = [Calls EXCEPT ![c] = KVView!Idle]
  BY <1>1, <1>2, <1>3, OneCall DEF Reply
<1>5. Calls[c].at = "over"
  BY <1>2 DEF Calls, CallOf
<1>6. Served' = Served
  BY <1>1, ServedKept DEF Reply, store
<1> QED BY <1>4, <1>5, <1>6 DEF KVView!End, KVView!Becomes, Served, Calls

\* A call that gets its answer turns from pending to over.
LEMMA PendingCall ==
    ASSUME IInv, NEW c \in Clients, request[c].at = "received",
           NEW status \in Statuses, NEW pos \in Nat, NEW data \in Data \cup {Zero},
           Called(c, status, pos, data)
    PROVE  LET r == request[c]
               a == Answering(r, status, pos, data)
           IN  /\ Calls[c].at = "pending" /\ Calls[c].op = r.verb /\ Calls[c].inum = r.key
               /\ r.verb = "put" => Calls[c].value = [kind |-> r.kind, data |-> r.data]
               /\ Calls' = [Calls EXCEPT ![c] =
                     IF Succeeds(a) THEN KVView!Succeeded(ResultOf(a)) ELSE KVView!Failed]
<1> DEFINE r == request[c]
<1> DEFINE a == Answering(r, status, pos, data)
<1>1. request \in [Clients -> Request]
  BY OnCall
<1>2. a.at = "called" /\ request' = [request EXCEPT ![c] = a]
  BY <1>1, CalledAnswers
<1>3. /\ Calls[c].at = "pending" /\ Calls[c].op = r.verb /\ Calls[c].inum = r.key
      /\ r.verb = "put" => Calls[c].value = [kind |-> r.kind, data |-> r.data]
  BY DEF Calls, CallOf
<1> HIDE DEF a
<1>4. CallOf(a) = IF Succeeds(a) THEN KVView!Succeeded(ResultOf(a)) ELSE KVView!Failed
  BY <1>2 DEF CallOf, KVView!Succeeded, KVView!Failed
<1>5. Calls' = [Calls EXCEPT ![c] = CallOf(a)]
  BY <1>1, <1>2, OneCall
<1>6. Calls' = [Calls EXCEPT ![c] =
          IF Succeeds(a) THEN KVView!Succeeded(ResultOf(a)) ELSE KVView!Failed]
  BY <1>4, <1>5
<1> QED BY <1>3, <1>6 DEF a

LEMMA MapGet ==
    ASSUME IInv, Kept, Kept', NEW c \in Clients, Get(c)
    PROVE  KVView!GetNow(c) \/ KVView!Fail(c)
<1> DEFINE r == request[c]
<1> DEFINE p == index[r.key]
<1>1. PICK status \in {"200", "404", "500", "panic"}, data \in Data \cup {Zero} :
          /\ Called(c, status, p, data)
          /\ p = 0 => status = "404"
          /\ status = "200" => log[p].kind = r.kind /\ log[p].data = data
  BY GetAnswers
<1>2. r.at = "received" /\ r.verb = "get" /\ UNCHANGED <<log, index>>
  BY DEF Get, store
<1>3. request \in [Clients -> Request] /\ p \in Nat /\ r.key \in Keys
  BY <1>2, OnCall DEF Sensible, Positions
<1>4. status \in Statuses
  BY DEF Statuses
<1> DEFINE a == Answering(r, status, p, data)
<1>5. /\ a.status = status /\ a.pos = p /\ a.data = data
      /\ a.verb = "get" /\ a.kind = r.kind
  BY <1>1, <1>2, <1>3, <1>4, CalledAnswers
<1>6. /\ Calls[c].at = "pending" /\ Calls[c].op = "get" /\ Calls[c].inum = r.key
      /\ Calls' = [Calls EXCEPT ![c] =
            IF Succeeds(a) THEN KVView!Succeeded(ResultOf(a)) ELSE KVView!Failed]
  BY <1>1, <1>2, <1>3, <1>4, PendingCall
<1>7. Served' = Served
  BY <1>2, ServedKept
<1>8. Served[r.key] = ItemOf(p)
  BY <1>3, ServesIndex DEF Served
<1> HIDE DEF a, p
<1>9. CASE Succeeds(a)
  <2>1. ResultOf(a) = ItemOf(p)
    BY <1>1, <1>5, <1>9 DEF Succeeds, ResultOf, ItemOf, Content
  <2> QED BY <1>6, <1>7, <1>8, <1>9, <2>1
          DEF KVView!GetNow, KVView!Becomes, Served, Calls
<1>10. CASE ~ Succeeds(a)
  BY <1>6, <1>7, <1>10 DEF KVView!Fail, KVView!Becomes, Served, Calls
<1> QED BY <1>9, <1>10

\* A write that fails before its record is in the log leaves the map alone.
LEMMA MapFailed ==
    ASSUME IInv, Kept, Kept', NEW c \in Clients, request[c].at = "received",
           request[c].verb # "get", NEW data \in Data \cup {Zero},
           Called(c, "500", 0, data), UNCHANGED <<log, index>>
    PROVE  KVView!Fail(c)
<1> DEFINE a == Answering(request[c], "500", 0, data)
<1>1. request \in [Clients -> Request] /\ "500" \in Statuses
  BY OnCall DEF Statuses
<1>2. a.status = "500" /\ a.verb # "get"
  BY <1>1, CalledAnswers
<1>3. /\ Calls[c].at = "pending"
      /\ Calls' = [Calls EXCEPT ![c] =
            IF Succeeds(a) THEN KVView!Succeeded(ResultOf(a)) ELSE KVView!Failed]
  BY <1>1, PendingCall
<1> HIDE DEF a
<1>4. ~ Succeeds(a)
  BY <1>2 DEF Succeeds
<1>5. Served' = Served
  BY ServedKept
<1> QED BY <1>3, <1>4, <1>5 DEF KVView!Fail, KVView!Becomes, Served, Calls

\* What a write does to the map.
LEMMA MapWritten ==
    ASSUME IInv, Kept, Kept', NEW rec \in LogRecord, log' = Append(log, rec),
           index' = [index EXCEPT ![rec.key] = IF IsTombstone(rec) THEN 0 ELSE Len(log) + 1]
    PROVE  Served' = [Served EXCEPT ![rec.key] =
              IF IsTombstone(rec) THEN NoItem ELSE Content(rec.kind, rec.data)]
<1>1. /\ log \in Seq(LogRecord) /\ Len(log) \in Nat /\ DOMAIN log = 1 .. Len(log)
      /\ index \in [Keys -> Nat] /\ Leads(log, index)
  BY DEF IInv, LogInv, IndexInv, Positions
<1>2. /\ log'[Len(log) + 1] = rec
      /\ \A p \in 1 .. Len(log) : log'[p] = log[p]
  BY <1>1, Appended
<1>3. ServedIndex = index /\ ServedIndex' = index'
  BY DEF Kept, ServedIndex
<1>4. ASSUME NEW k \in Keys
      PROVE  ItemOf(index[k])' =
                IF k = rec.key THEN (IF IsTombstone(rec) THEN NoItem ELSE Content(rec.kind, rec.data))
                ELSE ItemOf(index[k])
  <2>1. CASE k = rec.key
    <3>1. index'[k] = IF IsTombstone(rec) THEN 0 ELSE Len(log) + 1
      BY <1>1, <2>1
    <3> QED BY <1>1, <1>2, <2>1, <3>1 DEF ItemOf
  <2>2. CASE k # rec.key
    <3>1. index'[k] = index[k] /\ (index[k] # 0 => index[k] \in DOMAIN log)
      BY <1>1, <2>2 DEF Leads
    <3> QED BY <1>1, <1>2, <2>2, <3>1 DEF ItemOf
  <2> QED BY <2>1, <2>2
<1> QED BY <1>3, <1>4 DEF Served

LEMMA MapPut ==
    ASSUME IInv, Kept, Kept', NEW c \in Clients, Put(c)
    PROVE  KVView!PutNow(c) \/ KVView!Fail(c)
<1> DEFINE r == request[c]
<1>1. /\ r.at = "received" /\ r.verb = "put" /\ r.data \in Data
      /\ request \in [Clients -> Request] /\ Len(log) + 1 \in Nat
  BY OnCall DEF Put, Sensible
<1>2. \/ /\ log' = Append(log, PutRecord(r))
         /\ index' = [index EXCEPT ![r.key] = Len(log) + 1]
         /\ Called(c, "201", Len(log) + 1, r.data)
      \/ Called(c, "500", 0, r.data) /\ UNCHANGED <<log, index>>
  BY DEF Put, PutRecord
<1>3. CASE Called(c, "500", 0, r.data) /\ UNCHANGED <<log, index>>
  BY <1>1, <1>3, MapFailed
<1>4. CASE /\ log' = Append(log, PutRecord(r))
           /\ index' = [index EXCEPT ![r.key] = Len(log) + 1]
           /\ Called(c, "201", Len(log) + 1, r.data)
  <2> DEFINE rec == PutRecord(r)
  <2> DEFINE a == Answering(r, "201", Len(log) + 1, r.data)
  <2>1. /\ rec \in LogRecord /\ ~ IsTombstone(rec) /\ rec.key = r.key
        /\ rec.kind = r.kind /\ rec.data = r.data
    BY <1>1, PutRecordIsGood
  <2>2. "201" \in Statuses
    BY DEF Statuses
  <2>3. a.verb = "put" /\ a.status = "201"
    BY <1>1, <1>4, <2>2, CalledAnswers
  <2>4. /\ Calls[c].at = "pending" /\ Calls[c].op = "put" /\ Calls[c].inum = r.key
        /\ Calls[c].value = [kind |-> r.kind, data |-> r.data]
        /\ Calls' = [Calls EXCEPT ![c] =
              IF Succeeds(a) THEN KVView!Succeeded(ResultOf(a)) ELSE KVView!Failed]
    BY <1>1, <1>4, <2>2, PendingCall
  <2>5. log' = Append(log, rec) /\ index' = [index EXCEPT ![r.key] = Len(log) + 1]
    BY <1>4
  <2> HIDE DEF rec, a
  <2>6. Served' = [Served EXCEPT ![r.key] = Content(r.kind, r.data)]
    BY <2>1, <2>5, MapWritten
  <2>7. ResultOf(a) = NoItem
    BY <2>3 DEF ResultOf
  <2>8. KVView!Map!Put(Calls[c].inum, Calls[c].value, 0)
    BY <2>4, <2>6 DEF KVView!Map!Put, Served, Content
  <2>9. Calls' = [Calls EXCEPT ![c] = KVView!Succeeded(NoItem)]
    BY <2>3, <2>4, <2>7 DEF Succeeds
  <2> QED BY <2>4, <2>8, <2>9 DEF KVView!PutNow, KVView!Becomes, Calls
<1> QED BY <1>2, <1>3, <1>4

LEMMA MapDelete ==
    ASSUME IInv, Kept, Kept', NEW c \in Clients, Delete(c)
    PROVE  KVView!DeleteNow(c) \/ KVView!Fail(c)
<1> DEFINE r == request[c]
<1>1. /\ r.at = "received" /\ r.verb = "delete"
      /\ request \in [Clients -> Request] /\ Len(log) + 1 \in Nat
  BY OnCall DEF Delete
<1>2. \/ /\ log' = Append(log, DeleteRecord(r))
         /\ index' = [index EXCEPT ![r.key] = 0]
         /\ Called(c, "204", Len(log) + 1, Zero)
      \/ Called(c, "500", 0, Zero) /\ UNCHANGED <<log, index>>
  BY DEF Delete, DeleteRecord, FirstStatus
<1>3. CASE Called(c, "500", 0, Zero) /\ UNCHANGED <<log, index>>
  BY <1>1, <1>3, MapFailed
<1>4. CASE /\ log' = Append(log, DeleteRecord(r))
           /\ index' = [index EXCEPT ![r.key] = 0]
           /\ Called(c, "204", Len(log) + 1, Zero)
  <2> DEFINE rec == DeleteRecord(r)
  <2> DEFINE a == Answering(r, "204", Len(log) + 1, Zero)
  <2>1. rec \in LogRecord /\ IsTombstone(rec) /\ rec.key = r.key
    BY <1>1, DeleteRecordIsGood
  <2>2. "204" \in Statuses
    BY DEF Statuses
  <2>3. a.verb = "delete" /\ a.status = "204"
    BY <1>1, <1>4, <2>2, CalledAnswers
  <2>4. /\ Calls[c].at = "pending" /\ Calls[c].op = "delete" /\ Calls[c].inum = r.key
        /\ Calls' = [Calls EXCEPT ![c] =
              IF Succeeds(a) THEN KVView!Succeeded(ResultOf(a)) ELSE KVView!Failed]
    BY <1>1, <1>4, <2>2, PendingCall
  <2>5. log' = Append(log, rec) /\ index' = [index EXCEPT ![r.key] = 0]
    BY <1>4
  <2> HIDE DEF rec, a
  <2>6. Served' = [Served EXCEPT ![r.key] = NoItem]
    BY <2>1, <2>5, MapWritten
  <2>7. Succeeds(a) /\ ResultOf(a) = NoItem
    BY <2>3 DEF Succeeds, ResultOf
  <2>8. KVView!Map!Delete(Calls[c].inum)
    BY <2>4, <2>6 DEF KVView!Map!Delete, Served
  <2>9. Calls' = [Calls EXCEPT ![c] = KVView!Succeeded(NoItem)]
    BY <2>4, <2>7
  <2> QED BY <2>4, <2>8, <2>9 DEF KVView!DeleteNow, KVView!Becomes, Calls
<1> QED BY <1>2, <1>3, <1>4

LEMMA NextMaps ==
    ASSUME EndsOneWay
    PROVE  IInv /\ Kept /\ IInv' /\ Kept' /\ [Next]_vars => [KVView!Next]_(KVView!vars)
<1> SUFFICES ASSUME IInv, Kept, Kept', [Next]_vars
             PROVE  KVView!Next \/ UNCHANGED Abstracted
  BY DEF KVView!vars, Abstracted, Served, Calls
<1>1. CASE Process
  BY <1>1, MapProcess DEF KVView!Next
<1>2. ASSUME NEW c \in Clients, Unauthorized(c) \/ UnknownRoute(c) \/ Health(c)
      PROVE  UNCHANGED Abstracted
  BY <1>2, MapRefused DEF Unauthorized, UnknownRoute, Health
<1>3. ASSUME NEW c \in Clients, Routes(c)
      PROVE  KVView!Begin(c) \/ UNCHANGED Abstracted
  BY <1>3, MapReceive
  DEF Routes, ListRequest, TableRequest, ZsetRequest, TextRequest, NumberRequest, SetRequest
<1>4. ASSUME NEW c \in Clients, Handle(c)
      PROVE  \/ KVView!PutNow(c) \/ KVView!DeleteNow(c) \/ KVView!GetNow(c)
             \/ KVView!Fail(c) \/ KVView!End(c)
  BY <1>4, MapGet, MapPut, MapDelete, MapAnswer DEF Handle
<1>5. CASE UNCHANGED vars
  <2>1. Calls' = Calls
    BY <1>5 DEF vars, Calls
  <2>2. Served' = Served
    BY <1>5, ServedKept DEF vars, store
  <2> QED BY <2>1, <2>2 DEF Abstracted
<1> QED BY <1>1, <1>2, <1>3, <1>4, <1>5 DEF Next, KVView!Next

LEMMA InitMaps == Init => KVView!Init
<1> SUFFICES ASSUME Init PROVE KVView!Init
  OBVIOUS
<1>1. ServedIndex = [k \in Keys |-> 0]
  BY InitKept, ServesIndex DEF Init
<1>2. Served = [k \in Keys |-> NoItem]
  BY <1>1 DEF Served, ItemOf
<1>3. Calls = [c \in Clients |-> KVView!Idle]
  BY DEF Init, Calls, CallOf, NoRequest, KVView!Idle
<1> QED BY <1>2, <1>3 DEF KVView!Init, KVView!Map!Init, Served, Calls

\* The server serves one map to all clients and through all its processes, when
\* these always end by a signal that is caught, or never do (runServer, Shutdown,
\* CloseFS, OpenFS and the controllers).  Ended now by one, now otherwise, it may
\* go back to an index file that is out of date.
THEOREM ServesTheMap ==
    ASSUME EndsOneWay
    PROVE  Spec => ServesKV
<1>1. Init => IInv /\ Kept
  BY InitInv, InitKept
<1>2. IInv /\ [Next]_vars => IInv'
  BY NextInv
<1>3. IInv /\ Kept /\ [Next]_vars => Kept'
  BY NextKept
<1>4. Spec => [](IInv /\ Kept)
  BY <1>1, <1>2, <1>3, PTL DEF Spec
<1>5. IInv /\ Kept /\ IInv' /\ Kept' /\ [Next]_vars => [KVView!Next]_(KVView!vars)
  BY NextMaps
<1>6. Init => KVView!Init
  BY InitMaps
<1> QED BY <1>4, <1>5, <1>6, PTL DEF Spec, ServesKV, KVView!Spec

=============================================================================
