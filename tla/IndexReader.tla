---------------------------- MODULE IndexReader ----------------------------
(***************************************************************************)
(* recoveryIndex (vfs/lfs.go), which reads the index file at the start of  *)
(* the process: a goroutine reads entries of 48 bytes and sends them down  *)
(* a channel, another one puts them in the index, and the caller waits for *)
(* both and asks the channel of errors how it went.                        *)
(*                                                                         *)
(* Entries are numbered in the order of the file; the export writes each   *)
(* inode number once.  The shard of an entry always exists, for OpenFS     *)
(* makes them all, so the consumer has no error to report.                 *)
(***************************************************************************)
EXTENDS Naturals, Sequences

CONSTANTS
    MaxEntries  \* whole entries an index file may hold (bound)

ASSUME IndexReaderAssumption == MaxEntries \in Nat

VARIABLES
    whole,     \* whole entries in the file
    torn,      \* an entry cut short follows them
    bad,       \* whole entries with a wrong checksum
    next,      \* entry at the read offset
    nqueue,    \* the channel of entries
    closed,    \* it is closed
    equeue,    \* errors in the channel of errors, which has room for one
    index,     \* entries in the index
    producer,  \* where the reading goroutine is
    consumer,  \* where the indexing goroutine is
    result     \* what recoveryIndex returned

fileVars == <<whole, torn, bad>>
vars == <<fileVars, next, nqueue, closed, equeue, index,
          producer, consumer, result>>

Init ==
    /\ whole \in 0 .. MaxEntries
    /\ torn \in BOOLEAN
    /\ bad \in SUBSET (1 .. whole)
    /\ next = 1
    /\ nqueue = <<>>
    /\ closed = FALSE
    /\ equeue = 0
    /\ index = {}
    /\ producer = "check"
    /\ consumer = "range"
    /\ result = "none"

\* Mutant: one place too few.
CapacityShort == IF whole = 0 THEN 0 ELSE whole - 1

\* The size of the file without its header, in entries.
Capacity == whole

\* Mutant: an entry cut short is taken for a whole one.
TornReads(n) == n \in bad

\* Mutant: the checksum is not verified.
BadReads(n) == n > whole

\* ReadAt meets the end of the file, or deserializedIndex a wrong checksum.
ReadFails(n) == n > whole \/ n \in bad

ProducerCheck ==
    /\ producer = "check"
    /\ producer' =
          IF next <= whole + (IF torn THEN 1 ELSE 0) /\ equeue = 0
          THEN "read" ELSE "close"
    /\ UNCHANGED <<fileVars, next, nqueue, closed, equeue, index>>
    /\ UNCHANGED <<consumer, result>>

ProducerRead ==
    /\ producer = "read"
    /\ producer' = IF ReadFails(next) THEN "fail" ELSE "send"
    /\ next' = next + 1
    /\ UNCHANGED <<fileVars, nqueue, closed, equeue, index, consumer, result>>

ProducerSend ==
    /\ producer = "send"
    /\ Len(nqueue) < Capacity
    /\ nqueue' = Append(nqueue, next - 1)
    /\ producer' = "check"
    /\ UNCHANGED <<fileVars, next, closed, equeue, index, consumer, result>>

ProducerFail ==
    /\ producer = "fail"
    /\ equeue < 1
    /\ equeue' = equeue + 1
    /\ producer' = "close"
    /\ UNCHANGED <<fileVars, next, nqueue, closed, index, consumer, result>>

\* Mutant: the channel is left open.
ProducerEndsOpen ==
    /\ producer = "close"
    /\ producer' = "done"
    /\ UNCHANGED <<fileVars, next, nqueue, closed, equeue, index>>
    /\ UNCHANGED <<consumer, result>>

ProducerEnds ==
    /\ producer = "close"
    /\ closed' = TRUE
    /\ producer' = "done"
    /\ UNCHANGED <<fileVars, next, nqueue, equeue, index, consumer, result>>

ConsumerReceives ==
    /\ consumer = "range"
    /\ nqueue # <<>>
    /\ index' = index \cup {Head(nqueue)}
    /\ nqueue' = Tail(nqueue)
    /\ UNCHANGED <<fileVars, next, closed, equeue, producer, consumer, result>>

ConsumerEnds ==
    /\ consumer = "range"
    /\ nqueue = <<>> /\ closed
    /\ consumer' = "done"
    /\ UNCHANGED <<fileVars, next, nqueue, closed, equeue, index>>
    /\ UNCHANGED <<producer, result>>

Return ==
    /\ result = "none"
    /\ producer = "done" /\ consumer = "done"
    /\ result' = IF equeue > 0 THEN "error" ELSE "ok"
    /\ equeue' = 0
    /\ UNCHANGED <<fileVars, next, nqueue, closed, index, producer, consumer>>

Finished == result # "none" /\ UNCHANGED vars

Step ==
    \/ ProducerCheck \/ ProducerRead \/ ProducerSend \/ ProducerFail
    \/ ProducerEnds
    \/ ConsumerReceives \/ ConsumerEnds
    \/ Return

Next == Step \/ Finished

Spec == Init /\ [][Next]_vars

\* The scheduler leaves no goroutine that can go on standing for ever.
FairSpec == Spec /\ WF_vars(Step)

-----------------------------------------------------------------------------
(***************************************************************************)
(* Properties.                                                             *)
(***************************************************************************)

\* Every variable has its type; only whole entries are sent.
TypeOK ==
    /\ whole \in Nat /\ torn \in BOOLEAN /\ bad \subseteq 1 .. whole
    /\ next \in 1 .. whole + 2
    /\ nqueue \in Seq(1 .. whole)
    /\ closed \in BOOLEAN
    /\ equeue \in 0 .. 1
    /\ index \subseteq 1 .. whole
    /\ producer \in {"check", "read", "send", "fail", "close", "done"}
    /\ consumer \in {"range", "done"}
    /\ result \in {"none", "ok", "error"}

Damaged == torn \/ bad # {}

\* recoveryIndex reports success exactly when the file is undamaged, and then
\* the index holds every entry: none is lost in the channel, none is left out
\* because the reader stopped early.
AllOrError ==
    /\ result = "ok" => ~ Damaged /\ index = 1 .. whole
    /\ result = "error" => Damaged

\* The reader never waits for the indexing goroutine, nor for room for its one
\* error: the channels are as large as they have to be.
NeverWaits ==
    /\ producer = "send" => Len(nqueue) < Capacity
    /\ producer = "fail" => equeue = 0

\* recoveryIndex returns, whatever the file holds.
Returns == <>(result # "none")

=============================================================================
