-------------------------------- MODULE LFS --------------------------------
(***************************************************************************)
(* LogStructuredFS (vfs/lfs.go) as several goroutines drive it at once.    *)
(* Every operation is split where another goroutine can get in between:    *)
(* around lfs.mu, around the shard locks of the index, and at each access  *)
(* to memory that the code leaves outside of them.  An INode is a heap     *)
(* object: UpdateSegmentWithCAS changes it in place, and a goroutine may   *)
(* go on using one that is no longer in the index.                         *)
(*                                                                         *)
(* A step between "lock" and "unlock" of a shard touches nothing else that *)
(* is shared, so a shard lock and what it guards are one step.  The same   *)
(* goes for lfs.mu around the append of a delete or of an update.          *)
(*                                                                         *)
(* FetchRegion and PublishActiveRegion may be enabled at once: a lookup in *)
(* the map of regions during a write to it, of which Go gives no meaning.  *)
(* The steps here go on as if it had come before or after the write.       *)
(***************************************************************************)
EXTENDS Regions, Sequences

CONSTANTS
    Threads,
    NoThread,   \* lfs.mu is free
    Ops,        \* operations called: "put", "delete", "fetch", "update"
    Ttls,       \* times to live of a put or of an update
    Faults,     \* what the disk refuses: "append", "create"
    Stored,     \* the key stored before, if any: a set of at most one
    FirstValue, \* its value
    NoResult,   \* nothing fetched since the last update
    MaxCalls    \* calls in a behaviour (bound)

ASSUME LFSAssumption ==
    /\ NoThread \notin Threads
    /\ Ops \subseteq {"put", "delete", "fetch", "update"}
    /\ Ttls \subseteq Nat
    /\ Faults \subseteq {"append", "create"}
    /\ Keys # {}
    /\ Stored \subseteq Keys
    /\ \A j, k \in Stored : j = k
    /\ FirstValue \in Values
    /\ MaxCalls \in Nat

VARIABLES
    disk, fsize,                \* region files
    regionID, active, regions,  \* as in LogStructuredFS
    offset,
    index,  \* inode number -> position in heap, 0 for "no entry"
    heap,   \* the INode objects allocated so far
    mu,     \* holder of lfs.mu
    clock,  \* time; every call happens at an instant of its own
    pc,     \* where each goroutine is
    key,    \* key of its call
    seg,    \* segment of its call
    ptr,    \* INode object it looked up, as a position in heap
    tmp,    \* value it loaded last
    got,    \* what its last fetch returned
    won     \* history: the updates that got past the version check

regionVars == <<regionID, active, regions>>
indexVars  == <<index, heap>>
callVars   == <<clock, key, seg>>
vars == <<disk, fsize, regionVars, offset, indexVars, mu, callVars,
          pc, ptr, tmp, got, won>>

Goto(t, label) == pc' = [pc EXCEPT ![t] = label]

\* Mutant: a region is left before it is full.
AlmostFull(size) == size + 1 >= RegionThreshold

RegionFull(size) == size >= RegionThreshold

HeapINode(region, pos, s) ==
    [region |-> region, pos |-> pos,
     created |-> s.created, expired |-> s.expired, mvcc |-> 0]

Init ==
    LET first == [k \in Stored |-> NewSegment(k, FirstValue, 0, 1)]
    IN  /\ disk = {Record(1, Header, first[k]) : k \in Stored}
        /\ fsize = [r \in RegionIds |->
                      IF r # 1 THEN 0
                      ELSE IF Stored = {} THEN Header
                      ELSE Header + Size(first[CHOOSE k \in Stored : TRUE])]
        /\ regionID = 1 /\ active = 1 /\ regions = {1}
        /\ offset = fsize[1]
        /\ heap = IF Stored = {} THEN <<>>
                  ELSE <<HeapINode(1, Header, first[CHOOSE k \in Stored : TRUE])>>
        /\ index = [i \in Inums |-> IF \E k \in Stored : InodeNum[k] = i
                                    THEN 1 ELSE 0]
        /\ mu = NoThread
        /\ clock = 1
        /\ pc = [t \in Threads |-> "idle"]
        /\ key \in [Threads -> {CHOOSE k \in Keys : TRUE}]
        /\ seg = [t \in Threads |-> NewTombstoneSegment(key[t], 1)]
        /\ ptr = [t \in Threads |-> 0]
        /\ tmp = [t \in Threads |-> 0]
        /\ got = [t \in Threads |-> NoResult]
        /\ won = <<>>

-----------------------------------------------------------------------------
(***************************************************************************)
(* Calls.  The segment of a call carries the instant of the call.          *)
(***************************************************************************)

Call(t, op, k, s, label) ==
    /\ pc[t] = "idle"
    /\ op \in Ops
    /\ clock <= MaxCalls
    /\ clock' = clock + 1
    /\ key' = [key EXCEPT ![t] = k]
    /\ seg' = [seg EXCEPT ![t] = s]
    /\ Goto(t, label)
    /\ UNCHANGED <<disk, fsize, regionVars, offset, indexVars, mu>>
    /\ UNCHANGED <<ptr, tmp, got, won>>

CallPut(t) ==
    \E k \in Keys, v \in Values, ttl \in Ttls :
        Call(t, "put", k, NewSegment(k, v, ttl, clock + 1), "put_append")

CallDelete(t) ==
    \E k \in Keys :
        Call(t, "delete", k, NewTombstoneSegment(k, clock + 1), "delete_append")

CallFetch(t) == \E k \in Keys : Call(t, "fetch", k, seg[t], "fetch_lookup")

\* A client updates the key it fetched, with the version it was given.
CallUpdate(t) ==
    /\ got[t] # NoResult
    /\ \E v \in Values, ttl \in Ttls :
          Call(t, "update", got[t].key,
               NewSegment(got[t].key, v, ttl, clock + 1), "update_lookup")

-----------------------------------------------------------------------------
(***************************************************************************)
(* Steps that operations share.                                            *)
(***************************************************************************)

\* appendToActiveRegion
AppendToActiveRegion(t) ==
    /\ mu = NoThread
    /\ disk' = disk \cup {Record(active, fsize[active], seg[t])}
    /\ fsize' = [fsize EXCEPT ![active] = @ + Size(seg[t])]

\* lock, append, unlock
LockedAppend(t, from, to) ==
    /\ pc[t] = from
    /\ AppendToActiveRegion(t)
    /\ Goto(t, to)
    /\ UNCHANGED <<regionVars, offset, indexVars, mu, callVars>>
    /\ UNCHANGED <<ptr, tmp, got, won>>

\* Mutant: the error of the append is not looked at.
AppendFailsUnseen(t, from) ==
    /\ "append" \in Faults
    /\ pc[t] = from /\ mu = NoThread
    /\ mu' = IF from = "put_append" THEN t ELSE mu
    /\ Goto(t, CASE from = "put_append" -> "put_index"
                 [] from = "delete_append" -> "delete_add"
                 [] OTHER -> "update_offset")
    /\ UNCHANGED <<disk, fsize, regionVars, offset, indexVars, callVars>>
    /\ UNCHANGED <<ptr, tmp, got, won>>

\* The append fails, with a part of the record written or none; the call returns
\* the error, and lfs.mu is free again.
AppendFails(t, from) ==
    /\ "append" \in Faults
    /\ pc[t] = from /\ mu = NoThread
    /\ \E n \in 0 .. Size(seg[t]) - 1 : fsize' = [fsize EXCEPT ![active] = @ + n]
    /\ Goto(t, "idle")
    /\ UNCHANGED <<disk, regionVars, offset, indexVars, mu, callVars>>
    /\ UNCHANGED <<ptr, tmp, got, won>>

\* atomic.AddUint64(&lfs.offset, size)
AddOffset(t, from, to) ==
    /\ pc[t] = from
    /\ offset' = offset + Size(seg[t])
    /\ Goto(t, to)
    /\ UNCHANGED <<disk, fsize, regionVars, indexVars, mu, callVars>>
    /\ UNCHANGED <<ptr, tmp, got, won>>

\* Mutant: a missing entry is not noticed.
LookupUnchecked(t, from, to) ==
    /\ pc[t] = from
    /\ ptr' = [ptr EXCEPT ![t] = index[InodeNum[key[t]]]]
    /\ Goto(t, to)
    /\ UNCHANGED <<disk, fsize, regionVars, offset, indexVars, mu>>
    /\ UNCHANGED <<callVars, tmp, got, won>>

\* The INode pointer of the key; "not found" ends the call.
Lookup(t, from, to) ==
    LET i == InodeNum[key[t]]
    IN  /\ pc[t] = from
        /\ ptr' = [ptr EXCEPT ![t] = index[i]]
        /\ Goto(t, IF index[i] = 0 THEN "idle" ELSE to)
        /\ UNCHANGED <<disk, fsize, regionVars, offset, indexVars, mu>>
        /\ UNCHANGED <<callVars, tmp, got, won>>

\* delete(imap.index, inum)
DeleteIndex(t, from) ==
    /\ pc[t] = from
    /\ index' = [index EXCEPT ![InodeNum[key[t]]] = 0]
    /\ Goto(t, "idle")
    /\ UNCHANGED <<disk, fsize, regionVars, offset, heap, mu, callVars>>
    /\ UNCHANGED <<ptr, tmp, got, won>>

\* createActiveRegion, up to the header of the new file
CreateActiveRegionFile(t) ==
    /\ pc[t] = "rotate" /\ regionID < MaxRegion
    /\ regionID' = regionID + 1
    /\ fsize' = [fsize EXCEPT ![regionID + 1] = Header]
    /\ Goto(t, "publish")
    /\ UNCHANGED <<disk, active, regions, offset, indexVars, mu, callVars>>
    /\ UNCHANGED <<ptr, tmp, got, won>>

\* Mutant: the new region is not entered in the map of regions.
PublishActiveRegionUnlisted(t) ==
    /\ pc[t] = "publish"
    /\ active' = regionID
    /\ offset' = Header
    /\ mu' = NoThread
    /\ Goto(t, "idle")
    /\ UNCHANGED <<disk, fsize, regionID, regions, indexVars, callVars>>
    /\ UNCHANGED <<ptr, tmp, got, won>>

\* the rest of createActiveRegion, and the release of lfs.mu
PublishActiveRegion(t) ==
    /\ pc[t] = "publish"
    /\ active' = regionID
    /\ offset' = Header
    /\ regions' = regions \cup {regionID}
    /\ mu' = NoThread
    /\ Goto(t, "idle")
    /\ UNCHANGED <<disk, fsize, regionID, indexVars, callVars>>
    /\ UNCHANGED <<ptr, tmp, got, won>>

\* Mutant: the error return does not release lfs.mu.
RotationFailsLocked(t) ==
    /\ "create" \in Faults
    /\ pc[t] = "rotate" /\ regionID < MaxRegion
    /\ regionID' = regionID + 1
    /\ Goto(t, "idle")
    /\ UNCHANGED <<disk, fsize, active, regions, offset, indexVars, mu, callVars>>
    /\ UNCHANGED <<ptr, tmp, got, won>>

\* createActiveRegion fails after it took the next id: the file cannot be opened,
\* or gets a part of its header.  The old region stays active.
RotationFails(t) ==
    /\ "create" \in Faults
    /\ pc[t] = "rotate" /\ regionID < MaxRegion
    /\ regionID' = regionID + 1
    /\ \E n \in 0 .. Header - 1 : fsize' = [fsize EXCEPT ![regionID + 1] = n]
    /\ mu' = NoThread
    /\ Goto(t, "idle")
    /\ UNCHANGED <<disk, active, regions, offset, indexVars, callVars>>
    /\ UNCHANGED <<ptr, tmp, got, won>>

-----------------------------------------------------------------------------
(***************************************************************************)
(* PutSegment holds lfs.mu to the end; lfs.offset is advanced by a plain   *)
(* load and store.                                                         *)
(***************************************************************************)

\* Mutant: lfs.mu is released after the append, as in a delete.
PutAppendUnlocks(t) ==
    /\ pc[t] = "put_append"
    /\ AppendToActiveRegion(t)
    /\ Goto(t, "put_index")
    /\ UNCHANGED <<regionVars, offset, indexVars, mu, callVars>>
    /\ UNCHANGED <<ptr, tmp, got, won>>

PutAppend(t) ==
    /\ pc[t] = "put_append"
    /\ AppendToActiveRegion(t)
    /\ mu' = t
    /\ Goto(t, "put_index")
    /\ UNCHANGED <<regionVars, offset, indexVars, callVars>>
    /\ UNCHANGED <<ptr, tmp, got, won>>

PutIndex(t) ==
    /\ pc[t] = "put_index"
    /\ heap' = Append(heap, HeapINode(regionID, offset, seg[t]))
    /\ index' = [index EXCEPT ![InodeNum[key[t]]] = Len(heap) + 1]
    /\ Goto(t, "put_load")
    /\ UNCHANGED <<disk, fsize, regionVars, offset, mu, callVars>>
    /\ UNCHANGED <<ptr, tmp, got, won>>

PutLoadOffset(t) ==
    /\ pc[t] = "put_load"
    /\ tmp' = [tmp EXCEPT ![t] = offset]
    /\ Goto(t, "put_store")
    /\ UNCHANGED <<disk, fsize, regionVars, offset, indexVars, mu, callVars>>
    /\ UNCHANGED <<ptr, got, won>>

PutStoreOffset(t) ==
    /\ pc[t] = "put_store"
    /\ offset' = tmp[t] + Size(seg[t])
    /\ Goto(t, "put_check")
    /\ UNCHANGED <<disk, fsize, regionVars, indexVars, mu, callVars>>
    /\ UNCHANGED <<ptr, tmp, got, won>>

PutCheck(t) ==
    /\ pc[t] = "put_check"
    /\ IF RegionFull(offset)
       THEN Goto(t, "rotate") /\ UNCHANGED mu
       ELSE Goto(t, "idle") /\ mu' = NoThread
    /\ UNCHANGED <<disk, fsize, regionVars, offset, indexVars, callVars>>
    /\ UNCHANGED <<ptr, tmp, got, won>>

PutSegment(t) ==
    \/ PutAppend(t) \/ AppendFails(t, "put_append") \/ PutIndex(t)
    \/ PutLoadOffset(t) \/ PutStoreOffset(t) \/ PutCheck(t)

\* DeleteSegment has released lfs.mu when it advances lfs.offset and when it
\* removes the entry.
DeleteSegment(t) ==
    \/ LockedAppend(t, "delete_append", "delete_add")
    \/ AppendFails(t, "delete_append")
    \/ AddOffset(t, "delete_add", "delete_index")
    \/ DeleteIndex(t, "delete_index")

-----------------------------------------------------------------------------
(***************************************************************************)
(* FetchSegment takes no lock but the shard's, for the lookup: the fields  *)
(* of the INode are loaded one by one, ExpiredAt twice.                    *)
(***************************************************************************)

FetchStep(t, from, to) ==
    /\ pc[t] = from
    /\ Goto(t, to)
    /\ UNCHANGED <<disk, fsize, regionVars, offset, indexVars, mu, callVars>>
    /\ UNCHANGED <<ptr, won>>

FetchExpiredAt(t) ==
    /\ FetchStep(t, "fetch_expired_at",
                 IF heap[ptr[t]].expired <= clock
                 THEN "fetch_expired_at_0" ELSE "fetch_region")
    /\ UNCHANGED <<tmp, got>>

\* Mutant: an instant of zero is not told from a real one.
FetchExpiredAtAny(t) ==
    /\ FetchStep(t, "fetch_expired_at_0", "fetch_evict")
    /\ UNCHANGED <<tmp, got>>

FetchExpiredAtZero(t) ==
    /\ FetchStep(t, "fetch_expired_at_0",
                 IF heap[ptr[t]].expired # 0
                 THEN "fetch_evict" ELSE "fetch_region")
    /\ UNCHANGED <<tmp, got>>

\* The region of a fetch is not known: the call fails.
RegionLost(t) == heap[ptr[t]].region \notin regions

FetchRegion(t) ==
    /\ FetchStep(t, "fetch_region",
                 IF RegionLost(t) THEN "idle" ELSE "fetch_read")
    /\ tmp' = [tmp EXCEPT ![t] = heap[ptr[t]].region]
    /\ UNCHANGED got

Readable(t) == ReadSegment(disk, tmp[t], heap[ptr[t]].pos)

FetchRead(t) ==
    \/ /\ FetchStep(t, "fetch_read", "idle")
       /\ Readable(t) = {}
       /\ UNCHANGED <<tmp, got>>
    \/ /\ FetchStep(t, "fetch_read", "fetch_version")
       /\ \E e \in Readable(t) :
             got' = [got EXCEPT ![t] =
                        [key |-> key[t], read |-> e, version |-> 0]]
       /\ UNCHANGED tmp

FetchVersion(t) ==
    /\ FetchStep(t, "fetch_version", "idle")
    /\ got' = [got EXCEPT ![t].version = heap[ptr[t]].mvcc]
    /\ UNCHANGED tmp

FetchSegment(t) ==
    \/ Lookup(t, "fetch_lookup", "fetch_expired_at")
    \/ FetchExpiredAt(t) \/ FetchExpiredAtZero(t)
    \/ DeleteIndex(t, "fetch_evict")
    \/ FetchRegion(t) \/ FetchRead(t) \/ FetchVersion(t)

-----------------------------------------------------------------------------
(***************************************************************************)
(* UpdateSegmentWithCAS: the version check is a compare-and-swap, the rest *)
(* of the INode is stored afterwards, field by field, without a lock.      *)
(* CreatedAt and ExpiredAt are one step, for no goroutine reads both.      *)
(***************************************************************************)

\* Mutant: any version up to the current one is accepted.
VersionNotAhead(t) == heap[ptr[t]].mvcc >= got[t].version

VersionIsCurrent(t) == heap[ptr[t]].mvcc = got[t].version

UpdateSwap(t) ==
    /\ pc[t] = "update_swap"
    /\ VersionIsCurrent(t)
    /\ heap' = [heap EXCEPT ![ptr[t]].mvcc = @ + 1]
    /\ won' = Append(won, [inode |-> ptr[t], got |-> got[t]])
    /\ got' = [got EXCEPT ![t] = NoResult]
    /\ Goto(t, "update_append")
    /\ UNCHANGED <<disk, fsize, regionVars, offset, index, mu, callVars>>
    /\ UNCHANGED <<ptr, tmp>>

UpdateConflict(t) ==
    /\ pc[t] = "update_swap"
    /\ ~ VersionIsCurrent(t)
    /\ got' = [got EXCEPT ![t] = NoResult]
    /\ Goto(t, "idle")
    /\ UNCHANGED <<disk, fsize, regionVars, offset, indexVars, mu, callVars>>
    /\ UNCHANGED <<ptr, tmp, won>>

UpdateLoad(t, from, value, to) ==
    /\ pc[t] = from
    /\ tmp' = [tmp EXCEPT ![t] = value]
    /\ Goto(t, to)
    /\ UNCHANGED <<disk, fsize, regionVars, offset, indexVars, mu, callVars>>
    /\ UNCHANGED <<ptr, got, won>>

UpdateStore(t, from, inode, to) ==
    /\ pc[t] = from
    /\ heap' = [heap EXCEPT ![ptr[t]] = inode]
    /\ Goto(t, to)
    /\ UNCHANGED <<disk, fsize, regionVars, offset, index, mu, callVars>>
    /\ UNCHANGED <<ptr, tmp, got, won>>

\* Mutant: the region of the record is not stored.
UpdateINodeSameRegion(t) ==
    LET inode == heap[ptr[t]]
    IN  \/ UpdateLoad(t, "update_offset", offset, "update_position")
        \/ UpdateStore(t, "update_position",
                       [inode EXCEPT !.pos = tmp[t]], "update_times")
        \/ UpdateStore(t, "update_times",
                       [inode EXCEPT !.created = seg[t].created,
                                     !.expired = seg[t].expired],
                       "update_add")

UpdateINode(t) ==
    LET inode == heap[ptr[t]]
    IN  \/ UpdateLoad(t, "update_offset", offset, "update_position")
        \/ UpdateStore(t, "update_position",
                       [inode EXCEPT !.pos = tmp[t]], "update_times")
        \/ UpdateStore(t, "update_times",
                       [inode EXCEPT !.created = seg[t].created,
                                     !.expired = seg[t].expired],
                       "update_region_id")
        \/ UpdateLoad(t, "update_region_id", regionID, "update_region")
        \/ UpdateStore(t, "update_region",
                       [inode EXCEPT !.region = tmp[t]], "update_add")

UpdateCheck(t) ==
    /\ pc[t] = "update_check"
    /\ Goto(t, IF RegionFull(offset) THEN "update_lock" ELSE "idle")
    /\ UNCHANGED <<disk, fsize, regionVars, offset, indexVars, mu, callVars>>
    /\ UNCHANGED <<ptr, tmp, got, won>>

UpdateLock(t) ==
    /\ pc[t] = "update_lock"
    /\ mu = NoThread
    /\ mu' = t
    /\ Goto(t, "rotate")
    /\ UNCHANGED <<disk, fsize, regionVars, offset, indexVars, callVars>>
    /\ UNCHANGED <<ptr, tmp, got, won>>

UpdateSegmentWithCAS(t) ==
    \/ Lookup(t, "update_lookup", "update_swap")
    \/ UpdateSwap(t) \/ UpdateConflict(t)
    \/ LockedAppend(t, "update_append", "update_offset")
    \/ AppendFails(t, "update_append")
    \/ UpdateINode(t)
    \/ AddOffset(t, "update_add", "update_check")
    \/ UpdateCheck(t) \/ UpdateLock(t)

-----------------------------------------------------------------------------

\* A goroutine that is in a call goes on with it.
Step(t) ==
    \/ PutSegment(t) \/ DeleteSegment(t)
    \/ FetchSegment(t) \/ UpdateSegmentWithCAS(t)
    \/ CreateActiveRegionFile(t) \/ PublishActiveRegion(t) \/ RotationFails(t)

Idle == \A t \in Threads : pc[t] = "idle"

\* Clients may stop calling; the bound on calls makes them do so.
Finished == Idle /\ UNCHANGED vars

Next ==
    \/ \E t \in Threads :
          CallPut(t) \/ CallDelete(t) \/ CallFetch(t) \/ CallUpdate(t) \/ Step(t)
    \/ Finished

Spec == Init /\ [][Next]_vars

\* The scheduler leaves no goroutine that can go on standing for ever.
FairSpec == Spec /\ \A t \in Threads : WF_vars(Step(t))

-----------------------------------------------------------------------------
(***************************************************************************)
(* Clients that keep some calls apart.  A delete and an update go on after *)
(* they released lfs.mu, and an update changes an INode that a fetch may   *)
(* hold.  Careful clients have no other write under way during a delete or *)
(* an update, and no fetch of the inode number that is updated; puts mix   *)
(* with puts and with fetches, deletes with fetches.  Who has come to the  *)
(* rotation holds lfs.mu and disturbs nobody.                              *)
(***************************************************************************)

InPut == {"put_append", "put_index", "put_load", "put_store", "put_check"}

InDelete == {"delete_append", "delete_add", "delete_index"}

InFetch == {"fetch_lookup", "fetch_expired_at", "fetch_expired_at_0",
            "fetch_evict", "fetch_region", "fetch_read", "fetch_version"}

InUpdate == {"update_lookup", "update_swap", "update_append", "update_offset",
             "update_position", "update_times", "update_region_id",
             "update_region", "update_add", "update_check", "update_lock"}

Careful ==
    \A t, u \in Threads : t # u =>
        /\ pc[t] \in InDelete \cup InUpdate =>
              pc[u] \notin InPut \cup InDelete \cup InUpdate
        /\ pc[t] \in InUpdate /\ pc[u] \in InFetch =>
              InodeNum[key[u]] # InodeNum[key[t]]

CarefulSpec == Init /\ [][Next /\ Careful']_vars

-----------------------------------------------------------------------------
(***************************************************************************)
(* Properties.                                                             *)
(***************************************************************************)

Labels ==
    {"idle", "put_append", "put_index", "put_load", "put_store", "put_check",
     "delete_append", "delete_add", "delete_index", "fetch_lookup",
     "fetch_expired_at", "fetch_expired_at_0", "fetch_evict", "fetch_region",
     "fetch_read", "fetch_version", "update_lookup", "update_swap",
     "update_append", "update_offset", "update_position", "update_times",
     "update_region_id", "update_region", "update_add", "update_check",
     "update_lock", "rotate", "publish"}

\* Where the goroutine goes through the INode pointer it looked up.
Dereferencing ==
    {"fetch_expired_at", "fetch_expired_at_0", "fetch_region", "fetch_read",
     "fetch_version", "update_swap", "update_position", "update_times",
     "update_region"}

\* Where the goroutine holds lfs.mu.
Locked == {"put_index", "put_load", "put_store", "put_check", "rotate", "publish"}

\* Every variable has its type, no goroutine goes through a nil INode pointer,
\* and lfs.mu is held by the one goroutine that is where it is needed.
TypeOK ==
    /\ disk \subseteq Entry
    /\ fsize \in [RegionIds -> Nat]
    /\ regionID \in RegionIds /\ active \in RegionIds
    /\ regions \subseteq RegionIds
    /\ offset \in Nat /\ clock \in Nat
    /\ index \in [Inums -> 0 .. Len(heap)]
    /\ \A n \in 1 .. Len(heap) :
          heap[n] \in [region : Nat, pos : Nat, created : Nat, expired : Nat,
                      mvcc : Nat]
    /\ key \in [Threads -> Keys]
    /\ seg \in [Threads -> Segment]
    /\ pc \in [Threads -> Labels]
    /\ ptr \in [Threads -> 0 .. Len(heap)]
    /\ tmp \in [Threads -> Nat]
    /\ \A t \in Threads : pc[t] \in Dereferencing => ptr[t] # 0
    /\ \A t \in Threads : pc[t] \in Locked <=> mu = t

\* The index as module Regions knows it.
View ==
    [i \in Inums |->
        IF index[i] = 0 THEN NoINode
        ELSE LET n == heap[index[i]]
             IN  [region |-> n.region, pos |-> n.pos,
                  created |-> n.created, expired |-> n.expired]]

\* The inode numbers whose INode an update is about to have rewritten.
Rewritten ==
    {InodeNum[key[t]] : t \in
        {u \in Threads :
            pc[u] \in {"update_times", "update_region_id", "update_region"}}}

\* Every entry of the index reads back a live record of its inode number from
\* an open region at any moment, in the middle of other calls too, unless an
\* update has stored some of the fields of the INode and not yet the others.
EntriesReadBack ==
    Leads(disk, [i \in Inums |-> IF i \in Rewritten THEN NoINode ELSE View[i]],
          regions)

\* When no call is under way the index agrees with the last record of each
\* inode number: the order of the log is the order in which calls took effect.
QuietLatest == Idle => Latest(disk, View, clock)

\* A fetch that found an entry gets a record of its inode number: it does not
\* fail on the region or on the read, whatever other goroutines do meanwhile.
FetchSucceeds ==
    \A t \in Threads :
        /\ pc[t] = "fetch_region" => ~ RegionLost(t)
        /\ pc[t] = "fetch_read" =>
              \E e \in Readable(t) : InodeNum[e.seg.key] = InodeNum[key[t]]

\* A region is left for a new one only when it is full.
RegionsFull == \A r \in regions : r < active => fsize[r] >= RegionThreshold

\* The index is never ahead of the log: an entry carries the creation time of
\* a live record of its inode number that is in some file.
IndexWritten ==
    \A i \in Inums : index[i] # 0 =>
        \E e \in RecordsOf(disk, i) :
            /\ ~ IsTombstone(e.seg)
            /\ e.seg.created = heap[index[i]].created

\* Of the updates that were given the same version of the same INode only one
\* gets past the version check.
OneWinnerPerVersion ==
    \A m, n \in 1 .. Len(won) :
        won[m].inode = won[n].inode /\ won[m].got.version = won[n].got.version
            => m = n

\* No two updates that succeed were computed from the same record.
NoLostUpdate ==
    \A m, n \in 1 .. Len(won) : won[m].got.read = won[n].got.read => m = n

\* Every call returns.
Returns == \A t \in Threads : pc[t] # "idle" ~> pc[t] = "idle"

=============================================================================
