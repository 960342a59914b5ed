---------------------------- MODULE LFSKVProofs ----------------------------
(***************************************************************************)
(* Theorems about LFS when clients are careful and the disk refuses        *)
(* nothing, for any goroutines, keys, sizes and bounds.                    *)
(***************************************************************************)
EXTENDS LFSProofs, LFSKV

-----------------------------------------------------------------------------
(***************************************************************************)
(* The log.  One goroutine at a time is between its append and the last it *)
(* has to do with lfs.offset or the index.  When there is none lfs.offset  *)
(* is the size of the active file; when there is one the difference is the *)
(* record it appended, which is the last of all.                           *)
(***************************************************************************)

Behind == {"put_index", "put_load", "delete_add", "update_offset",
           "update_position", "update_times", "update_region_id",
           "update_region", "update_add"}

Level == {"put_check", "rotate", "publish", "delete_index", "update_check",
          "update_lock"}

Busy == Behind \cup {"put_store"} \cup Level

\* Appended, and the index does not say so yet.
Unsettled == {"put_index", "delete_add", "update_offset", "update_position",
              "update_times", "update_region_id", "update_region"}

OneBusy ==
    \A t, u \in Threads : t # u /\ pc[t] \in Busy => pc[u] \notin Busy

OffsetKnown(t) ==
    /\ pc[t] \in Behind => offset + Size(seg[t]) = fsize[active]
    /\ pc[t] = "put_store" => tmp[t] + Size(seg[t]) = fsize[active]
    /\ pc[t] \in Level => offset = fsize[active]
    /\ pc[t] \in {"rotate", "publish", "update_lock"} =>
          fsize[active] >= RegionThreshold
    /\ pc[t] = "publish" => regionID = active + 1 /\ fsize[regionID] = Header
    /\ pc[t] \in Unsettled => IsLast(Record(active, offset, seg[t]), disk)
    /\ pc[t] = "delete_index" =>
          \E e \in disk : IsLast(e, disk) /\ e.seg = seg[t]
    /\ pc[t] = "update_position" => tmp[t] = offset
    /\ pc[t] = "update_region" => tmp[t] = active

OffsetOK ==
    /\ OneBusy
    /\ (\A t \in Threads : pc[t] \notin Busy) => offset = fsize[active]
    /\ (\A t \in Threads : pc[t] # "publish") => regionID = active
    /\ \A t \in Threads : OffsetKnown(t)

RecordsOK ==
    /\ regions = 1 .. active
    /\ \A e \in disk : e.region \in regions /\ EndOf(e) <= fsize[e.region]
    /\ \A e, f \in disk : e.region = f.region /\ e.pos = f.pos => e = f

LogOK == OffsetOK /\ RecordsOK /\ RegionsFull

-----------------------------------------------------------------------------
(***************************************************************************)
(* The entries.  A put makes a new INode, and an update changes the one of *)
(* its inode number, of which no fetch is under way.                       *)
(***************************************************************************)

\* The INode leads to a live record of inode number i in a region of ids.
LeadsTo(D, ids, inode, i) ==
    /\ inode.region \in ids
    /\ \E e \in D :
          /\ e.region = inode.region /\ e.pos = inode.pos
          /\ InodeNum[e.seg.key] = i
          /\ ~ IsTombstone(e.seg)
          /\ e.seg.created = inode.created /\ e.seg.expired = inode.expired

\* Some fields of the INode are stored, not all.
Torn == {"update_times", "update_region_id", "update_region"}

\* The update goes through the entry of its inode number.
Owning == {"update_swap", "update_append", "update_offset", "update_position"}
             \cup Torn

EntriesLead ==
    \A i \in Inums : index[i] # 0 /\ i \notin Rewritten =>
        LeadsTo(disk, regions, heap[index[i]], i)

ReadersLead ==
    \A t \in Threads :
        /\ pc[t] \in Reading =>
              LeadsTo(disk, regions, heap[ptr[t]], InodeNum[key[t]])
        /\ pc[t] = "fetch_read" => tmp[t] = heap[ptr[t]].region

ReadersOwn ==
    \A t \in Threads, i \in Inums :
        pc[t] \in Reading /\ index[i] # 0 /\ index[i] = ptr[t]
            => i = InodeNum[key[t]]

UpdatersOwn ==
    \A t \in Threads : pc[t] \in Owning =>
        /\ ptr[t] = index[InodeNum[key[t]]]
        /\ seg[t].key = key[t] /\ ~ IsTombstone(seg[t])
        /\ pc[t] \in Torn => heap[ptr[t]].pos = offset
        /\ pc[t] \in Torn \ {"update_times"} =>
              /\ heap[ptr[t]].created = seg[t].created
              /\ heap[ptr[t]].expired = seg[t].expired

EntriesOK == EntriesLead /\ ReadersLead /\ ReadersOwn /\ UpdatersOwn

CarefulOK == Typed /\ Written /\ Careful /\ LogOK /\ EntriesOK

-----------------------------------------------------------------------------
(***************************************************************************)
(* Without times to live no fetch evicts an entry, and the index agrees    *)
(* with the last record of an inode number but while a call has appended   *)
(* one and not yet entered it in the index.                                *)
(***************************************************************************)

NeverExpires == Ttls \subseteq {0}

LiveForEver ==
    /\ \A e \in disk : e.seg.expired = 0
    /\ \A t \in Threads : pc[t] \in Writing => seg[t].expired = 0
    /\ \A t \in Threads : pc[t] \in InDelete =>
          seg[t].key = key[t] /\ IsTombstone(seg[t]) /\ seg[t].expired = 0
    /\ \A n \in 1 .. Len(heap) : heap[n].expired = 0
    /\ \A t \in Threads : pc[t] # "fetch_evict"

IsOf(inode, e) ==
    /\ inode.region = e.region /\ inode.pos = e.pos
    /\ inode.created = e.seg.created /\ inode.expired = e.seg.expired

NamesLast(i) ==
    /\ RecordsOf(disk, i) = {} => index[i] = 0
    /\ \A e \in RecordsOf(disk, i) : IsLast(e, RecordsOf(disk, i)) =>
          IF IsTombstone(e.seg) THEN index[i] = 0
          ELSE index[i] # 0 /\ IsOf(heap[index[i]], e)

Settled(i) ==
    \A t \in Threads :
        pc[t] \in Unsettled \cup {"delete_index"} => InodeNum[key[t]] # i

LatestOK == \A i \in Inums : Settled(i) => NamesLast(i)

-----------------------------------------------------------------------------
(***************************************************************************)
(* The steps there are: outside of the log, an append, and what a          *)
(* goroutine does from its append on.                                      *)
(***************************************************************************)

Begins(t) == CallPut(t) \/ CallDelete(t) \/ CallFetch(t) \/ CallUpdate(t)

Quiet(t) ==
    \/ Begins(t)
    \/ FetchSegment(t)
    \/ Lookup(t, "update_lookup", "update_swap")
    \/ UpdateSwap(t) \/ UpdateConflict(t)

Appends(t) ==
    \/ PutAppend(t)
    \/ LockedAppend(t, "delete_append", "delete_add")
    \/ LockedAppend(t, "update_append", "update_offset")

GoesOn(t) ==
    \/ PutIndex(t) \/ PutLoadOffset(t) \/ PutStoreOffset(t) \/ PutCheck(t)
    \/ AddOffset(t, "delete_add", "delete_index") \/ DeleteIndex(t, "delete_index")
    \/ UpdateINode(t) \/ AddOffset(t, "update_add", "update_check")
    \/ UpdateCheck(t) \/ UpdateLock(t)
    \/ CreateActiveRegionFile(t) \/ PublishActiveRegion(t)

LEMMA StepsThereAre ==
    ASSUME Faults = {}, Next
    PROVE  \/ \E t \in Threads : Quiet(t) \/ Appends(t) \/ GoesOn(t)
           \/ UNCHANGED vars
<1>1. CASE Finished
  BY <1>1 DEF Finished
<1>2. ASSUME NEW t \in Threads,
             CallPut(t) \/ CallDelete(t) \/ CallFetch(t) \/ CallUpdate(t)
      PROVE  Quiet(t)
  BY <1>2 DEF Quiet, Begins
<1>3. ASSUME NEW t \in Threads, Step(t)
      PROVE  Quiet(t) \/ Appends(t) \/ GoesOn(t)
  <2>1. ~ RotationFails(t) /\ \A l : ~ AppendFails(t, l)
    BY DEF RotationFails, AppendFails
  <2> QED
    BY <1>3, <2>1 DEF Step, PutSegment, DeleteSegment, UpdateSegmentWithCAS,
                      Quiet, Appends, GoesOn
<1> QED BY <1>1, <1>2, <1>3 DEF Next

LEMMA BusyIsLocked == Locked \subseteq Busy
BY DEF Locked, Busy, Behind, Level

\* What a goroutine knows, the others leave alone.
OthersStay(t) ==
    \A u \in Threads : u # t =>
        /\ pc'[u] = pc[u] /\ key'[u] = key[u] /\ seg'[u] = seg[u]
        /\ ptr'[u] = ptr[u] /\ tmp'[u] = tmp[u] /\ got'[u] = got[u]

SameTarget(m, n) ==
    /\ m.region = n.region /\ m.pos = n.pos
    /\ m.created = n.created /\ m.expired = n.expired

LEMMA BeginsStep ==
    ASSUME Typed, NEW t \in Threads, Begins(t)
    PROVE  /\ UNCHANGED <<disk, fsize, regionVars, offset, indexVars, mu, ptr, tmp, got>>
           /\ OthersStay(t)
           /\ pc[t] = "idle"
           /\ pc'[t] \in {"put_append", "delete_append", "fetch_lookup",
                          "update_lookup"}
<1>1. PICK l \in {"put_append", "delete_append", "fetch_lookup", "update_lookup"} :
         \E op, k, s : Call(t, op, k, s, l)
  <2>1. CASE CallPut(t) BY <2>1 DEF CallPut
  <2>2. CASE CallDelete(t) BY <2>2 DEF CallDelete
  <2>3. CASE CallFetch(t) BY <2>3 DEF CallFetch
  <2>4. CASE CallUpdate(t) BY <2>4 DEF CallUpdate
  <2> QED BY <2>1, <2>2, <2>3, <2>4 DEF Begins
<1> QED BY <1>1 DEF Call, Goto, OthersStay, Typed, CallsOK

LEMMA FetchesStep ==
    ASSUME Typed, NEW t \in Threads, FetchSegment(t)
    PROVE  /\ UNCHANGED <<disk, fsize, regionVars, offset, heap, mu, key, seg>>
           /\ OthersStay(t)
           /\ pc[t] \in InFetch /\ pc'[t] \in InFetch \cup {"idle"}
           /\ pc'[t] \in Reading \cup {"fetch_version"} => pc'[t] # "fetch_lookup"
           /\ \A i \in Inums :
                 index'[i] = IF pc[t] = "fetch_evict" /\ i = InodeNum[key[t]]
                             THEN 0 ELSE index[i]
<1>1. CASE Lookup(t, "fetch_lookup", "fetch_expired_at")
  BY <1>1 DEF Lookup, Goto, OthersStay, Typed, CallsOK, indexVars, callVars, InFetch,
              Reading
<1>2. CASE DeleteIndex(t, "fetch_evict")
  BY <1>2 DEF DeleteIndex, Goto, OthersStay, Typed, CallsOK, HeapOK, callVars, InFetch,
              Reading
<1>3. CASE \/ FetchExpiredAt(t) \/ FetchExpiredAtZero(t)
           \/ FetchRegion(t) \/ FetchRead(t) \/ FetchVersion(t)
  <2>1. PICK l \in {"idle", "fetch_expired_at_0", "fetch_evict", "fetch_region",
                    "fetch_read", "fetch_version"}, m \in InFetch \ {"fetch_evict"} :
           FetchStep(t, m, l)
    BY <1>3 DEF FetchExpiredAt, FetchExpiredAtZero, FetchRegion, FetchRead,
                FetchVersion, InFetch
  <2>2. \A u \in Threads : u # t => tmp'[u] = tmp[u] /\ got'[u] = got[u]
    BY <1>3 DEF FetchExpiredAt, FetchExpiredAtZero, FetchRegion, FetchRead,
                FetchVersion, Typed, CallsOK, HistoryOK
  <2>3. /\ pc[t] = m /\ Goto(t, l) /\ UNCHANGED <<key, seg, ptr>>
        /\ UNCHANGED <<disk, fsize, regionVars, offset, heap, index, mu>>
    BY <2>1 DEF FetchStep, indexVars, callVars
  <2>4. pc'[t] = l /\ \A u \in Threads : u # t => pc'[u] = pc[u]
    BY <2>3, MovesOthersStay DEF Typed
  <2> QED BY <2>2, <2>3, <2>4 DEF OthersStay, InFetch, Reading
<1> QED BY <1>1, <1>2, <1>3 DEF FetchSegment

\* Before it appends, an update changes the version in an INode and nothing else.
LEMMA UpdateBeginsStep ==
    ASSUME Typed, NEW t \in Threads,
           \/ Lookup(t, "update_lookup", "update_swap")
           \/ UpdateSwap(t) \/ UpdateConflict(t)
    PROVE  /\ UNCHANGED <<disk, fsize, regionVars, offset, index, mu, key, seg>>
           /\ OthersStay(t)
           /\ pc[t] \in {"update_lookup", "update_swap"}
           /\ pc'[t] \in {"update_swap", "update_append", "idle"}
           /\ Len(heap') = Len(heap)
           /\ \A n \in 1 .. Len(heap) : SameTarget(heap'[n], heap[n])
<1>1. CASE Lookup(t, "update_lookup", "update_swap")
  BY <1>1 DEF Lookup, Goto, OthersStay, Typed, CallsOK, indexVars, callVars, SameTarget
<1>2. CASE UpdateConflict(t)
  BY <1>2 DEF UpdateConflict, Goto, OthersStay, Typed, CallsOK, HistoryOK, indexVars,
              callVars, SameTarget
<1>3. CASE UpdateSwap(t)
  <2>1. ptr[t] \in 1 .. Len(heap)
    BY <1>3 DEF UpdateSwap, Typed, CallsOK, HeapOK, Holding, Dereferencing
  <2>2. /\ heap' = [heap EXCEPT ![ptr[t]] =
                       [heap[ptr[t]] EXCEPT !.mvcc = heap[ptr[t]].mvcc + 1]]
        /\ heap[ptr[t]] \in HeapObject /\ heap \in Seq(HeapObject)
    BY <1>3, <2>1 DEF UpdateSwap, Typed, HeapOK
  <2>3. /\ Len(heap') = Len(heap)
        /\ \A n \in 1 .. Len(heap) : SameTarget(heap'[n], heap[n])
    <3>1. Len(heap') = Len(heap)
      BY <2>1, <2>2
    <3>2. \A n \in 1 .. Len(heap) : n # ptr[t] => heap'[n] = heap[n]
      BY <2>1, <2>2
    <3>3. heap'[ptr[t]] = [heap[ptr[t]] EXCEPT !.mvcc = heap[ptr[t]].mvcc + 1]
      BY <2>1, <2>2
    <3>4. SameTarget(heap'[ptr[t]], heap[ptr[t]])
      BY <2>2, <3>3 DEF SameTarget, HeapObject
    <3> QED BY <3>1, <3>2, <3>4 DEF SameTarget
  <2> QED
    BY <1>3, <2>3 DEF UpdateSwap, Goto, OthersStay, Typed, CallsOK, HistoryOK, callVars
<1> QED BY <1>1, <1>2, <1>3

LEMMA QuietStep ==
    ASSUME Typed, NEW t \in Threads, Quiet(t)
    PROVE  /\ UNCHANGED <<disk, fsize, regionVars, offset, mu>>
           /\ OthersStay(t)
           /\ pc[t] \notin Busy /\ pc'[t] \notin Busy
           /\ Len(heap') = Len(heap)
           /\ \A n \in 1 .. Len(heap) : SameTarget(heap'[n], heap[n])
           /\ \A i \in Inums : index'[i] \in {0, index[i]}
<1>1. CASE Begins(t)
  BY <1>1, BeginsStep DEF Busy, Behind, Level, indexVars, SameTarget
<1>2. CASE FetchSegment(t)
  BY <1>2, FetchesStep DEF Busy, Behind, Level, InFetch, SameTarget
<1>3. CASE \/ Lookup(t, "update_lookup", "update_swap")
           \/ UpdateSwap(t) \/ UpdateConflict(t)
  BY <1>3, UpdateBeginsStep DEF Busy, Behind, Level
<1> QED BY <1>1, <1>2, <1>3 DEF Quiet

-----------------------------------------------------------------------------
(***************************************************************************)
(* The log is kept.                                                        *)
(***************************************************************************)

LEMMA QuietLogOK ==
    ASSUME Typed, LogOK, NEW t \in Threads, Quiet(t)
    PROVE  LogOK'
<1>1. /\ UNCHANGED <<disk, fsize, regionVars, offset, mu>>
      /\ OthersStay(t) /\ pc[t] \notin Busy /\ pc'[t] \notin Busy
  BY QuietStep
<1>2. RecordsOK' /\ RegionsFull'
  BY <1>1 DEF LogOK, RecordsOK, RegionsFull, regionVars
<1>3. OneBusy'
  BY <1>1 DEF LogOK, OffsetOK, OneBusy, OthersStay
<1>4. ASSUME NEW u \in Threads PROVE OffsetKnown(u)'
  <2>1. CASE u = t
    BY <1>1, <2>1 DEF OffsetKnown, Busy, Behind, Level, Unsettled
  <2>2. CASE u # t
    BY <1>1, <2>2 DEF LogOK, OffsetOK, OffsetKnown, OthersStay, regionVars
  <2> QED BY <2>1, <2>2
<1>5. (\A u \in Threads : pc'[u] # "publish") => regionID' = active'
  BY <1>1 DEF LogOK, OffsetOK, OthersStay, Busy, Level, regionVars
<1>6. (\A u \in Threads : pc'[u] \notin Busy) => offset' = fsize'[active']
  BY <1>1 DEF LogOK, OffsetOK, OthersStay, regionVars
<1> QED BY <1>2, <1>3, <1>4, <1>5, <1>6 DEF LogOK, OffsetOK

AppendLabels == {"put_append", "delete_append", "update_append"}

LEMMA AppendsStep ==
    ASSUME Typed, NEW t \in Threads, Appends(t)
    PROVE  /\ mu = NoThread
           /\ disk' = disk \cup {Record(active, fsize[active], seg[t])}
           /\ fsize' = [fsize EXCEPT ![active] = fsize[active] + Size(seg[t])]
           /\ UNCHANGED <<regionVars, offset, indexVars, key, seg, ptr, tmp, got>>
           /\ OthersStay(t)
           /\ pc[t] \in AppendLabels
           /\ pc'[t] = CASE pc[t] = "put_append" -> "put_index"
                         [] pc[t] = "delete_append" -> "delete_add"
                         [] pc[t] = "update_append" -> "update_offset"
<1>1. CASE PutAppend(t)
  BY <1>1 DEF PutAppend, AppendToActiveRegion, Goto, OthersStay, Typed, CallsOK,
              callVars, AppendLabels
<1>2. CASE LockedAppend(t, "delete_append", "delete_add")
  BY <1>2 DEF LockedAppend, AppendToActiveRegion, Goto, OthersStay, Typed, CallsOK,
              callVars, AppendLabels
<1>3. CASE LockedAppend(t, "update_append", "update_offset")
  BY <1>3 DEF LockedAppend, AppendToActiveRegion, Goto, OthersStay, Typed, CallsOK,
              callVars, AppendLabels
<1> QED BY <1>1, <1>2, <1>3 DEF Appends

\* Whoever appends finds nobody else between an append and its end.
LEMMA NobodyBusy ==
    ASSUME LockOK, Careful, mu = NoThread,
           NEW t \in Threads, pc[t] \in AppendLabels,
           NEW u \in Threads
    PROVE  pc[u] \notin Busy
<1>1. pc[t] \notin Busy
  BY DEF AppendLabels, Busy, Behind, Level
<1>2. pc[u] \notin Locked
  BY LFSAssumption DEF LockOK
<1>3. ASSUME u # t PROVE pc[u] \notin Busy
  <2>1. pc[t] \in InPut \cup InDelete \cup InUpdate
    BY DEF AppendLabels, InPut, InDelete, InUpdate
  <2>2. pc[u] \notin InDelete \cup InUpdate
    BY <1>3, <2>1 DEF Careful
  <2>3. Busy \subseteq Locked \cup InDelete \cup InUpdate
    BY DEF Busy, Behind, Level, Locked, InDelete, InUpdate
  <2> QED BY <1>2, <2>2, <2>3
<1> QED BY <1>1, <1>3

\* A new record comes after all the others.
LEMMA AppendIsLast ==
    ASSUME Typed, RecordsOK, NEW s \in Segment
    PROVE  LET new == Record(active, fsize[active], s)
           IN  /\ IsLast(new, disk \cup {new})
               /\ \A e \in disk : e.region = new.region => e.pos # new.pos
<1> DEFINE new == Record(active, fsize[active], s)
<1>1. /\ active \in RegionIds /\ fsize \in [RegionIds -> Nat]
      /\ \A e \in disk : /\ e.region \in Nat /\ e.pos \in Nat
                         /\ Size(e.seg) \in Nat /\ Size(e.seg) > 0
  BY SizeIsNat DEF Typed, FilesOK, Entry
<1>2. ASSUME NEW f \in disk
      PROVE  Before(f, new) /\ (f.region = new.region => f.pos # new.pos)
  <2>1. f.region \in 1 .. active /\ EndOf(f) <= fsize[f.region]
    BY DEF RecordsOK
  <2>2. CASE f.region < active
    BY <1>1, <2>2 DEF Before, Record, RegionIds
  <2>3. CASE f.region = active
    BY <1>1, <2>1, <2>3 DEF Before, Record, EndOf
  <2> QED BY <1>1, <2>1, <2>2, <2>3 DEF RegionIds
<1> QED BY <1>2 DEF IsLast

LEMMA AppendsLogOK ==
    ASSUME Typed, Careful, LogOK, NEW t \in Threads, Appends(t)
    PROVE  LogOK'
<1> DEFINE new == Record(active, fsize[active], seg[t])
<1>1. /\ seg[t] \in Segment /\ Size(seg[t]) \in Nat /\ Size(seg[t]) > 0
      /\ active \in RegionIds /\ fsize \in [RegionIds -> Nat]
      /\ \A e \in disk : /\ e \in Entry /\ e.region \in Nat /\ e.pos \in Nat
                         /\ Size(e.seg) \in Nat /\ Size(e.seg) > 0
  BY SizeIsNat DEF Typed, CallsOK, FilesOK, Entry
<1>2. /\ mu = NoThread /\ disk' = disk \cup {new}
      /\ fsize' = [fsize EXCEPT ![active] = fsize[active] + Size(seg[t])]
      /\ UNCHANGED <<regionID, active, regions, offset, seg, tmp>>
      /\ OthersStay(t) /\ pc[t] \in AppendLabels
      /\ pc'[t] \in {"put_index", "delete_add", "update_offset"}
  BY AppendsStep DEF regionVars, AppendLabels
<1>3. \A u \in Threads : pc[u] \notin Busy
  BY <1>2, NobodyBusy DEF Typed
<1>4. offset = fsize[active] /\ regionID = active
  BY <1>3 DEF LogOK, OffsetOK, Busy, Level
<1>5. /\ fsize'[active] = fsize[active] + Size(seg[t])
      /\ \A r \in RegionIds : r # active => fsize'[r] = fsize[r]
      /\ \A r \in RegionIds : fsize'[r] >= fsize[r]
  BY <1>1, <1>2
<1>6. /\ IsLast(new, disk')
      /\ \A e \in disk : e.region = new.region => e.pos # new.pos
  BY <1>1, <1>2, AppendIsLast DEF LogOK
<1>7. \A u \in Threads : u # t => pc'[u] \notin Busy
  BY <1>2, <1>3 DEF OthersStay
<1>8. \A u \in Threads : OffsetKnown(u)'
  <2> SUFFICES ASSUME NEW u \in Threads PROVE OffsetKnown(u)'
    OBVIOUS
  <2>1. CASE u = t
    BY <1>2, <1>4, <1>5, <1>6, <2>1
       DEF OffsetKnown, Behind, Level, Unsettled
  <2>2. CASE u # t
    BY <1>7, <2>2 DEF OffsetKnown, Busy, Behind, Level, Unsettled
  <2> QED BY <2>1, <2>2
<1>9. RecordsOK'
  <2>1. regions' = 1 .. active'
    BY <1>2 DEF LogOK, RecordsOK
  <2>2. ASSUME NEW e \in disk
        PROVE  e.region \in regions' /\ EndOf(e) <= fsize'[e.region]
    <3>1. /\ e.region \in regions /\ e.region \in RegionIds
          /\ EndOf(e) <= fsize[e.region]
      BY DEF LogOK, RecordsOK, Typed, FilesOK
    <3>2. EndOf(e) \in Nat /\ fsize[e.region] \in Nat /\ fsize'[e.region] \in Nat
      BY <1>1, <1>2, <3>1 DEF EndOf
    <3> QED BY <1>2, <1>5, <3>1, <3>2
  <2>3. new.region \in regions' /\ EndOf(new) <= fsize'[new.region]
    BY <1>1, <1>2, <1>5 DEF Record, EndOf, LogOK, RecordsOK, RegionIds
  <2>4. \A e, f \in disk' : e.region = f.region /\ e.pos = f.pos => e = f
    BY <1>2, <1>6 DEF LogOK, RecordsOK
  <2> QED BY <1>2, <2>1, <2>2, <2>3, <2>4 DEF RecordsOK
<1>10. RegionsFull'
  <2>1. ASSUME NEW r \in regions, r < active PROVE fsize'[r] >= RegionThreshold
    BY <1>5, <2>1 DEF LogOK, RegionsFull, Typed, FilesOK, RegionIds
  <2> QED BY <1>2, <2>1 DEF RegionsFull
<1>11. OneBusy' /\ pc'[t] \in Busy
  BY <1>2, <1>7 DEF OneBusy, Busy, Behind
<1> QED BY <1>2, <1>4, <1>8, <1>9, <1>10, <1>11 DEF LogOK, OffsetOK

\* The steps of a busy goroutine that leave the files.
LEMMA BusyStepLogOK ==
    ASSUME LogOK, NEW t \in Threads, pc[t] \in Busy \ {"publish"},
           UNCHANGED <<disk, fsize, regionVars>>, OthersStay(t),
           OffsetKnown(t)', pc'[t] # "publish",
           pc'[t] \in Busy \/ offset' = fsize[active]
    PROVE  LogOK'
<1>1. RecordsOK' /\ RegionsFull'
  BY DEF LogOK, RecordsOK, RegionsFull, regionVars
<1>2. \A u \in Threads : u # t => pc[u] \notin Busy /\ pc'[u] \notin Busy
  BY DEF LogOK, OffsetOK, OneBusy, OthersStay
<1>3. \A u \in Threads : OffsetKnown(u)'
  BY <1>2 DEF OffsetKnown, Busy, Behind, Level, Unsettled
<1>4. OneBusy'
  BY <1>2 DEF OneBusy
<1>5. regionID' = active'
  BY <1>2 DEF LogOK, OffsetOK, Busy, Level, regionVars
<1> QED BY <1>1, <1>3, <1>4, <1>5 DEF LogOK, OffsetOK, regionVars

LEMMA UpdateINodeStep ==
    ASSUME Typed, NEW t \in Threads, UpdateINode(t)
    PROVE  /\ UNCHANGED <<disk, fsize, regionVars, offset, index, mu, key, seg, ptr, got>>
           /\ OthersStay(t) /\ Len(heap') = Len(heap)
           /\ ptr[t] \in 1 .. Len(heap)
           /\ \A n \in 1 .. Len(heap) : n # ptr[t] => heap'[n] = heap[n]
           /\ \/ /\ pc[t] = "update_offset" /\ pc'[t] = "update_position"
                 /\ tmp'[t] = offset /\ heap' = heap
              \/ /\ pc[t] = "update_position" /\ pc'[t] = "update_times"
                 /\ heap'[ptr[t]] = [heap[ptr[t]] EXCEPT !.pos = tmp[t]]
              \/ /\ pc[t] = "update_times" /\ pc'[t] = "update_region_id"
                 /\ heap'[ptr[t]] = [heap[ptr[t]] EXCEPT !.created = seg[t].created,
                                                         !.expired = seg[t].expired]
              \/ /\ pc[t] = "update_region_id" /\ pc'[t] = "update_region"
                 /\ tmp'[t] = regionID /\ heap' = heap
              \/ /\ pc[t] = "update_region" /\ pc'[t] = "update_add"
                 /\ heap'[ptr[t]] = [heap[ptr[t]] EXCEPT !.region = tmp[t]]
<1>1. ptr[t] \in 1 .. Len(heap) /\ heap \in Seq(HeapObject)
  BY DEF UpdateINode, UpdateLoad, UpdateStore, Typed, CallsOK, HeapOK, Holding,
         Dereferencing
<1>2. ASSUME NEW from, NEW value, NEW to, UpdateLoad(t, from, value, to)
      PROVE  /\ UNCHANGED <<disk, fsize, regionVars, offset, index, mu, key, seg, ptr, got>>
             /\ OthersStay(t) /\ heap' = heap
             /\ pc[t] = from /\ pc'[t] = to /\ tmp'[t] = value
  BY <1>2 DEF UpdateLoad, Goto, OthersStay, Typed, CallsOK, indexVars, callVars
<1>3. ASSUME NEW from, NEW inode, NEW to, UpdateStore(t, from, inode, to)
      PROVE  /\ UNCHANGED <<disk, fsize, regionVars, offset, index, mu, key, seg, ptr, got>>
             /\ OthersStay(t) /\ Len(heap') = Len(heap)
             /\ \A n \in 1 .. Len(heap) : n # ptr[t] => heap'[n] = heap[n]
             /\ heap'[ptr[t]] = inode
             /\ pc[t] = from /\ pc'[t] = to
  <2>1. heap' = [heap EXCEPT ![ptr[t]] = inode]
    BY <1>3 DEF UpdateStore
  <2>2. /\ Len(heap') = Len(heap) /\ heap'[ptr[t]] = inode
        /\ \A n \in 1 .. Len(heap) : n # ptr[t] => heap'[n] = heap[n]
    BY <1>1, <2>1
  <2> QED
    BY <1>3, <2>2 DEF UpdateStore, Goto, OthersStay, Typed, CallsOK, callVars
<1> QED BY <1>1, <1>2, <1>3 DEF UpdateINode

LEMMA AddsStep ==
    ASSUME Typed, NEW t \in Threads, NEW from, NEW to, AddOffset(t, from, to)
    PROVE  /\ UNCHANGED <<disk, fsize, regionVars, indexVars, mu, key, seg, ptr, tmp, got>>
           /\ OthersStay(t) /\ offset' = offset + Size(seg[t])
           /\ pc[t] = from /\ pc'[t] = to
BY DEF AddOffset, Goto, OthersStay, Typed, CallsOK, callVars

LEMMA UpdateINodeLogOK ==
    ASSUME Typed, LogOK, NEW t \in Threads, UpdateINode(t)
    PROVE  LogOK'
<1>1. /\ OffsetKnown(t)
      /\ (\A u \in Threads : pc[u] # "publish") => regionID = active
  BY DEF LogOK, OffsetOK
<1>2. /\ UNCHANGED <<disk, fsize, regionVars, offset, seg>> /\ OthersStay(t)
      /\ \/ pc[t] = "update_offset" /\ pc'[t] = "update_position" /\ tmp'[t] = offset
         \/ pc[t] = "update_position" /\ pc'[t] = "update_times"
         \/ pc[t] = "update_times" /\ pc'[t] = "update_region_id"
         \/ /\ pc[t] = "update_region_id" /\ pc'[t] = "update_region"
            /\ tmp'[t] = regionID
         \/ pc[t] = "update_region" /\ pc'[t] = "update_add"
  BY UpdateINodeStep
<1>3. /\ pc[t] \in Busy \ {"publish"} /\ pc'[t] \in Busy \ {"publish"}
      /\ pc[t] \in Behind /\ pc'[t] \in Behind
  BY <1>2 DEF Busy, Behind
<1>4. regionID = active
  BY <1>1, <1>3 DEF LogOK, OffsetOK, OneBusy, Busy, Level
<1>5. /\ offset' + Size(seg'[t]) = fsize'[active']
      /\ pc[t] \in Unsettled /\ IsLast(Record(active', offset', seg'[t]), disk')
  <2>1. pc[t] \in Unsettled
    BY <1>2 DEF Unsettled
  <2>2. /\ offset + Size(seg[t]) = fsize[active]
        /\ IsLast(Record(active, offset, seg[t]), disk)
    BY <1>1, <1>3, <2>1 DEF OffsetKnown
  <2> QED BY <1>2, <2>1, <2>2 DEF regionVars
<1>6. pc'[t] \notin {"put_store", "rotate", "publish", "update_lock", "delete_index"}
  BY <1>2
<1>7. /\ pc'[t] = "update_position" => tmp'[t] = offset'
      /\ pc'[t] = "update_region" => tmp'[t] = active'
  BY <1>2, <1>4 DEF regionVars
<1>8. pc'[t] \notin Level
  BY <1>2 DEF Level
<1>9. OffsetKnown(t)'
  BY <1>5, <1>6, <1>7, <1>8 DEF OffsetKnown
<1> QED BY <1>2, <1>3, <1>9, BusyStepLogOK

\* A new region: its file first, then the map of regions.
LEMMA CreateFileLogOK ==
    ASSUME Typed, LogOK, NEW t \in Threads, CreateActiveRegionFile(t)
    PROVE  LogOK'
<1>1. /\ pc[t] = "rotate" /\ pc'[t] = "publish" /\ OthersStay(t)
      /\ regionID' = regionID + 1 /\ regionID + 1 \in RegionIds
      /\ fsize' = [fsize EXCEPT ![regionID + 1] = Header]
      /\ UNCHANGED <<disk, active, regions, offset, mu, seg, tmp>>
  <2>1. regionID + 1 \in RegionIds
    BY RegionsAssumption DEF CreateActiveRegionFile, Typed, FilesOK, RegionIds
  <2> QED
    BY <2>1 DEF CreateActiveRegionFile, Goto, OthersStay, Typed, CallsOK, callVars
<1>2. \A u \in Threads : u # t => pc[u] \notin Busy /\ pc'[u] \notin Busy
  BY <1>1 DEF LogOK, OffsetOK, OneBusy, OthersStay, Busy, Level
<1>3. regionID = active /\ OffsetKnown(t)
  BY <1>1, <1>2 DEF LogOK, OffsetOK, Busy, Level
<1>4. /\ active \in Nat /\ fsize'[active + 1] = Header
      /\ \A r \in 1 .. active : fsize'[r] = fsize[r]
      /\ active \in 1 .. active
  BY <1>1, <1>3 DEF Typed, FilesOK, RegionIds
<1>5. OffsetKnown(t)'
  BY <1>1, <1>3, <1>4 DEF OffsetKnown, Behind, Level, Unsettled
<1>6. \A u \in Threads : OffsetKnown(u)'
  BY <1>2, <1>5 DEF OffsetKnown, Busy, Behind, Level, Unsettled
<1>7. RecordsOK' /\ RegionsFull'
  <2>1. regions = 1 .. active BY DEF LogOK, RecordsOK
  <2> QED BY <1>1, <1>4, <2>1 DEF LogOK, RecordsOK, RegionsFull
<1>8. OneBusy' /\ pc'[t] \in Busy /\ pc'[t] = "publish"
  BY <1>1, <1>2 DEF OneBusy, Busy, Level
<1> QED BY <1>6, <1>7, <1>8 DEF LogOK, OffsetOK

LEMMA PublishLogOK ==
    ASSUME Typed, LogOK, NEW t \in Threads, PublishActiveRegion(t)
    PROVE  LogOK'
<1>1. /\ pc[t] = "publish" /\ pc'[t] = "idle" /\ OthersStay(t)
      /\ active' = regionID /\ offset' = Header /\ regions' = regions \cup {regionID}
      /\ UNCHANGED <<disk, fsize, regionID, seg, tmp>>
  BY DEF PublishActiveRegion, Goto, OthersStay, Typed, CallsOK, callVars
<1>2. /\ regionID = active + 1 /\ fsize[regionID] = Header
      /\ fsize[active] >= RegionThreshold
  BY <1>1 DEF LogOK, OffsetOK, OffsetKnown
<1>3. active \in Nat /\ active >= 1
  BY DEF Typed, FilesOK, RegionIds
<1>4. \A u \in Threads : pc'[u] \notin Busy
  BY <1>1 DEF LogOK, OffsetOK, OneBusy, OthersStay, Busy, Behind, Level
<1>5. \A u \in Threads : OffsetKnown(u)'
  BY <1>4 DEF OffsetKnown, Busy, Behind, Level, Unsettled
<1>6. RecordsOK'
  <2>1. regions' = 1 .. active'
    BY <1>1, <1>2, <1>3 DEF LogOK, RecordsOK
  <2> QED BY <1>1, <2>1 DEF LogOK, RecordsOK
<1>7. RegionsFull'
  <2>1. \A r \in regions' : r < active' => r \in 1 .. active
    BY <1>1, <1>2, <1>3 DEF LogOK, RecordsOK
  <2> QED BY <1>1, <1>2, <1>3, <2>1 DEF LogOK, RecordsOK, RegionsFull
<1>8. OneBusy'
  BY <1>4 DEF OneBusy
<1> QED BY <1>1, <1>2, <1>5, <1>6, <1>7, <1>8 DEF LogOK, OffsetOK

LEMMA GoesOnLogOK ==
    ASSUME Typed, LogOK, NEW t \in Threads, GoesOn(t)
    PROVE  LogOK'
<1>1. /\ OffsetKnown(t) /\ Size(seg[t]) \in Nat /\ offset \in Nat
      /\ tmp[t] \in Nat /\ fsize[active] \in Nat
  BY SizeIsNat DEF LogOK, OffsetOK, Typed, CallsOK, FilesOK
<1>2. CASE PutIndex(t)
  <2>1. /\ pc[t] = "put_index" /\ pc'[t] = "put_load" /\ OthersStay(t)
        /\ UNCHANGED <<disk, fsize, regionVars, offset, seg, tmp>>
    BY <1>2 DEF PutIndex, Goto, OthersStay, Typed, CallsOK, callVars
  <2>2. OffsetKnown(t)'
    BY <1>1, <2>1 DEF OffsetKnown, Behind, Level, Unsettled, regionVars
  <2> QED BY <2>1, <2>2, BusyStepLogOK DEF Busy, Behind
<1>3. CASE PutLoadOffset(t)
  <2>1. /\ pc[t] = "put_load" /\ pc'[t] = "put_store" /\ OthersStay(t)
        /\ tmp'[t] = offset
        /\ UNCHANGED <<disk, fsize, regionVars, offset, seg>>
    BY <1>3 DEF PutLoadOffset, Goto, OthersStay, Typed, CallsOK, callVars
  <2>2. OffsetKnown(t)'
    BY <1>1, <2>1 DEF OffsetKnown, Behind, Level, Unsettled, regionVars
  <2> QED BY <2>1, <2>2, BusyStepLogOK DEF Busy, Behind
<1>4. CASE PutStoreOffset(t)
  <2>1. /\ pc[t] = "put_store" /\ pc'[t] = "put_check" /\ OthersStay(t)
        /\ offset' = tmp[t] + Size(seg[t])
        /\ UNCHANGED <<disk, fsize, regionVars, seg, tmp>>
    BY <1>4 DEF PutStoreOffset, Goto, OthersStay, Typed, CallsOK, callVars
  <2>2. OffsetKnown(t)'
    BY <1>1, <2>1 DEF OffsetKnown, Behind, Level, Unsettled, regionVars
  <2> QED BY <2>1, <2>2, BusyStepLogOK DEF Busy, Behind, Level
<1>5. CASE PutCheck(t)
  <2>1. /\ pc[t] = "put_check" /\ OthersStay(t)
        /\ (pc'[t] = "rotate" /\ RegionFull(offset)) \/ pc'[t] = "idle"
        /\ UNCHANGED <<disk, fsize, regionVars, offset, seg, tmp>>
    BY <1>5 DEF PutCheck, Goto, OthersStay, Typed, CallsOK, callVars
  <2>2. offset = fsize[active] /\ OffsetKnown(t)'
    BY <1>1, <2>1 DEF OffsetKnown, Behind, Level, Unsettled, RegionFull, regionVars
  <2> QED BY <2>1, <2>2, BusyStepLogOK DEF Busy, Behind, Level
<1>6. CASE AddOffset(t, "delete_add", "delete_index")
  <2>1. /\ pc[t] = "delete_add" /\ pc'[t] = "delete_index" /\ OthersStay(t)
        /\ offset' = offset + Size(seg[t])
        /\ UNCHANGED <<disk, fsize, regionVars, seg, tmp>>
    BY <1>6, AddsStep
  <2>2. \E e \in disk : IsLast(e, disk) /\ e.seg = seg[t]
    BY <1>1, <2>1 DEF OffsetKnown, Unsettled, IsLast, Record
  <2>3. OffsetKnown(t)'
    BY <1>1, <2>1, <2>2 DEF OffsetKnown, Behind, Level, Unsettled, regionVars
  <2> QED BY <2>1, <2>3, BusyStepLogOK DEF Busy, Behind, Level
<1>7. CASE DeleteIndex(t, "delete_index")
  <2>1. /\ pc[t] = "delete_index" /\ pc'[t] = "idle" /\ OthersStay(t)
        /\ UNCHANGED <<disk, fsize, regionVars, offset, seg, tmp>>
    BY <1>7 DEF DeleteIndex, Goto, OthersStay, Typed, CallsOK, callVars
  <2>2. offset = fsize[active] /\ OffsetKnown(t)'
    BY <1>1, <2>1 DEF OffsetKnown, Behind, Level, Unsettled, regionVars
  <2> QED BY <2>1, <2>2, BusyStepLogOK DEF Busy, Behind, Level
<1>8. CASE UpdateINode(t) BY <1>8, UpdateINodeLogOK
<1>9. CASE AddOffset(t, "update_add", "update_check")
  <2>1. /\ pc[t] = "update_add" /\ pc'[t] = "update_check" /\ OthersStay(t)
        /\ offset' = offset + Size(seg[t])
        /\ UNCHANGED <<disk, fsize, regionVars, seg, tmp>>
    BY <1>9, AddsStep
  <2>2. OffsetKnown(t)'
    BY <1>1, <2>1 DEF OffsetKnown, Behind, Level, Unsettled, regionVars
  <2> QED BY <2>1, <2>2, BusyStepLogOK DEF Busy, Behind, Level
<1>10. CASE UpdateCheck(t)
  <2>1. /\ pc[t] = "update_check" /\ OthersStay(t)
        /\ (pc'[t] = "update_lock" /\ RegionFull(offset)) \/ pc'[t] = "idle"
        /\ UNCHANGED <<disk, fsize, regionVars, offset, seg, tmp>>
    BY <1>10 DEF UpdateCheck, Goto, OthersStay, Typed, CallsOK, callVars
  <2>2. offset = fsize[active] /\ OffsetKnown(t)'
    BY <1>1, <2>1 DEF OffsetKnown, Behind, Level, Unsettled, RegionFull, regionVars
  <2> QED BY <2>1, <2>2, BusyStepLogOK DEF Busy, Behind, Level
<1>11. CASE UpdateLock(t)
  <2>1. /\ pc[t] = "update_lock" /\ pc'[t] = "rotate" /\ OthersStay(t)
        /\ UNCHANGED <<disk, fsize, regionVars, offset, seg, tmp>>
    BY <1>11 DEF UpdateLock, Goto, OthersStay, Typed, CallsOK, callVars
  <2>2. OffsetKnown(t)'
    BY <1>1, <2>1 DEF OffsetKnown, Behind, Level, Unsettled, regionVars
  <2> QED BY <2>1, <2>2, BusyStepLogOK DEF Busy, Behind, Level
<1>12. CASE CreateActiveRegionFile(t) BY <1>12, CreateFileLogOK
<1>13. CASE PublishActiveRegion(t) BY <1>13, PublishLogOK
<1> QED
  BY <1>2, <1>3, <1>4, <1>5, <1>6, <1>7, <1>8, <1>9, <1>10, <1>11, <1>12, <1>13
     DEF GoesOn

LEMMA InitLogOK == Init => LogOK
<1> SUFFICES ASSUME Init PROVE LogOK
  OBVIOUS
<1>1. Header \in Nat /\ 1 \in RegionIds
  BY RegionsAssumption DEF RegionIds
<1>2. OffsetOK
  BY <1>1 DEF Init, OffsetOK, OneBusy, OffsetKnown, Busy, Behind, Level, Unsettled
<1>3. \A e \in disk : /\ e.region = 1 /\ EndOf(e) <= fsize[1]
                      /\ \A f \in disk : e = f
  <2> SUFFICES ASSUME NEW e \in disk
               PROVE  /\ e.region = 1 /\ EndOf(e) <= fsize[1]
                      /\ \A f \in disk : e = f
    OBVIOUS
  <2>1. PICK k \in Stored : e = Record(1, Header, NewSegment(k, FirstValue, 0, 1))
    BY DEF Init
  <2>2. (CHOOSE j \in Stored : TRUE) = k /\ \A j \in Stored : j = k
    BY LFSAssumption
  <2> DEFINE first == NewSegment(k, FirstValue, 0, 1)
  <2>3. fsize[1] = Header + Size(first)
    BY <1>1, <2>1, <2>2 DEF Init
  <2>4. first \in Segment
    BY LFSAssumption DEF NewSegment, Segment, Payloads
  <2>5. e.region = 1 /\ EndOf(e) = Header + Size(first)
    BY <2>1 DEF Record, EndOf
  <2>6. \A f \in disk : e = f
    BY <2>1, <2>2 DEF Init
  <2> QED BY <1>1, <2>3, <2>4, <2>5, <2>6, SizeIsNat
<1>4. active = 1 /\ regions = {1} /\ 1 .. 1 = {1}
  BY DEF Init
<1>5. RecordsOK
  BY <1>3, <1>4 DEF RecordsOK
<1>6. RegionsFull
  BY <1>4 DEF RegionsFull
<1> QED BY <1>2, <1>5, <1>6 DEF LogOK

LEMMA StutterLogOK == ASSUME LogOK, UNCHANGED vars PROVE LogOK'
BY DEF vars, regionVars, callVars, LogOK, OffsetOK, OneBusy, OffsetKnown, RecordsOK,
       RegionsFull

LEMMA NextLogOK ==
    ASSUME Faults = {}, Typed, Careful, LogOK, [Next]_vars
    PROVE  LogOK'
BY StepsThereAre, QuietLogOK, AppendsLogOK, GoesOnLogOK, StutterLogOK

-----------------------------------------------------------------------------
(***************************************************************************)
(* The entries are kept.                                                   *)
(***************************************************************************)

LEMMA LeadsToKept ==
    ASSUME NEW D, NEW E, D \subseteq E, NEW ids, NEW jds, ids \subseteq jds,
           NEW m, NEW n, SameTarget(n, m), NEW i, LeadsTo(D, ids, m, i)
    PROVE  LeadsTo(E, jds, n, i)
BY DEF LeadsTo, SameTarget

LEMMA PointersInHeap ==
    ASSUME Typed
    PROVE  /\ Len(heap) \in Nat
           /\ \A i \in Inums : index[i] # 0 => index[i] \in 1 .. Len(heap)
           /\ \A t \in Threads :
                 pc[t] \in Reading \cup Owning => ptr[t] \in 1 .. Len(heap)
BY DEF Typed, HeapOK, CallsOK, Reading, Owning, Torn, Holding, Dereferencing

\* What the goroutines besides t know of the heap holds on while files and
\* regions grow and the INodes they go through stay.
LEMMA OthersRead ==
    ASSUME Typed, EntriesOK, NEW t \in Threads, OthersStay(t),
           disk \subseteq disk', regions \subseteq regions',
           \A u \in Threads : u # t /\ pc[u] \in Reading =>
              SameTarget(heap'[ptr[u]], heap[ptr[u]])
    PROVE  \A u \in Threads : u # t =>
              /\ pc'[u] \in Reading =>
                    LeadsTo(disk', regions', heap'[ptr'[u]], InodeNum[key'[u]])
              /\ pc'[u] = "fetch_read" => tmp'[u] = heap'[ptr'[u]].region
<1> SUFFICES ASSUME NEW u \in Threads, u # t, pc[u] \in Reading
             PROVE  /\ LeadsTo(disk', regions', heap'[ptr[u]], InodeNum[key[u]])
                    /\ pc[u] = "fetch_read" => tmp[u] = heap'[ptr[u]].region
  BY DEF OthersStay, Reading
<1>1. LeadsTo(disk, regions, heap[ptr[u]], InodeNum[key[u]])
  BY DEF EntriesOK, ReadersLead
<1>2. pc[u] = "fetch_read" => tmp[u] = heap[ptr[u]].region
  BY DEF EntriesOK, ReadersLead
<1> QED BY <1>1, <1>2, LeadsToKept DEF SameTarget

LEMMA TornIsBusy == Torn \subseteq Busy /\ Torn \subseteq InUpdate /\ Owning \subseteq InUpdate
BY DEF Torn, Busy, Behind, InUpdate, Owning

LEMMA QuietEntriesOK ==
    ASSUME Typed, Written, Careful, EntriesOK, NEW t \in Threads, Quiet(t)
    PROVE  EntriesOK'
<1>1. /\ UNCHANGED <<disk, regions, offset>> /\ OthersStay(t)
      /\ pc[t] \notin Busy /\ pc'[t] \notin Busy
      /\ \A n \in 1 .. Len(heap) : SameTarget(heap'[n], heap[n])
      /\ \A i \in Inums : index'[i] # 0 => index'[i] = index[i]
  BY QuietStep DEF regionVars
<1>2. Rewritten' = Rewritten
  <2>1. \A u \in Threads : pc'[u] \in Torn <=> pc[u] \in Torn
    BY <1>1, TornIsBusy DEF OthersStay
  <2>2. \A u \in Threads : pc[u] \in Torn => key'[u] = key[u]
    BY <1>1, TornIsBusy DEF OthersStay
  <2> QED BY <2>1, <2>2 DEF Rewritten, Torn
<1>3. EntriesLead'
  <2> SUFFICES ASSUME NEW i \in Inums, index'[i] # 0, i \notin Rewritten
               PROVE  LeadsTo(disk', regions', heap'[index'[i]], i)
    BY <1>2 DEF EntriesLead
  <2>1. index'[i] = index[i] /\ index[i] \in 1 .. Len(heap)
    BY <1>1, PointersInHeap
  <2>2. LeadsTo(disk, regions, heap[index[i]], i)
    BY <2>1 DEF EntriesOK, EntriesLead
  <2>3. SameTarget(heap'[index[i]], heap[index[i]])
    BY <1>1, <2>1
  <2> QED BY <1>1, <2>1, <2>2, <2>3, LeadsToKept
<1>4. \A u \in Threads : u # t =>
         /\ pc'[u] \in Reading =>
               LeadsTo(disk', regions', heap'[ptr'[u]], InodeNum[key'[u]])
         /\ pc'[u] = "fetch_read" => tmp'[u] = heap'[ptr'[u]].region
  BY <1>1, PointersInHeap, OthersRead
<1>5. ASSUME pc'[t] \in Reading
      PROVE  /\ LeadsTo(disk', regions', heap'[ptr'[t]], InodeNum[key'[t]])
             /\ pc'[t] = "fetch_read" => tmp'[t] = heap'[ptr'[t]].region
             /\ \A i \in Inums : index'[i] # 0 /\ index'[i] = ptr'[t]
                   => i = InodeNum[key'[t]]
  <2>1. FetchSegment(t)
    BY <1>5, BeginsStep, UpdateBeginsStep DEF Quiet, Reading
  <2>2. UNCHANGED <<heap, key>>
    BY <2>1, FetchesStep
  <2>3. CASE Lookup(t, "fetch_lookup", "fetch_expired_at")
    <3> DEFINE o == InodeNum[key[t]]
    <3>1. /\ o \in Inums /\ ptr'[t] = index[o] /\ index[o] # 0
          /\ pc[t] = "fetch_lookup" /\ pc'[t] = "fetch_expired_at"
          /\ index' = index
      BY <1>5, <2>3, KeyHasInum
         DEF Lookup, Goto, Typed, CallsOK, Reading, indexVars
    <3>2. o \notin Rewritten
      <4> SUFFICES ASSUME NEW u \in Threads, pc[u] \in Torn, InodeNum[key[u]] = o
                   PROVE  FALSE
        BY DEF Rewritten, Torn
      <4>1. pc[u] \in InUpdate /\ pc[t] \in InFetch /\ u # t
        BY <3>1, TornIsBusy DEF InFetch, Torn
      <4> QED BY <4>1 DEF Careful
    <3>3. LeadsTo(disk, regions, heap[index[o]], o)
      BY <3>1, <3>2 DEF EntriesOK, EntriesLead
    <3>4. \A i \in Inums : index[i] # 0 /\ index[i] = index[o] => i = o
      BY <3>1 DEF Written, OneEntryEach
    <3> QED BY <1>1, <2>2, <3>1, <3>3, <3>4
  <2>4. CASE ~ Lookup(t, "fetch_lookup", "fetch_expired_at")
    <3>1. /\ pc[t] \in Reading /\ ptr'[t] = ptr[t]
          /\ pc'[t] = "fetch_read" => tmp'[t] = heap[ptr[t]].region
      BY <1>5, <2>1, <2>4, MovesOthersStay
         DEF FetchSegment, FetchExpiredAt, FetchExpiredAtZero, DeleteIndex, FetchRegion,
             FetchRead, FetchVersion, FetchStep, Typed, CallsOK, Reading
    <3>2. /\ LeadsTo(disk, regions, heap[ptr[t]], InodeNum[key[t]])
          /\ \A i \in Inums : index[i] # 0 /\ index[i] = ptr[t]
                => i = InodeNum[key[t]]
      BY <3>1 DEF EntriesOK, ReadersLead, ReadersOwn
    <3> QED BY <1>1, <2>2, <3>1, <3>2
  <2> QED BY <2>3, <2>4
<1>6. ReadersLead'
  BY <1>4, <1>5 DEF ReadersLead, Reading
<1>7. ReadersOwn'
  <2> SUFFICES ASSUME NEW u \in Threads, NEW i \in Inums, u # t,
                      pc'[u] \in Reading, index'[i] # 0, index'[i] = ptr'[u]
               PROVE  i = InodeNum[key'[u]]
    BY <1>5 DEF ReadersOwn
  <2> QED BY <1>1 DEF EntriesOK, ReadersOwn, OthersStay
<1>8. UpdatersOwn'
  <2> SUFFICES ASSUME NEW u \in Threads, pc'[u] \in Owning
               PROVE  /\ ptr'[u] = index'[InodeNum[key'[u]]]
                      /\ seg'[u].key = key'[u] /\ ~ IsTombstone(seg'[u])
                      /\ pc'[u] \in Torn => heap'[ptr'[u]].pos = offset'
                      /\ pc'[u] \in Torn \ {"update_times"} =>
                            /\ heap'[ptr'[u]].created = seg'[u].created
                            /\ heap'[ptr'[u]].expired = seg'[u].expired
    BY DEF UpdatersOwn
  <2>1. CASE u # t
    <3> DEFINE o == InodeNum[key[u]]
    <3>1. /\ pc[u] \in Owning /\ pc'[u] = pc[u] /\ key'[u] = key[u]
          /\ seg'[u] = seg[u] /\ ptr'[u] = ptr[u]
          /\ SameTarget(heap'[ptr[u]], heap[ptr[u]]) /\ o \in Inums
      BY <1>1, <2>1, PointersInHeap, KeyHasInum DEF OthersStay, Typed, CallsOK
    <3>2. index'[o] = index[o]
      <4>1. CASE Begins(t)
        BY <4>1, BeginsStep DEF indexVars
      <4>2. CASE FetchSegment(t)
        BY <2>1, <3>1, <4>2, FetchesStep, TornIsBusy DEF Careful
      <4>3. CASE \/ Lookup(t, "update_lookup", "update_swap")
                 \/ UpdateSwap(t) \/ UpdateConflict(t)
        BY <4>3, UpdateBeginsStep
      <4> QED BY <4>1, <4>2, <4>3 DEF Quiet
    <3> QED BY <1>1, <3>1, <3>2 DEF EntriesOK, UpdatersOwn, SameTarget
  <2>2. CASE u = t
    <3>1. pc'[t] \notin Torn
      BY <1>1, TornIsBusy
    <3>2. \/ Lookup(t, "update_lookup", "update_swap")
          \/ UpdateSwap(t) \/ UpdateConflict(t)
      BY <2>2, BeginsStep, FetchesStep DEF Quiet, Owning, Torn, InFetch
    <3>3. /\ UNCHANGED <<index, key, seg>> /\ pc'[t] # "idle"
          /\ pc[t] \in Writing
      BY <2>2, <3>2, UpdateBeginsStep DEF Owning, Torn, Writing, Updating
    <3>4. ptr'[t] = index[InodeNum[key[t]]]
      <4>1. CASE Lookup(t, "update_lookup", "update_swap")
        BY <4>1 DEF Lookup, Typed, CallsOK
      <4>2. CASE UpdateSwap(t) \/ UpdateConflict(t)
        BY <4>2 DEF UpdateSwap, UpdateConflict, EntriesOK, UpdatersOwn, Owning
      <4> QED BY <3>2, <4>1, <4>2
    <3>5. seg[t].key = key[t] /\ ~ IsTombstone(seg[t])
      BY <3>3 DEF Written, CarriesRecord
    <3> QED BY <2>2, <3>1, <3>3, <3>4, <3>5
  <2> QED BY <2>1, <2>2
<1> QED BY <1>3, <1>6, <1>7, <1>8 DEF EntriesOK

\* A step that leaves the index and the INodes, by a goroutine that is not about
\* to read and not rewriting.
LEMMA SameIndexEntriesOK ==
    ASSUME Typed, OneBusy, EntriesOK, NEW t \in Threads, OthersStay(t),
           UNCHANGED <<index, heap, key, seg, ptr>>,
           disk \subseteq disk', regions \subseteq regions',
           pc'[t] \notin Reading \cup Torn, pc[t] \notin Torn,
           pc'[t] \in Owning => pc[t] \in Owning,
           offset' = offset \/ pc[t] \in Busy
    PROVE  EntriesOK'
<1>1. \A u \in Threads : u # t => pc'[u] = pc[u]
  BY DEF OthersStay
<1>2. Rewritten' = Rewritten
  <2>1. \A u \in Threads : pc'[u] \in Torn <=> pc[u] \in Torn
    BY <1>1
  <2> QED BY <2>1 DEF Rewritten, Torn
<1>3. EntriesLead'
  BY <1>2, LeadsToKept DEF EntriesOK, EntriesLead, SameTarget
<1>4. ReadersLead'
  <2>1. \A u \in Threads : u # t =>
           /\ pc'[u] \in Reading =>
                 LeadsTo(disk', regions', heap'[ptr'[u]], InodeNum[key'[u]])
           /\ pc'[u] = "fetch_read" => tmp'[u] = heap'[ptr'[u]].region
    BY OthersRead DEF SameTarget
  <2> QED BY <2>1 DEF ReadersLead, Reading
<1>5. ReadersOwn'
  BY <1>1 DEF EntriesOK, ReadersOwn
<1>6. UpdatersOwn'
  <2>1. \A u \in Threads : u # t /\ pc[u] \in Torn => offset' = offset
    BY TornIsBusy DEF OneBusy
  <2> QED BY <1>1, <2>1 DEF EntriesOK, UpdatersOwn
<1> QED BY <1>3, <1>4, <1>5, <1>6 DEF EntriesOK

LEMMA AppendsEntriesOK ==
    ASSUME Typed, LogOK, EntriesOK, NEW t \in Threads, Appends(t)
    PROVE  EntriesOK'
<1>1. /\ UNCHANGED <<regions, offset, index, heap, key, seg, ptr>>
      /\ disk \subseteq disk' /\ OthersStay(t)
  BY AppendsStep DEF regionVars, indexVars
<1>2. \/ pc[t] = "put_append" /\ pc'[t] = "put_index"
      \/ pc[t] = "delete_append" /\ pc'[t] = "delete_add"
      \/ pc[t] = "update_append" /\ pc'[t] = "update_offset"
  BY AppendsStep DEF AppendLabels
<1>3. /\ pc'[t] \notin Reading \cup Torn /\ pc[t] \notin Torn
      /\ pc'[t] \in Owning => pc[t] \in Owning
  BY <1>2 DEF Reading, Torn, Owning
<1> QED BY <1>1, <1>3, SameIndexEntriesOK DEF LogOK, OffsetOK

\* The steps in which a busy goroutine touches neither the index nor an INode.
GoesOnAside(t) ==
    \/ PutLoadOffset(t) \/ PutStoreOffset(t) \/ PutCheck(t)
    \/ AddOffset(t, "delete_add", "delete_index")
    \/ AddOffset(t, "update_add", "update_check")
    \/ UpdateCheck(t) \/ UpdateLock(t)
    \/ CreateActiveRegionFile(t) \/ PublishActiveRegion(t)

LEMMA AsideStep ==
    ASSUME Typed, NEW t \in Threads, GoesOnAside(t)
    PROVE  /\ UNCHANGED <<disk, index, heap, key, seg, ptr, got>>
           /\ regions \subseteq regions' /\ OthersStay(t)
           /\ pc[t] \in {"put_load", "put_store", "put_check", "delete_add",
                         "update_add", "update_check", "update_lock", "rotate",
                         "publish"}
           /\ pc'[t] \in {"put_store", "put_check", "delete_index", "update_check",
                          "update_lock", "rotate", "publish", "idle"}
           /\ pc'[t] = "delete_index" <=> pc[t] = "delete_add"
<1>1. CASE PutLoadOffset(t)
  BY <1>1 DEF PutLoadOffset, Goto, OthersStay, Typed, CallsOK, indexVars, regionVars,
              callVars
<1>2. CASE PutStoreOffset(t)
  BY <1>2 DEF PutStoreOffset, Goto, OthersStay, Typed, CallsOK, indexVars, regionVars,
              callVars
<1>3. CASE PutCheck(t)
  BY <1>3 DEF PutCheck, Goto, OthersStay, Typed, CallsOK, indexVars, regionVars, callVars
<1>4. CASE \/ AddOffset(t, "delete_add", "delete_index")
           \/ AddOffset(t, "update_add", "update_check")
  BY <1>4, AddsStep DEF indexVars, regionVars
<1>5. CASE UpdateCheck(t) \/ UpdateLock(t)
  BY <1>5 DEF UpdateCheck, UpdateLock, Goto, OthersStay, Typed, CallsOK, indexVars,
              regionVars, callVars
<1>6. CASE CreateActiveRegionFile(t)
  BY <1>6 DEF CreateActiveRegionFile, Goto, OthersStay, Typed, CallsOK, indexVars,
              callVars
<1>7. CASE PublishActiveRegion(t)
  BY <1>7 DEF PublishActiveRegion, Goto, OthersStay, Typed, CallsOK, indexVars, callVars
<1> QED BY <1>1, <1>2, <1>3, <1>4, <1>5, <1>6, <1>7 DEF GoesOnAside

LEMMA AsideEntriesOK ==
    ASSUME Typed, LogOK, EntriesOK, NEW t \in Threads, GoesOnAside(t)
    PROVE  EntriesOK'
<1>1. /\ pc[t] \in Busy \ Torn
      /\ pc'[t] \notin Reading \cup Torn \cup Owning
  BY AsideStep DEF Busy, Behind, Level, Torn, Reading, Owning
<1> QED BY <1>1, AsideStep, SameIndexEntriesOK DEF LogOK, OffsetOK

\* While a put or a delete is under way there is no update.
LEMMA NoUpdateBeside ==
    ASSUME Careful, NEW t \in Threads, pc[t] \in InPut \cup InDelete,
           NEW u \in Threads, u # t
    PROVE  pc[u] \notin InUpdate
BY DEF Careful

LEMMA PutIndexStep ==
    ASSUME Typed, LogOK, NEW t \in Threads, PutIndex(t)
    PROVE  /\ UNCHANGED <<disk, fsize, regionVars, offset, mu, key, seg, ptr, tmp, got>>
           /\ OthersStay(t) /\ pc[t] = "put_index" /\ pc'[t] = "put_load"
           /\ \A i \in Inums : index'[i] = IF i = InodeNum[key[t]]
                                           THEN Len(heap) + 1 ELSE index[i]
           /\ Len(heap') = Len(heap) + 1
           /\ \A n \in 1 .. Len(heap) : heap'[n] = heap[n]
           /\ heap'[Len(heap) + 1] = HeapINode(active, offset, seg[t])
           /\ IsLast(Record(active, offset, seg[t]), disk)
           /\ active \in regions
<1>1. /\ UNCHANGED <<disk, fsize, regionVars, offset, mu, key, seg, ptr, tmp, got>>
      /\ OthersStay(t) /\ pc[t] = "put_index" /\ pc'[t] = "put_load"
  BY DEF PutIndex, Goto, OthersStay, Typed, CallsOK, callVars
<1>2. regionID = active
  BY <1>1 DEF LogOK, OffsetOK, OneBusy, Busy, Behind, Level
<1>3. /\ Len(heap') = Len(heap) + 1
      /\ \A n \in 1 .. Len(heap) : heap'[n] = heap[n]
      /\ heap'[Len(heap) + 1] = HeapINode(active, offset, seg[t])
  BY <1>2 DEF PutIndex, Typed, HeapOK
<1>4. \A i \in Inums : index'[i] = IF i = InodeNum[key[t]]
                                   THEN Len(heap) + 1 ELSE index[i]
  BY DEF PutIndex, Typed, HeapOK
<1>5. IsLast(Record(active, offset, seg[t]), disk)
  BY <1>1 DEF LogOK, OffsetOK, OffsetKnown, Unsettled
<1>6. active \in regions
  BY DEF LogOK, RecordsOK, Typed, FilesOK, RegionIds
<1> QED BY <1>1, <1>3, <1>4, <1>5, <1>6

LEMMA PutIndexEntriesOK ==
    ASSUME Typed, Written, Careful, LogOK, EntriesOK, NEW t \in Threads, PutIndex(t)
    PROVE  EntriesOK'
<1> DEFINE o == InodeNum[key[t]]
           new == Len(heap) + 1
           r == Record(active, offset, seg[t])
<1>1. /\ UNCHANGED <<disk, regions, offset, key, seg, ptr, tmp>> /\ OthersStay(t)
      /\ pc[t] = "put_index" /\ pc'[t] = "put_load"
      /\ \A i \in Inums : index'[i] = IF i = o THEN new ELSE index[i]
      /\ \A n \in 1 .. Len(heap) : heap'[n] = heap[n]
      /\ heap'[new] = HeapINode(active, offset, seg[t])
      /\ r \in disk /\ active \in regions
  BY PutIndexStep DEF IsLast, regionVars
<1>2. seg[t].key = key[t] /\ ~ IsTombstone(seg[t])
  BY <1>1 DEF Written, CarriesRecord, Writing
<1>3. LeadsTo(disk', regions', heap'[new], o)
  BY <1>1, <1>2 DEF LeadsTo, HeapINode, Record
<1>4. /\ Len(heap) \in Nat
      /\ \A i \in Inums : index[i] # 0 => index[i] \in 1 .. Len(heap)
      /\ \A u \in Threads : pc[u] \in Reading => ptr[u] \in 1 .. Len(heap)
  BY PointersInHeap
<1>5. new \notin 1 .. Len(heap)
  BY <1>4
<1>6. \A u \in Threads : pc'[u] \notin Owning /\ pc[u] \notin Owning
  BY <1>1, NoUpdateBeside, TornIsBusy DEF OthersStay, InPut, Owning, Torn
<1> HIDE DEF o, new, r
<1>7. EntriesLead'
  <2>1. Rewritten = {}
    BY <1>6 DEF Rewritten, Owning, Torn
  <2> SUFFICES ASSUME NEW i \in Inums, index'[i] # 0
               PROVE  LeadsTo(disk', regions', heap'[index'[i]], i)
    BY DEF EntriesLead
  <2>2. CASE i = o BY <1>1, <1>3, <2>2
  <2>3. CASE i # o
    BY <1>1, <1>4, <2>1, <2>3 DEF EntriesOK, EntriesLead
  <2> QED BY <2>2, <2>3
<1>8. ReadersLead'
  <2>1. \A u \in Threads : u # t =>
           /\ pc'[u] \in Reading =>
                 LeadsTo(disk', regions', heap'[ptr'[u]], InodeNum[key'[u]])
           /\ pc'[u] = "fetch_read" => tmp'[u] = heap'[ptr'[u]].region
    BY <1>1, <1>4, OthersRead DEF SameTarget
  <2> QED BY <1>1, <2>1 DEF ReadersLead, Reading
<1>9. ReadersOwn'
  <2> SUFFICES ASSUME NEW u \in Threads, NEW i \in Inums, pc'[u] \in Reading,
                      index'[i] # 0, index'[i] = ptr'[u]
               PROVE  i = InodeNum[key'[u]]
    BY DEF ReadersOwn
  <2>1. u # t /\ pc[u] \in Reading
    BY <1>1 DEF Reading, OthersStay
  <2>2. i # o
    BY <1>1, <1>4, <1>5, <2>1
  <2> QED BY <1>1, <2>1, <2>2 DEF EntriesOK, ReadersOwn
<1>10. UpdatersOwn'
  BY <1>6 DEF UpdatersOwn
<1> QED BY <1>7, <1>8, <1>9, <1>10 DEF EntriesOK

LEMMA DeleteStep ==
    ASSUME Typed, NEW t \in Threads, DeleteIndex(t, "delete_index")
    PROVE  /\ UNCHANGED <<disk, fsize, regionVars, offset, heap, mu, key, seg, ptr,
                          tmp, got>>
           /\ OthersStay(t) /\ pc[t] = "delete_index" /\ pc'[t] = "idle"
           /\ \A i \in Inums : index'[i] = IF i = InodeNum[key[t]] THEN 0 ELSE index[i]
BY DEF DeleteIndex, Goto, OthersStay, Typed, CallsOK, HeapOK, callVars

LEMMA DeleteIndexEntriesOK ==
    ASSUME Typed, Careful, EntriesOK, NEW t \in Threads, DeleteIndex(t, "delete_index")
    PROVE  EntriesOK'
<1>1. /\ UNCHANGED <<disk, regions, offset, heap, key, seg, ptr, tmp>> /\ OthersStay(t)
      /\ pc[t] = "delete_index" /\ pc'[t] = "idle"
      /\ \A i \in Inums : index'[i] # 0 => index'[i] = index[i]
  BY DeleteStep DEF regionVars
<1>2. \A u \in Threads : pc'[u] \notin Owning /\ pc[u] \notin Owning
  BY <1>1, NoUpdateBeside, TornIsBusy DEF OthersStay, InDelete, Owning, Torn
<1>3. EntriesLead'
  <2>1. Rewritten = {}
    BY <1>2 DEF Rewritten, Owning, Torn
  <2> QED BY <1>1, <2>1 DEF EntriesOK, EntriesLead
<1>4. ReadersLead'
  BY <1>1 DEF EntriesOK, ReadersLead, OthersStay, Reading
<1>5. ReadersOwn'
  BY <1>1 DEF EntriesOK, ReadersOwn, OthersStay, Reading
<1>6. UpdatersOwn'
  BY <1>2 DEF UpdatersOwn
<1> QED BY <1>3, <1>4, <1>5, <1>6 DEF EntriesOK

\* The INode an update changes is the entry of its own inode number, and the
\* one of no other entry and of no fetch.
LEMMA UpdateIsAlone ==
    ASSUME Typed, Written, Careful, LogOK, EntriesOK,
           NEW t \in Threads, pc[t] \in Owning
    PROVE  /\ InodeNum[key[t]] \in Inums /\ ptr[t] # 0
           /\ ptr[t] = index[InodeNum[key[t]]]
           /\ \A i \in Inums : i # InodeNum[key[t]] => index[i] # ptr[t]
           /\ \A u \in Threads : pc[u] \in Reading => ptr[u] # ptr[t]
           /\ \A u \in Threads : u # t => pc[u] \notin Owning
<1> DEFINE o == InodeNum[key[t]]
<1>1. o \in Inums /\ ptr[t] # 0 /\ ptr[t] = index[o]
  BY KeyHasInum, PointersInHeap DEF Typed, CallsOK, EntriesOK, UpdatersOwn
<1>2. \A i \in Inums : i # o => index[i] # ptr[t]
  BY <1>1 DEF Written, OneEntryEach
<1>3. ASSUME NEW u \in Threads, pc[u] \in Reading PROVE ptr[u] # ptr[t]
  <2>1. u # t /\ pc[u] \in InFetch /\ pc[t] \in InUpdate
    BY <1>3, TornIsBusy DEF Reading, Owning, Torn, InFetch
  <2>2. InodeNum[key[u]] # o
    BY <2>1 DEF Careful
  <2> QED BY <1>1, <1>3, <2>2 DEF EntriesOK, ReadersOwn
<1>4. \A u \in Threads : u # t => pc[u] \notin Owning
  BY TornIsBusy DEF Careful
<1> QED BY <1>1, <1>2, <1>3, <1>4

LEMMA UpdateINodeEntriesOK ==
    ASSUME Typed, Written, Careful, LogOK, EntriesOK,
           NEW t \in Threads, UpdateINode(t)
    PROVE  EntriesOK'
<1> DEFINE o == InodeNum[key[t]]
           r == Record(active, offset, seg[t])
<1>1. /\ UNCHANGED <<disk, regions, active, regionID, offset, index, key, seg, ptr>>
      /\ OthersStay(t) /\ ptr[t] \in 1 .. Len(heap)
      /\ \A n \in 1 .. Len(heap) : n # ptr[t] => heap'[n] = heap[n]
  BY UpdateINodeStep DEF regionVars
<1>2. \/ /\ pc[t] = "update_offset" /\ pc'[t] = "update_position"
         /\ heap' = heap
      \/ /\ pc[t] = "update_position" /\ pc'[t] = "update_times"
         /\ heap'[ptr[t]] = [heap[ptr[t]] EXCEPT !.pos = tmp[t]]
      \/ /\ pc[t] = "update_times" /\ pc'[t] = "update_region_id"
         /\ heap'[ptr[t]] = [heap[ptr[t]] EXCEPT !.created = seg[t].created,
                                                 !.expired = seg[t].expired]
      \/ /\ pc[t] = "update_region_id" /\ pc'[t] = "update_region"
         /\ heap' = heap
      \/ /\ pc[t] = "update_region" /\ pc'[t] = "update_add"
         /\ heap'[ptr[t]] = [heap[ptr[t]] EXCEPT !.region = tmp[t]]
  BY UpdateINodeStep
<1>3. pc[t] \in Owning /\ pc[t] \in Busy /\ pc[t] \in Unsettled
  BY <1>2 DEF Owning, Torn, Busy, Behind, Unsettled
<1>4. /\ o \in Inums /\ ptr[t] = index[o]
      /\ \A i \in Inums : i # o => index[i] # ptr[t]
      /\ \A u \in Threads : pc[u] \in Reading => ptr[u] # ptr[t]
      /\ \A u \in Threads : u # t => pc[u] \notin Owning
  BY <1>3, UpdateIsAlone
<1>5. /\ r \in disk /\ active \in regions
      /\ pc[t] = "update_position" => tmp[t] = offset
      /\ pc[t] = "update_region" => tmp[t] = active
  BY <1>3 DEF LogOK, OffsetOK, OffsetKnown, IsLast, RecordsOK, Typed, FilesOK, RegionIds
<1>6. /\ heap[ptr[t]] \in HeapObject
      /\ \A i \in Inums : index[i] # 0 => index[i] \in 1 .. Len(heap)
      /\ \A u \in Threads : pc[u] \in Reading => ptr[u] \in 1 .. Len(heap)
  BY <1>1, PointersInHeap DEF Typed, HeapOK
<1>7. /\ seg[t].key = key[t] /\ ~ IsTombstone(seg[t])
      /\ pc[t] \in Torn => heap[ptr[t]].pos = offset
      /\ pc[t] \in Torn \ {"update_times"} =>
            /\ heap[ptr[t]].created = seg[t].created
            /\ heap[ptr[t]].expired = seg[t].expired
  BY <1>3 DEF EntriesOK, UpdatersOwn
<1>8. /\ pc'[t] \in Torn => heap'[ptr[t]].pos = offset
      /\ pc'[t] \in Torn \ {"update_times"} =>
            /\ heap'[ptr[t]].created = seg[t].created
            /\ heap'[ptr[t]].expired = seg[t].expired
      /\ pc'[t] = "update_add" => heap'[ptr[t]].region = active
                                  /\ heap'[ptr[t]].pos = offset
                                  /\ heap'[ptr[t]].created = seg[t].created
                                  /\ heap'[ptr[t]].expired = seg[t].expired
  BY <1>2, <1>5, <1>6, <1>7 DEF Torn, HeapObject
<1>9. Rewritten' = IF pc'[t] \in Torn THEN {o} ELSE {}
  BY <1>1, <1>4 DEF Rewritten, OthersStay, Owning, Torn
<1>10. Rewritten = IF pc[t] \in Torn THEN {o} ELSE {}
  BY <1>4 DEF Rewritten, Owning, Torn
<1>11. ASSUME pc'[t] = "update_add" PROVE LeadsTo(disk', regions', heap'[ptr[t]], o)
  BY <1>1, <1>5, <1>7, <1>8, <1>11 DEF LeadsTo, Record
<1> HIDE DEF o, r
<1>12. EntriesLead'
  <2> SUFFICES ASSUME NEW i \in Inums, index[i] # 0, i \notin Rewritten'
               PROVE  LeadsTo(disk, regions, heap'[index[i]], i)
    BY <1>1 DEF EntriesLead
  <2>1. CASE i # o
    BY <1>1, <1>4, <1>6, <1>10, <2>1 DEF EntriesOK, EntriesLead
  <2>2. CASE i = o
    <3>1. pc'[t] \notin Torn BY <1>9, <2>2
    <3>2. pc'[t] = "update_add" \/ (pc[t] = "update_offset" /\ heap' = heap)
      BY <1>2, <3>1 DEF Torn
    <3>3. CASE pc'[t] = "update_add" BY <1>1, <1>4, <1>11, <2>2, <3>3
    <3>4. CASE pc[t] = "update_offset" /\ heap' = heap
      BY <1>10, <2>2, <3>4 DEF EntriesOK, EntriesLead, Torn
    <3> QED BY <3>2, <3>3, <3>4
  <2> QED BY <2>1, <2>2
<1>13. pc'[t] \notin Reading
  BY <1>2 DEF Reading
<1>14. ReadersLead'
  <2>1. \A u \in Threads : u # t =>
           /\ pc'[u] \in Reading =>
                 LeadsTo(disk', regions', heap'[ptr'[u]], InodeNum[key'[u]])
           /\ pc'[u] = "fetch_read" => tmp'[u] = heap'[ptr'[u]].region
    BY <1>1, <1>4, <1>6, OthersRead DEF SameTarget
  <2> QED BY <1>13, <2>1 DEF ReadersLead, Reading
<1>15. ReadersOwn'
  BY <1>1, <1>13 DEF EntriesOK, ReadersOwn, OthersStay
<1>16. UpdatersOwn'
  <2>1. \A u \in Threads : u # t => pc'[u] \notin Owning
    BY <1>1, <1>4 DEF OthersStay
  <2> QED BY <1>1, <1>4, <1>7, <1>8, <2>1 DEF UpdatersOwn, o
<1> QED BY <1>12, <1>14, <1>15, <1>16 DEF EntriesOK

LEMMA InitEntriesOK == Init => EntriesOK
<1> SUFFICES ASSUME Init PROVE EntriesOK
  OBVIOUS
<1>1. \A t \in Threads : pc[t] \notin Reading \cup Owning
  BY DEF Init, Reading, Owning, Torn
<1>2. ASSUME NEW i \in Inums, index[i] # 0
      PROVE  LeadsTo(disk, regions, heap[index[i]], i)
  <2>1. index[i] = 1 /\ \E k \in Stored : InodeNum[k] = i
    BY <1>2 DEF Init
  <2>2. PICK k \in Stored : InodeNum[k] = i
    BY <2>1
  <2>3. (CHOOSE j \in Stored : TRUE) = k
    BY <2>2, LFSAssumption
  <2> DEFINE first == NewSegment(k, FirstValue, 0, 1)
  <2>4. Record(1, Header, first) \in disk /\ regions = {1}
    BY <2>2 DEF Init
  <2>5. heap = <<HeapINode(1, Header, first)>>
    BY <2>2, <2>3 DEF Init
  <2>6. first.key = k /\ ~ IsTombstone(first)
    BY RegionsAssumption, LFSAssumption DEF NewSegment, IsTombstone
  <2> HIDE DEF first
  <2>7. heap[index[i]] = HeapINode(1, Header, first)
    BY <2>1, <2>5
  <2> QED BY <2>2, <2>4, <2>6, <2>7 DEF LeadsTo, HeapINode, Record
<1> QED
  BY <1>1, <1>2 DEF EntriesOK, EntriesLead, ReadersLead, ReadersOwn, UpdatersOwn,
                    Reading

LEMMA StutterEntriesOK == ASSUME EntriesOK, UNCHANGED vars PROVE EntriesOK'
BY DEF vars, regionVars, indexVars, callVars, EntriesOK, EntriesLead, ReadersLead,
       ReadersOwn, UpdatersOwn, Rewritten

LEMMA NextEntriesOK ==
    ASSUME Faults = {}, Typed, Written, Careful, LogOK, EntriesOK, [Next]_vars
    PROVE  EntriesOK'
<1>1. ASSUME NEW t \in Threads, GoesOn(t) PROVE EntriesOK'
  BY <1>1, PutIndexEntriesOK, DeleteIndexEntriesOK, UpdateINodeEntriesOK,
     AsideEntriesOK DEF GoesOn, GoesOnAside
<1> QED
  BY <1>1, StepsThereAre, QuietEntriesOK, AppendsEntriesOK, StutterEntriesOK

-----------------------------------------------------------------------------
(***************************************************************************)
(* What careful clients get of a disk that refuses nothing.                *)
(***************************************************************************)

LEMMA InitCareful == Init => Careful
BY DEF Init, Careful, InDelete, InUpdate

LEMMA AlwaysCarefulOK == ASSUME Faults = {} PROVE CarefulSpec => []CarefulOK
<1>1. Init => CarefulOK
  BY InitTyped, InitWritten, InitCareful, InitLogOK, InitEntriesOK DEF CarefulOK
<1>2. CarefulOK /\ [Next /\ Careful']_vars => CarefulOK'
  <2> SUFFICES ASSUME CarefulOK, [Next /\ Careful']_vars PROVE CarefulOK'
    OBVIOUS
  <2>1. [Next]_vars
    OBVIOUS
  <2>2. Careful'
    <3>1. CASE Next /\ Careful' BY <3>1
    <3>2. CASE UNCHANGED vars
      BY <3>2 DEF CarefulOK, Careful, vars, callVars
    <3> QED BY <3>1, <3>2
  <2> QED
    BY <2>1, <2>2, NextTyped, NextWritten, NextLogOK, NextEntriesOK DEF CarefulOK
<1> QED BY <1>1, <1>2, PTL DEF CarefulSpec

LEMMA CarefulEntries == CarefulOK => EntriesReadBack
<1> SUFFICES ASSUME CarefulOK, NEW i \in Inums, i \notin Rewritten, View[i] # NoINode
             PROVE  ReadsBack(disk, i, View[i]) /\ View[i].region \in regions
  BY DEF EntriesReadBack, Leads
<1> DEFINE n == heap[index[i]]
<1>1. index[i] # 0 /\ View[i] = [region |-> n.region, pos |-> n.pos,
                                 created |-> n.created, expired |-> n.expired]
  BY DEF View
<1>2. LeadsTo(disk, regions, n, i)
  BY <1>1 DEF CarefulOK, EntriesOK, EntriesLead
<1> HIDE DEF n
<1> QED BY <1>1, <1>2 DEF LeadsTo, ReadsBack, ReadSegment, INodeFor

LEMMA CarefulSucceeds == CarefulOK => FetchSucceeds
<1> SUFFICES ASSUME CarefulOK, NEW t \in Threads
             PROVE  /\ pc[t] = "fetch_region" => ~ RegionLost(t)
                    /\ pc[t] = "fetch_read" =>
                          \E e \in Readable(t) : InodeNum[e.seg.key] = InodeNum[key[t]]
  BY DEF FetchSucceeds
<1>1. pc[t] \in Reading => LeadsTo(disk, regions, heap[ptr[t]], InodeNum[key[t]])
  BY DEF CarefulOK, EntriesOK, ReadersLead
<1>2. {"fetch_region", "fetch_read"} \subseteq Reading
  BY DEF Reading
<1>3. pc[t] = "fetch_read" => tmp[t] = heap[ptr[t]].region
  BY DEF CarefulOK, EntriesOK, ReadersLead
<1> QED BY <1>1, <1>2, <1>3 DEF LeadsTo, RegionLost, Readable, ReadSegment

\* Careful clients on a disk that refuses nothing: at every moment, in the
\* middle of other calls too, every entry of the index that no update is
\* rewriting reads back a live record of its inode number from an open region.
THEOREM EntriesAreRead == ASSUME Faults = {} PROVE CarefulSpec => []EntriesReadBack
BY AlwaysCarefulOK, CarefulEntries, PTL

\* A fetch that found an entry neither fails on the region nor on the read,
\* whatever puts, deletes, updates of other inode numbers and rotations come in
\* between.
THEOREM FetchesSucceed == ASSUME Faults = {} PROVE CarefulSpec => []FetchSucceeds
BY AlwaysCarefulOK, CarefulSucceeds, PTL

\* A region is left for a new one only when it is full, though lfs.offset is
\* advanced in three ways, two of them outside of lfs.mu.
THEOREM NoRegionLeftEarly == ASSUME Faults = {} PROVE CarefulSpec => []RegionsFull
<1>1. CarefulOK => RegionsFull
  BY DEF CarefulOK, LogOK
<1> QED BY <1>1, AlwaysCarefulOK, PTL

-----------------------------------------------------------------------------
(***************************************************************************)
(* Clients that only put and fetch are careful without knowing it.         *)
(***************************************************************************)

PutsAndFetches == Ops \subseteq {"put", "fetch"}

OnlyPutsAndFetches == \A t \in Threads : pc[t] \notin InDelete \cup InUpdate

LEMMA NextPutsAndFetches ==
    ASSUME PutsAndFetches, CallsOK, OnlyPutsAndFetches, [Next]_vars
    PROVE  OnlyPutsAndFetches'
<1>1. CASE UNCHANGED vars
  BY <1>1 DEF OnlyPutsAndFetches, vars
<1>2. CASE Finished
  BY <1>2 DEF OnlyPutsAndFetches, Finished, vars
<1>3. ASSUME NEW t \in Threads,
             \/ CallPut(t) \/ CallDelete(t) \/ CallFetch(t) \/ CallUpdate(t)
             \/ Step(t)
      PROVE  OnlyPutsAndFetches'
  <2>1. PICK l \in Labels \ (InDelete \cup InUpdate) : Goto(t, l)
    <3> USE DEF Labels, InDelete, InUpdate
    <3>1. CASE CallPut(t) BY <3>1 DEF CallPut, Call
    <3>2. CASE CallFetch(t) BY <3>2 DEF CallFetch, Call
    <3>3. ~ CallDelete(t) /\ ~ CallUpdate(t)
      BY DEF CallDelete, CallUpdate, Call, PutsAndFetches
    <3>4. CASE PutSegment(t)
      BY <3>4 DEF PutSegment, PutAppend, AppendFails, PutIndex, PutLoadOffset,
                  PutStoreOffset, PutCheck
    <3>5. CASE FetchSegment(t)
      BY <3>5 DEF FetchSegment, Lookup, FetchExpiredAt, FetchExpiredAtZero, DeleteIndex,
                  FetchRegion, FetchRead, FetchVersion, FetchStep
    <3>6. ~ DeleteSegment(t)
      BY DEF DeleteSegment, LockedAppend, AppendFails, AddOffset, DeleteIndex,
             OnlyPutsAndFetches
    <3>7. ~ UpdateSegmentWithCAS(t)
      BY DEF UpdateSegmentWithCAS, Lookup, UpdateSwap, UpdateConflict, LockedAppend,
             AppendFails, UpdateINode, UpdateLoad, UpdateStore, AddOffset, UpdateCheck,
             UpdateLock, OnlyPutsAndFetches
    <3>8. CASE CreateActiveRegionFile(t) \/ PublishActiveRegion(t) \/ RotationFails(t)
      BY <3>8 DEF CreateActiveRegionFile, PublishActiveRegion, RotationFails
    <3> QED BY <1>3, <3>1, <3>2, <3>3, <3>4, <3>5, <3>6, <3>7, <3>8 DEF Step
  <2> QED BY <2>1, MovesOthersStay DEF OnlyPutsAndFetches
<1> QED BY <1>1, <1>2, <1>3 DEF Next

\* Nothing is asked of clients that only put and fetch, however many there are.
THEOREM PutsAndFetchesAreCareful == ASSUME PutsAndFetches PROVE Spec => CarefulSpec
<1>1. Init => OnlyPutsAndFetches
  BY DEF Init, OnlyPutsAndFetches, InDelete, InUpdate
<1>2. Typed /\ OnlyPutsAndFetches /\ [Next]_vars => OnlyPutsAndFetches'
  BY NextPutsAndFetches DEF Typed
<1>3. OnlyPutsAndFetches => Careful
  BY DEF OnlyPutsAndFetches, Careful
<1>4. OnlyPutsAndFetches' => Careful'
  BY <1>3, PTL
<1>5. OnlyPutsAndFetches' /\ [Next]_vars => [Next /\ Careful']_vars
  BY <1>4
<1> QED BY <1>1, <1>2, <1>5, AlwaysTyped, PTL DEF Spec, CarefulSpec

-----------------------------------------------------------------------------
(***************************************************************************)
(* Without times to live: the index and the last records.                  *)
(***************************************************************************)

LEMMA InitLatestOK == Init => LiveForEver /\ LatestOK
<1> SUFFICES ASSUME Init PROVE LiveForEver /\ LatestOK
  OBVIOUS
<1>1. pc = [t \in Threads |-> "idle"]
  BY DEF Init
<1>2. /\ \A t \in Threads : pc[t] \notin Writing \cup InDelete
      /\ \A t \in Threads : pc[t] # "fetch_evict"
  BY <1>1 DEF Writing, Updating, InDelete
<1>3. ASSUME Stored = {} PROVE LiveForEver /\ LatestOK
  <2>1. disk = {} /\ heap = <<>> /\ index = [i \in Inums |-> 0]
    BY <1>3 DEF Init
  <2> QED BY <1>2, <2>1 DEF LiveForEver, LatestOK, NamesLast, RecordsOf
<1>4. ASSUME NEW k \in Stored PROVE LiveForEver /\ LatestOK
  <2>1. Stored = {k} /\ (CHOOSE j \in Stored : TRUE) = k /\ k \in Keys
    BY <1>4, LFSAssumption
  <2> DEFINE first == NewSegment(k, FirstValue, 0, 1)
             r == Record(1, Header, first)
  <2>2. /\ disk = {r} /\ heap = <<HeapINode(1, Header, first)>>
        /\ \A i \in Inums : index[i] = IF InodeNum[k] = i THEN 1 ELSE 0
    BY <2>1 DEF Init
  <2>3. first.expired = 0 /\ ~ IsTombstone(first) /\ first.key = k
    BY RegionsAssumption, LFSAssumption DEF NewSegment, IsTombstone
  <2> HIDE DEF first
  <2>4. LiveForEver
    <3>1. \A n \in 1 .. Len(heap) : heap[n] = HeapINode(1, Header, first)
      BY <2>2
    <3> QED BY <1>2, <2>2, <2>3, <3>1 DEF LiveForEver, Record, HeapINode
  <2>5. ASSUME NEW i \in Inums PROVE NamesLast(i)
    <3>1. CASE InodeNum[k] = i
      <4>1. RecordsOf(disk, i) = {r} /\ ~ IsTombstone(r.seg)
        BY <2>2, <2>3, <3>1 DEF RecordsOf, Record
      <4>2. index[i] = 1 /\ heap[1] = HeapINode(1, Header, first)
        BY <2>2, <3>1
      <4>3. IsOf(heap[1], r)
        BY <4>2 DEF IsOf, HeapINode, Record
      <4> HIDE DEF r
      <4> QED BY <4>1, <4>2, <4>3 DEF NamesLast
    <3>2. CASE InodeNum[k] # i
      <4>1. RecordsOf(disk, i) = {}
        BY <2>2, <2>3, <3>2 DEF RecordsOf, Record
      <4> QED BY <2>2, <3>2, <4>1 DEF NamesLast
    <3> QED BY <3>1, <3>2
  <2> QED BY <2>4, <2>5 DEF LatestOK
<1> QED BY <1>3, <1>4

LEMMA LastIsOne ==
    ASSUME disk \subseteq Entry, NEW r, IsLast(r, disk), NEW i,
           InodeNum[r.seg.key] = i
    PROVE  /\ r \in RecordsOf(disk, i)
           /\ \A e \in RecordsOf(disk, i) : IsLast(e, RecordsOf(disk, i)) => e = r
<1>1. r \in RecordsOf(disk, i)
  BY DEF RecordsOf, IsLast
<1>2. ASSUME NEW e \in RecordsOf(disk, i), IsLast(e, RecordsOf(disk, i)), e # r
      PROVE  FALSE
  <2>1. Before(e, r) /\ Before(r, e)
    BY <1>1, <1>2 DEF IsLast, RecordsOf
  <2>2. /\ e.region \in Nat /\ e.pos \in Nat
        /\ r.region \in Nat /\ r.pos \in Nat
    BY <1>1 DEF RecordsOf, Entry
  <2> QED BY <2>1, <2>2 DEF Before
<1> QED BY <1>1, <1>2

\* An inode number that a step leaves alone.
LEMMA NamesLastKept ==
    ASSUME NEW i \in Inums, NamesLast(i),
           RecordsOf(disk', i) = RecordsOf(disk, i), index'[i] = index[i],
           index[i] # 0 => SameTarget(heap'[index[i]], heap[index[i]])
    PROVE  NamesLast(i)'
BY DEF NamesLast, IsOf, SameTarget

LEMMA QuietLive ==
    ASSUME NeverExpires, Typed, Written, LiveForEver, NEW t \in Threads, Quiet(t)
    PROVE  LiveForEver'
<1>1. /\ UNCHANGED disk /\ OthersStay(t) /\ Len(heap') = Len(heap)
      /\ \A n \in 1 .. Len(heap) : SameTarget(heap'[n], heap[n])
  BY QuietStep
<1>2. /\ pc'[t] \in Writing => seg'[t].expired = 0
      /\ pc'[t] \in InDelete =>
            seg'[t].key = key'[t] /\ IsTombstone(seg'[t]) /\ seg'[t].expired = 0
      /\ pc'[t] # "fetch_evict"
  <2>1. \A k, v, ttl : ttl \in Ttls => NewSegment(k, v, ttl, clock + 1).expired = 0
    <3> SUFFICES ASSUME NEW k, NEW v, NEW ttl \in Ttls
                 PROVE  NewSegment(k, v, ttl, clock + 1).expired = 0
      OBVIOUS
    <3>1. ttl = 0
      BY DEF NeverExpires
    <3> QED BY <3>1 DEF NewSegment
  <2>2. CASE CallPut(t)
    <3>1. PICK k \in Keys, v \in Values, ttl \in Ttls :
             Call(t, "put", k, NewSegment(k, v, ttl, clock + 1), "put_append")
      BY <2>2 DEF CallPut
    <3> DEFINE s == NewSegment(k, v, ttl, clock + 1)
    <3>2. s.expired = 0
      BY <2>1
    <3> HIDE DEF s
    <3>3. seg'[t] = s /\ pc'[t] = "put_append"
      BY <3>1 DEF Call, Goto, Typed, CallsOK, s
    <3> QED BY <3>2, <3>3 DEF InDelete
  <2>3. CASE CallUpdate(t)
    <3>1. PICK v \in Values, ttl \in Ttls :
             Call(t, "update", got[t].key, NewSegment(got[t].key, v, ttl, clock + 1),
                  "update_lookup")
      BY <2>3 DEF CallUpdate
    <3> DEFINE s == NewSegment(got[t].key, v, ttl, clock + 1)
    <3>2. s.expired = 0
      BY <2>1
    <3> HIDE DEF s
    <3>3. seg'[t] = s /\ pc'[t] = "update_lookup"
      BY <3>1 DEF Call, Goto, Typed, CallsOK, s
    <3> QED BY <3>2, <3>3 DEF InDelete
  <2>4. CASE CallDelete(t)
    <3>1. PICK k \in Keys :
             Call(t, "delete", k, NewTombstoneSegment(k, clock + 1), "delete_append")
      BY <2>4 DEF CallDelete
    <3> QED
      BY <3>1 DEF Call, Goto, Typed, CallsOK, NewTombstoneSegment, IsTombstone, Writing,
                  Updating
  <2>5. CASE CallFetch(t)
    BY <2>5 DEF CallFetch, Call, Goto, Typed, CallsOK, Writing, Updating, InDelete
  <2>6. CASE FetchExpiredAtZero(t)
    <3>1. ptr[t] \in 1 .. Len(heap)
      BY <2>6, PointersInHeap DEF FetchExpiredAtZero, FetchStep, Reading
    <3>2. heap[ptr[t]].expired = 0 BY <3>1 DEF LiveForEver
    <3>3. pc'[t] = "fetch_region"
      BY <2>6, <3>2, MovesOthersStay DEF FetchExpiredAtZero, FetchStep, Typed
    <3> QED BY <3>3 DEF Writing, Updating, InDelete
  <2>7. CASE FetchSegment(t) /\ ~ FetchExpiredAtZero(t)
    <3>1. PICK l \in {"idle", "fetch_expired_at", "fetch_expired_at_0",
                      "fetch_region", "fetch_read", "fetch_version"} : Goto(t, l)
      BY <2>7 DEF FetchSegment, Lookup, FetchExpiredAt, DeleteIndex, FetchRegion,
                  FetchRead, FetchVersion, FetchStep
    <3> QED BY <3>1, MovesOthersStay DEF Typed, Writing, Updating, InDelete
  <2>8. CASE \/ Lookup(t, "update_lookup", "update_swap")
             \/ UpdateSwap(t) \/ UpdateConflict(t)
    <3>1. pc[t] \in Writing /\ seg'[t] = seg[t]
          /\ pc'[t] \in {"update_swap", "update_append", "idle"}
      BY <2>8, UpdateBeginsStep DEF Writing, Updating
    <3> QED BY <3>1 DEF LiveForEver, InDelete
  <2> QED BY <2>2, <2>3, <2>4, <2>5, <2>6, <2>7, <2>8 DEF Quiet, Begins
<1>3. \A n \in 1 .. Len(heap') : heap'[n].expired = 0
  BY <1>1 DEF LiveForEver, SameTarget
<1>4. \A u \in Threads :
         /\ pc'[u] \in Writing => seg'[u].expired = 0
         /\ pc'[u] \in InDelete =>
               seg'[u].key = key'[u] /\ IsTombstone(seg'[u]) /\ seg'[u].expired = 0
         /\ pc'[u] # "fetch_evict"
  BY <1>1, <1>2 DEF LiveForEver, OthersStay
<1> QED BY <1>1, <1>3, <1>4 DEF LiveForEver

LEMMA SettledIsBusy == Unsettled \cup {"delete_index"} \subseteq Busy
BY DEF Unsettled, Busy, Behind, Level

LEMMA QuietLatestOK ==
    ASSUME Typed, LiveForEver, LatestOK, NEW t \in Threads, Quiet(t)
    PROVE  LatestOK'
<1>1. /\ UNCHANGED disk /\ OthersStay(t)
      /\ pc[t] \notin Busy /\ pc'[t] \notin Busy
      /\ \A n \in 1 .. Len(heap) : SameTarget(heap'[n], heap[n])
  BY QuietStep
<1>2. \A i \in Inums : index'[i] = index[i]
  <2>1. CASE Begins(t) BY <2>1, BeginsStep DEF indexVars
  <2>2. CASE FetchSegment(t)
    BY <2>2, FetchesStep DEF LiveForEver
  <2>3. CASE \/ Lookup(t, "update_lookup", "update_swap")
             \/ UpdateSwap(t) \/ UpdateConflict(t)
    BY <2>3, UpdateBeginsStep
  <2> QED BY <2>1, <2>2, <2>3 DEF Quiet
<1>3. ASSUME NEW i \in Inums, Settled(i)' PROVE NamesLast(i)'
  <2>1. Settled(i)
    BY <1>1, <1>3, SettledIsBusy DEF Settled, OthersStay
  <2> QED BY <1>1, <1>2, <2>1, NamesLastKept, PointersInHeap DEF LatestOK
<1> QED BY <1>3 DEF LatestOK

LEMMA AppendsLatestOK ==
    ASSUME Typed, Written, EntriesOK, LiveForEver, LatestOK,
           NEW t \in Threads, Appends(t)
    PROVE  LiveForEver' /\ LatestOK'
<1> DEFINE new == Record(active, fsize[active], seg[t])
<1>1. /\ disk' = disk \cup {new} /\ new.seg = seg[t]
      /\ UNCHANGED <<index, heap, key, seg>> /\ OthersStay(t)
  BY AppendsStep DEF indexVars, Record
<1>2. \/ pc[t] = "put_append" /\ pc'[t] = "put_index"
      \/ pc[t] = "delete_append" /\ pc'[t] = "delete_add"
      \/ pc[t] = "update_append" /\ pc'[t] = "update_offset"
  BY AppendsStep DEF AppendLabels
<1>3. seg[t].expired = 0 /\ seg[t].key = key[t]
  BY <1>2 DEF LiveForEver, Written, CarriesRecord, Writing, Updating, InDelete
<1>4. /\ pc'[t] \in Writing => pc[t] \in Writing
      /\ pc'[t] \in InDelete => pc[t] \in InDelete
      /\ pc'[t] \in Unsettled /\ pc'[t] # "fetch_evict"
  BY <1>2 DEF Writing, Updating, InDelete, Unsettled
<1> HIDE DEF new
<1>5. LiveForEver'
  BY <1>1, <1>3, <1>4 DEF LiveForEver, OthersStay
<1>6. ASSUME NEW i \in Inums, Settled(i)' PROVE NamesLast(i)'
  <2>1. InodeNum[key[t]] # i
    BY <1>1, <1>4, <1>6 DEF Settled
  <2>2. RecordsOf(disk', i) = RecordsOf(disk, i)
    BY <1>1, <1>3, <2>1 DEF RecordsOf
  <2>3. Settled(i)
    BY <1>1, <1>6, <2>1 DEF Settled, OthersStay
  <2> QED BY <1>1, <2>2, <2>3, NamesLastKept DEF LatestOK, SameTarget
<1> QED BY <1>5, <1>6 DEF LatestOK

LEMMA AsideLatestOK ==
    ASSUME Typed, LiveForEver, LatestOK, NEW t \in Threads, GoesOnAside(t)
    PROVE  LiveForEver' /\ LatestOK'
<1>1. /\ UNCHANGED <<disk, index, heap, key, seg>> /\ OthersStay(t)
      /\ pc[t] = "delete_add" <=> pc'[t] = "delete_index"
  BY AsideStep
<1>2. /\ pc'[t] \notin Writing /\ pc'[t] # "fetch_evict"
      /\ pc'[t] \in InDelete => pc[t] \in InDelete
      /\ pc[t] \in Unsettled \cup {"delete_index"} =>
            pc'[t] \in Unsettled \cup {"delete_index"}
  BY AsideStep DEF Writing, Updating, InDelete, Unsettled
<1>3. LiveForEver'
  BY <1>1, <1>2 DEF LiveForEver, OthersStay
<1>4. ASSUME NEW i \in Inums, Settled(i)' PROVE NamesLast(i)'
  <2>1. Settled(i)
    BY <1>1, <1>2, <1>4 DEF Settled, OthersStay
  <2> QED BY <1>1, <2>1, NamesLastKept DEF LatestOK, SameTarget
<1> QED BY <1>3, <1>4 DEF LatestOK

LEMMA PutIndexLatestOK ==
    ASSUME Typed, Written, LogOK, LiveForEver, LatestOK,
           NEW t \in Threads, PutIndex(t)
    PROVE  LiveForEver' /\ LatestOK'
<1> DEFINE o == InodeNum[key[t]]
           new == Len(heap) + 1
           r == Record(active, offset, seg[t])
<1>1. /\ UNCHANGED <<disk, key, seg>> /\ OthersStay(t)
      /\ pc[t] = "put_index" /\ pc'[t] = "put_load"
      /\ \A i \in Inums : index'[i] = IF i = o THEN new ELSE index[i]
      /\ Len(heap') = new
      /\ \A n \in 1 .. Len(heap) : heap'[n] = heap[n]
      /\ heap'[new] = HeapINode(active, offset, seg[t])
      /\ IsLast(r, disk)
  BY PutIndexStep
<1>2. seg[t].expired = 0 /\ seg[t].key = key[t] /\ ~ IsTombstone(seg[t])
  BY <1>1 DEF LiveForEver, Written, CarriesRecord, Writing
<1>3. /\ IsOf(heap'[new], r) /\ InodeNum[r.seg.key] = o /\ ~ IsTombstone(r.seg)
      /\ heap'[new].expired = 0
  BY <1>1, <1>2 DEF IsOf, HeapINode, Record
<1>4. new # 0 /\ \A n \in 1 .. new : n = new \/ n \in 1 .. Len(heap)
  BY DEF Typed, HeapOK
<1> HIDE DEF o, r, new
<1>5. LiveForEver'
  <2>1. \A n \in 1 .. Len(heap') : heap'[n].expired = 0
    BY <1>1, <1>3, <1>4 DEF LiveForEver
  <2>2. pc'[t] \notin Writing \cup InDelete
    BY <1>1 DEF Writing, Updating, InDelete
  <2> QED BY <1>1, <2>1, <2>2 DEF LiveForEver, OthersStay
<1>6. ASSUME NEW i \in Inums, Settled(i)' PROVE NamesLast(i)'
  <2>1. CASE i = o
    <3>1. /\ r \in RecordsOf(disk, i)
          /\ \A e \in RecordsOf(disk, i) : IsLast(e, RecordsOf(disk, i)) => e = r
      BY <1>1, <1>3, <2>1, LastIsOne DEF Typed, FilesOK
    <3>2. index'[i] = new /\ index'[i] # 0 /\ IsOf(heap'[index'[i]], r)
      BY <1>1, <1>3, <1>4, <2>1
    <3> QED BY <1>1, <1>3, <3>1, <3>2 DEF NamesLast
  <2>2. CASE i # o
    <3>1. Settled(i)
      BY <1>1, <1>6, <2>2 DEF Settled, OthersStay, o
    <3> QED
      BY <1>1, <2>2, <3>1, NamesLastKept, PointersInHeap DEF LatestOK, SameTarget
  <2> QED BY <2>1, <2>2
<1> QED BY <1>5, <1>6 DEF LatestOK

LEMMA DeleteIndexLatestOK ==
    ASSUME Typed, LogOK, LiveForEver, LatestOK,
           NEW t \in Threads, DeleteIndex(t, "delete_index")
    PROVE  LiveForEver' /\ LatestOK'
<1> DEFINE o == InodeNum[key[t]]
<1>1. /\ UNCHANGED <<disk, heap, key, seg>> /\ OthersStay(t)
      /\ pc[t] = "delete_index" /\ pc'[t] = "idle"
      /\ \A i \in Inums : index'[i] = IF i = o THEN 0 ELSE index[i]
  BY DeleteStep
<1>2. LiveForEver'
  BY <1>1 DEF LiveForEver, OthersStay, Writing, Updating, InDelete
<1>3. PICK r \in disk : IsLast(r, disk) /\ r.seg = seg[t]
  BY <1>1 DEF LogOK, OffsetOK, OffsetKnown
<1>4. InodeNum[r.seg.key] = o /\ IsTombstone(r.seg)
  BY <1>1, <1>3 DEF LiveForEver, InDelete
<1> HIDE DEF o
<1>5. ASSUME NEW i \in Inums, Settled(i)' PROVE NamesLast(i)'
  <2>1. CASE i = o
    <3>1. /\ r \in RecordsOf(disk, i)
          /\ \A e \in RecordsOf(disk, i) : IsLast(e, RecordsOf(disk, i)) => e = r
      BY <1>3, <1>4, <2>1, LastIsOne DEF Typed, FilesOK
    <3> QED BY <1>1, <1>4, <2>1, <3>1 DEF NamesLast
  <2>2. CASE i # o
    <3>1. Settled(i)
      BY <1>1, <1>5, <2>2 DEF Settled, OthersStay, o
    <3> QED BY <1>1, <2>2, <3>1, NamesLastKept DEF LatestOK, SameTarget
  <2> QED BY <2>1, <2>2
<1> QED BY <1>2, <1>5 DEF LatestOK

LEMMA UpdateINodeLatestOK ==
    ASSUME Typed, Written, Careful, LogOK, EntriesOK, LiveForEver, LatestOK,
           NEW t \in Threads, UpdateINode(t)
    PROVE  LiveForEver' /\ LatestOK'
<1> DEFINE o == InodeNum[key[t]]
           r == Record(active, offset, seg[t])
<1>1. /\ UNCHANGED <<disk, index, key, seg>> /\ OthersStay(t)
      /\ ptr[t] \in 1 .. Len(heap) /\ Len(heap') = Len(heap)
      /\ \A n \in 1 .. Len(heap) : n # ptr[t] => heap'[n] = heap[n]
  BY UpdateINodeStep
<1>2. \/ /\ pc[t] = "update_offset" /\ pc'[t] = "update_position"
         /\ heap' = heap
      \/ /\ pc[t] = "update_position" /\ pc'[t] = "update_times"
         /\ heap'[ptr[t]] = [heap[ptr[t]] EXCEPT !.pos = tmp[t]]
      \/ /\ pc[t] = "update_times" /\ pc'[t] = "update_region_id"
         /\ heap'[ptr[t]] = [heap[ptr[t]] EXCEPT !.created = seg[t].created,
                                                 !.expired = seg[t].expired]
      \/ /\ pc[t] = "update_region_id" /\ pc'[t] = "update_region"
         /\ heap' = heap
      \/ /\ pc[t] = "update_region" /\ pc'[t] = "update_add"
         /\ heap'[ptr[t]] = [heap[ptr[t]] EXCEPT !.region = tmp[t]]
  BY UpdateINodeStep
<1>3. pc[t] \in Owning /\ pc[t] \in Unsettled
  BY <1>2 DEF Owning, Torn, Unsettled
<1>4. /\ o \in Inums /\ ptr[t] = index[o] /\ ptr[t] # 0
      /\ \A i \in Inums : i # o => index[i] # ptr[t]
  BY <1>3, UpdateIsAlone
<1>5. heap[ptr[t]] \in HeapObject /\ heap[ptr[t]].expired = 0
  BY <1>1 DEF Typed, HeapOK, LiveForEver
<1>6. LiveForEver'
  <2>1. heap'[ptr[t]].expired = 0
    <3>1. pc[t] = "update_times" => seg[t].expired = 0
      BY DEF LiveForEver, Writing, Updating
    <3> QED BY <1>2, <1>5, <3>1 DEF HeapObject
  <2>2. /\ pc'[t] \in Writing => pc[t] \in Writing
        /\ pc'[t] \notin InDelete /\ pc'[t] # "fetch_evict"
    BY <1>2 DEF Writing, Updating, InDelete
  <2> QED BY <1>1, <2>1, <2>2 DEF LiveForEver, OthersStay
<1>7. /\ IsLast(r, disk) /\ r.seg = seg[t]
      /\ pc[t] = "update_region" => tmp[t] = active
  BY <1>3 DEF LogOK, OffsetOK, OffsetKnown, Record
<1>8. InodeNum[r.seg.key] = o /\ ~ IsTombstone(r.seg)
  BY <1>3, <1>7 DEF EntriesOK, UpdatersOwn
<1>9. ASSUME pc[t] = "update_region" PROVE IsOf(heap'[ptr[t]], r)
  <2>1. /\ heap[ptr[t]].pos = offset
        /\ heap[ptr[t]].created = seg[t].created
        /\ heap[ptr[t]].expired = seg[t].expired
    BY <1>9 DEF EntriesOK, UpdatersOwn, Owning, Torn
  <2>2. heap'[ptr[t]] = [heap[ptr[t]] EXCEPT !.region = active]
    BY <1>2, <1>7, <1>9
  <2> QED BY <1>5, <2>1, <2>2 DEF IsOf, Record, HeapObject
<1> HIDE DEF o, r
<1>10. ASSUME NEW i \in Inums, Settled(i)' PROVE NamesLast(i)'
  <2>1. CASE i = o
    <3>1. pc'[t] \notin Unsettled
      BY <1>1, <1>10, <2>1 DEF Settled, o
    <3>2. pc[t] = "update_region"
      BY <1>2, <3>1 DEF Unsettled
    <3>3. /\ r \in RecordsOf(disk, i)
          /\ \A e \in RecordsOf(disk, i) : IsLast(e, RecordsOf(disk, i)) => e = r
      BY <1>7, <1>8, <2>1, LastIsOne DEF Typed, FilesOK
    <3>4. index'[i] # 0 /\ IsOf(heap'[index'[i]], r)
      BY <1>1, <1>4, <1>9, <2>1, <3>2
    <3> QED BY <1>1, <1>8, <3>3, <3>4 DEF NamesLast
  <2>2. CASE i # o
    <3>1. Settled(i)
      BY <1>1, <1>10, <2>2 DEF Settled, OthersStay, o
    <3>2. index[i] # 0 => SameTarget(heap'[index[i]], heap[index[i]])
      BY <1>1, <1>4, <2>2, PointersInHeap DEF SameTarget
    <3> QED BY <1>1, <3>1, <3>2, NamesLastKept DEF LatestOK
  <2> QED BY <2>1, <2>2
<1> QED BY <1>6, <1>10 DEF LatestOK

LEMMA StutterLatestOK ==
    ASSUME LiveForEver, LatestOK, UNCHANGED vars PROVE LiveForEver' /\ LatestOK'
BY DEF vars, indexVars, callVars, LiveForEver, LatestOK, Settled, NamesLast

LEMMA NextLatestOK ==
    ASSUME Faults = {}, NeverExpires, CarefulOK, LiveForEver, LatestOK, [Next]_vars
    PROVE  LiveForEver' /\ LatestOK'
<1>1. Typed /\ Written /\ Careful /\ LogOK /\ EntriesOK
  BY DEF CarefulOK
<1>2. ASSUME NEW t \in Threads, GoesOn(t) PROVE LiveForEver' /\ LatestOK'
  BY <1>1, <1>2, PutIndexLatestOK, DeleteIndexLatestOK, UpdateINodeLatestOK,
     AsideLatestOK DEF GoesOn, GoesOnAside
<1> QED
  BY <1>1, <1>2, StepsThereAre, QuietLive, QuietLatestOK, AppendsLatestOK,
     StutterLatestOK

LEMMA LatestWhenQuiet == Typed /\ LiveForEver /\ LatestOK => QuietLatest
<1> SUFFICES ASSUME Typed, LiveForEver, LatestOK, Idle, NEW i \in Inums
             PROVE  /\ RecordsOf(disk, i) = {} => View[i] = NoINode
                    /\ \A e \in RecordsOf(disk, i) : IsLast(e, RecordsOf(disk, i)) =>
                          IF View[i] = NoINode
                          THEN IsTombstone(e.seg) \/ IsExpired(e.seg.expired, clock)
                          ELSE /\ ~ IsTombstone(e.seg)
                               /\ View[i] = INodeFor(e.region, e.pos, e.seg)
  BY DEF QuietLatest, Latest
<1>1. NamesLast(i)
  BY DEF LatestOK, Settled, Idle, Unsettled
<1>2. index[i] = 0 => View[i] = NoINode
  BY DEF View
<1>3. ASSUME NEW e \in RecordsOf(disk, i), IsLast(e, RecordsOf(disk, i)),
             ~ IsTombstone(e.seg)
      PROVE  View[i] # NoINode /\ View[i] = INodeFor(e.region, e.pos, e.seg)
  <2>1. index[i] # 0 /\ IsOf(heap[index[i]], e) /\ e \in disk
    BY <1>1, <1>3 DEF NamesLast, RecordsOf
  <2>2. View[i] = INodeFor(e.region, e.pos, e.seg)
    BY <2>1 DEF View, IsOf, INodeFor
  <2>3. e.region \in Nat /\ e.pos \in Nat /\ e.seg \in Segment
    BY <2>1 DEF Typed, FilesOK, Entry
  <2>4. INodeFor(e.region, e.pos, e.seg) \in INode
    BY <2>3 DEF INodeFor, INode, Segment
  <2> QED BY <2>2, <2>4, RegionsAssumption
<1> QED BY <1>1, <1>2, <1>3 DEF NamesLast

LEMMA AlwaysLatestOK ==
    ASSUME Faults = {}, NeverExpires
    PROVE  CarefulSpec => [](CarefulOK /\ LiveForEver /\ LatestOK)
<1>1. Init => LiveForEver /\ LatestOK
  BY InitLatestOK
<1>2. CarefulOK /\ LiveForEver /\ LatestOK /\ [Next /\ Careful']_vars
         => (LiveForEver /\ LatestOK)'
  BY NextLatestOK
<1> QED BY <1>1, <1>2, AlwaysCarefulOK, PTL DEF CarefulSpec

\* Without times to live: whenever no call is under way the index names the last
\* record of every inode number, or has no entry when that is a tombstone, so
\* that the order of the log is the order in which the calls took effect.
THEOREM IndexIsLatest ==
    ASSUME Faults = {}, NeverExpires PROVE CarefulSpec => []QuietLatest
<1>1. CarefulOK /\ LiveForEver /\ LatestOK => QuietLatest
  BY LatestWhenQuiet DEF CarefulOK
<1> QED BY <1>1, AlwaysLatestOK, PTL


-----------------------------------------------------------------------------
(***************************************************************************)
(* Without times to live: the calls seen as those of KVCalls.              *)
(***************************************************************************)

Served == [i \in Inums |-> MapItem(i)]

Calls == [t \in Threads |-> CallOf(t)]

Seen == <<Served, Calls>>

\* It has taken effect, and is yet to return.
Returning == {"put_load", "put_store", "put_check", "update_offset",
              "update_position", "update_times", "update_region_id",
              "update_region", "update_add", "update_check", "update_lock",
              "rotate", "publish"}

NoCall == [at |-> "idle"]

Pending(op, i, v) == [at |-> "pending", op |-> op, inum |-> i, value |-> v]

CallKnown(t) ==
    /\ pc[t] = "idle" => CallOf(t) = NoCall
    /\ pc[t] = "fetch_lookup" =>
          CallOf(t) = Pending("get", InodeNum[key[t]], NoItem)
    /\ pc[t] \in Putting =>
          CallOf(t) = Pending("put", InodeNum[key[t]],
                                     [key |-> seg[t].key, value |-> seg[t].value])
    /\ pc[t] \in InDelete =>
          CallOf(t) = Pending("delete", InodeNum[key[t]], NoItem)
    /\ pc[t] \in Reading =>
          CallOf(t) = Over(ItemAt(disk, heap[ptr[t]]))
    /\ pc[t] = "fetch_version" =>
          CallOf(t) = Over(ItemOf(got[t].read.seg))
    /\ pc[t] \in Returning => CallOf(t) = Over(NoItem)

LEMMA CallIs == \A t \in Threads : CallKnown(t) /\ CallKnown(t)'
<1> SUFFICES ASSUME NEW t \in Threads PROVE CallKnown(t) /\ CallKnown(t)'
  OBVIOUS
<1>1. CallKnown(t)
  BY DEF CallKnown, CallOf, Called, Over, Putting, InDelete, Reading, Returning,
         NoCall, Pending
<1>2. CallKnown(t)'
  BY DEF CallKnown, CallOf, Called, Over, Putting, InDelete, Reading, Returning,
         NoCall, Pending
<1> QED BY <1>1, <1>2

\* Reading where one record starts returns that record.
LEMMA ItemAtRecord ==
    ASSUME NEW D, \A e, f \in D : e.region = f.region /\ e.pos = f.pos => e = f,
           NEW e \in D, NEW inode, inode.region = e.region, inode.pos = e.pos
    PROVE  ItemAt(D, inode) = ItemOf(e.seg)
<1>1. ReadSegment(D, inode.region, inode.pos) = {e}
  BY DEF ReadSegment
<1>2. (CHOOSE f \in {e} : TRUE) = e
  OBVIOUS
<1> QED BY <1>1, <1>2 DEF ItemAt

\* What an INode leads to is still what it was when files have grown.
LEMMA ItemAtStays ==
    ASSUME NEW D, NEW E, D \subseteq E,
           \A e, f \in E : e.region = f.region /\ e.pos = f.pos => e = f,
           NEW m, NEW n, SameTarget(n, m),
           NEW ids, NEW i, LeadsTo(D, ids, m, i)
    PROVE  ItemAt(E, n) = ItemAt(D, m)
<1>1. PICK e \in D : e.region = m.region /\ e.pos = m.pos
  BY DEF LeadsTo
<1>2. ItemAt(D, m) = ItemOf(e.seg)
  BY <1>1, ItemAtRecord
<1>3. ItemAt(E, n) = ItemOf(e.seg)
  BY <1>1, ItemAtRecord DEF SameTarget
<1> QED BY <1>2, <1>3

LEMMA RewritingIs ==
    ASSUME NEW i
    PROVE  /\ Rewriting(i) = {t \in Threads : pc[t] \in Changing /\ InodeNum[key[t]] = i}
           /\ Rewriting(i)' = {t \in Threads : pc'[t] \in Changing /\ InodeNum[key'[t]] = i}
BY DEF Rewriting

\* The item of an inode number that a step leaves alone.
LEMMA MapItemKept ==
    ASSUME EntriesOK, RecordsOK', disk \subseteq disk', NEW i \in Inums,
           Rewriting(i)' = Rewriting(i), \A t \in Rewriting(i) : seg'[t] = seg[t],
           index'[i] = index[i],
           Rewriting(i) = {} /\ index[i] # 0 => SameTarget(heap'[index[i]], heap[index[i]])
    PROVE  MapItem(i)' = MapItem(i)
<1>1. CASE Rewriting(i) # {}
  <2>1. (CHOOSE t \in Rewriting(i) : TRUE) \in Rewriting(i)
    BY <1>1
  <2>2. (CHOOSE t \in Rewriting(i)' : TRUE) = (CHOOSE t \in Rewriting(i) : TRUE)
    OBVIOUS
  <2> QED BY <1>1, <2>1, <2>2 DEF MapItem
<1>2. CASE Rewriting(i) = {} /\ index[i] = 0
  BY <1>2 DEF MapItem
<1>3. CASE Rewriting(i) = {} /\ index[i] # 0
  <2>1. i \notin Rewritten
    BY <1>3, RewritingIs DEF Rewritten, Changing, Torn
  <2>2. LeadsTo(disk, regions, heap[index[i]], i)
    BY <1>3, <2>1 DEF EntriesOK, EntriesLead
  <2>3. ItemAt(disk', heap'[index[i]]) = ItemAt(disk, heap[index[i]])
    BY <1>3, <2>2, ItemAtStays DEF RecordsOK
  <2> QED BY <1>3, <2>3 DEF MapItem
<1> QED BY <1>1, <1>2, <1>3

\* The goroutines besides t are in the calls they were in.
LEMMA OthersCalls ==
    ASSUME EntriesOK, RecordsOK', NEW t \in Threads, OthersStay(t),
           disk \subseteq disk',
           \A u \in Threads : u # t /\ pc[u] \in Reading =>
              SameTarget(heap'[ptr[u]], heap[ptr[u]])
    PROVE  Calls' = [Calls EXCEPT ![t] = CallOf(t)']
<1>1. ASSUME NEW u \in Threads, u # t PROVE CallOf(u)' = CallOf(u)
  <2>1. /\ pc'[u] = pc[u] /\ key'[u] = key[u] /\ seg'[u] = seg[u]
        /\ ptr'[u] = ptr[u] /\ got'[u] = got[u]
    BY <1>1 DEF OthersStay
  <2>2. ASSUME pc[u] \in Reading
        PROVE  ItemAt(disk', heap'[ptr[u]]) = ItemAt(disk, heap[ptr[u]])
    <3>1. LeadsTo(disk, regions, heap[ptr[u]], InodeNum[key[u]])
      BY <2>2 DEF EntriesOK, ReadersLead
    <3> QED BY <1>1, <2>2, <3>1, ItemAtStays DEF RecordsOK
  <2>3. CASE pc[u] \in Reading
    BY <2>1, <2>2, <2>3, CallIs DEF CallKnown
  <2>4. CASE pc[u] \notin Reading
    BY <2>1, <2>4 DEF CallOf, Called, Over
  <2> QED BY <2>3, <2>4
<1> QED BY <1>1 DEF Calls

\* The ways a step is seen.
LEMMA SeenStutter ==
    ASSUME NEW t \in Threads, Served' = Served,
           Calls' = [Calls EXCEPT ![t] = CallOf(t)'], CallOf(t)' = CallOf(t)
    PROVE  UNCHANGED Seen
<1>1. Calls' = Calls
  BY DEF Calls
<1> QED BY <1>1 DEF Seen

LEMMA SeenBegin ==
    ASSUME NEW t \in Threads, Served' = Served,
           Calls' = [Calls EXCEPT ![t] = CallOf(t)'], CallOf(t) = NoCall,
           NEW i \in Inums,
           \/ CallOf(t)' = Pending("get", i, NoItem)
           \/ CallOf(t)' = Pending("delete", i, NoItem)
           \/ \E v \in [key : Keys, value : Values] : CallOf(t)' = Pending("put", i, v)
    PROVE  KVView!Begin(t)
<1>1. Calls[t] = NoCall
  BY DEF Calls
<1> QED BY <1>1 DEF KVView!Begin, KVView!Becomes, KVView!Idle, KVView!Pending, Pending,
                    NoCall, Served, Calls

LEMMA SeenEnd ==
    ASSUME NEW t \in Threads, Served' = Served,
           Calls' = [Calls EXCEPT ![t] = CallOf(t)'], CallOf(t)' = NoCall,
           NEW x, CallOf(t) = Over(x)
    PROVE  KVView!End(t)
<1>1. Calls[t].at = "over"
  BY DEF Calls, Over
<1> QED BY <1>1 DEF KVView!End, KVView!Becomes, KVView!Idle, NoCall, Served, Calls

LEMMA SeenFail ==
    ASSUME NEW t \in Threads, Served' = Served,
           Calls' = [Calls EXCEPT ![t] = CallOf(t)'], CallOf(t)' = NoCall,
           NEW i, NEW v, CallOf(t) = Pending("put", i, v)
    PROVE  KVView!Fail(t)
<1>1. Calls[t].at = "pending" /\ Calls[t].op = "put"
  BY DEF Calls, Pending
<1> QED BY <1>1 DEF KVView!Fail, KVView!Becomes, KVView!Idle, NoCall, Served, Calls

LEMMA SeenGet ==
    ASSUME NEW t \in Threads, Served' = Served,
           Calls' = [Calls EXCEPT ![t] = CallOf(t)'],
           NEW i \in Inums, CallOf(t) = Pending("get", i, NoItem),
           \/ CallOf(t)' = Over(MapItem(i))
           \/ MapItem(i) = NoItem /\ CallOf(t)' = NoCall
    PROVE  KVView!GetNow(t)
<1>1. Calls[t].at = "pending" /\ Calls[t].op = "get" /\ Calls[t].inum = i
  BY DEF Calls, Pending
<1>2. Served[i] = MapItem(i)
  BY DEF Served
<1>3. \/ Calls' = [Calls EXCEPT ![t] = Over(Served[Calls[t].inum])]
      \/ Served[Calls[t].inum] = NoItem /\ Calls' = [Calls EXCEPT ![t] = NoCall]
  BY <1>1, <1>2
<1> QED BY <1>1, <1>3 DEF KVView!GetNow, KVView!Becomes, KVView!Idle, KVView!Succeeded,
                          NoCall, Over, Served, Calls

LEMMA SeenPut ==
    ASSUME NEW t \in Threads, NEW i \in Inums, NEW s, s.expired = 0,
           Served' = [Served EXCEPT ![i] = ItemOf(s)],
           Calls' = [Calls EXCEPT ![t] = CallOf(t)'],
           CallOf(t) = Pending("put", i, [key |-> s.key, value |-> s.value]),
           CallOf(t)' = Over(NoItem)
    PROVE  KVView!PutNow(t)
<1>1. /\ Calls[t].at = "pending" /\ Calls[t].op = "put" /\ Calls[t].inum = i
      /\ Calls[t].value = [key |-> s.key, value |-> s.value]
  BY DEF Calls, Pending
<1>2. ItemOf(s) = [value |-> Calls[t].value, expired |-> 0]
  BY <1>1 DEF ItemOf
<1>3. KVView!Map!Put(Calls[t].inum, Calls[t].value, 0)
  BY <1>1, <1>2 DEF KVView!Map!Put, Served
<1>4. Calls' = [Calls EXCEPT ![t] = Over(NoItem)]
  OBVIOUS
<1> QED BY <1>1, <1>3, <1>4 DEF KVView!PutNow, KVView!Becomes, KVView!Succeeded, Over,
                                Calls

LEMMA SeenDelete ==
    ASSUME NEW t \in Threads, NEW i \in Inums,
           Served' = [Served EXCEPT ![i] = NoItem],
           Calls' = [Calls EXCEPT ![t] = CallOf(t)'],
           CallOf(t) = Pending("delete", i, NoItem), CallOf(t)' = NoCall
    PROVE  KVView!DeleteNow(t)
<1>1. Calls[t].at = "pending" /\ Calls[t].op = "delete" /\ Calls[t].inum = i
  BY DEF Calls, Pending
<1>2. KVView!Map!Delete(Calls[t].inum)
  BY <1>1 DEF KVView!Map!Delete, Served
<1>3. Calls' = [Calls EXCEPT ![t] = NoCall]
  OBVIOUS
<1> QED BY <1>1, <1>2, <1>3 DEF KVView!DeleteNow, KVView!Becomes, KVView!Idle, NoCall,
                                Calls

Shown(t) ==
    \/ KVView!Begin(t) \/ KVView!PutNow(t) \/ KVView!DeleteNow(t)
    \/ KVView!GetNow(t) \/ KVView!Fail(t) \/ KVView!End(t)
    \/ UNCHANGED Seen

\* A step that leaves the index, the INodes but for their versions, and the
\* updates between their append and their last store.
LEMMA ServedKept ==
    ASSUME EntriesOK, RecordsOK', NEW t \in Threads, OthersStay(t),
           disk \subseteq disk', \A i \in Inums : index'[i] = index[i],
           pc[t] \notin Changing, pc'[t] \notin Changing,
           \A i \in Inums : index[i] # 0 => SameTarget(heap'[index[i]], heap[index[i]])
    PROVE  Served' = Served
<1>1. ASSUME NEW i \in Inums PROVE MapItem(i)' = MapItem(i)
  <2>1. /\ Rewriting(i) = {u \in Threads : pc[u] \in Changing /\ InodeNum[key[u]] = i}
        /\ Rewriting(i)' = {u \in Threads : pc'[u] \in Changing /\ InodeNum[key'[u]] = i}
    BY RewritingIs
  <2>2. \A u \in Threads : (pc'[u] \in Changing /\ InodeNum[key'[u]] = i)
                             <=> (pc[u] \in Changing /\ InodeNum[key[u]] = i)
    BY DEF OthersStay
  <2>3. Rewriting(i)' = Rewriting(i)
    BY <2>1, <2>2
  <2>4. \A u \in Rewriting(i) : seg'[u] = seg[u]
    BY <2>1 DEF OthersStay
  <2> QED BY <2>3, <2>4, MapItemKept
<1> QED BY <1>1 DEF Served

LEMMA QuietSeen ==
    ASSUME CarefulOK, CarefulOK', LiveForEver, LiveForEver',
           NEW t \in Threads, Quiet(t)
    PROVE  /\ UNCHANGED disk /\ OthersStay(t) /\ Served' = Served
           /\ Calls' = [Calls EXCEPT ![t] = CallOf(t)']
           /\ \A n \in 1 .. Len(heap) : SameTarget(heap'[n], heap[n])
<1>1. Typed /\ EntriesOK /\ RecordsOK'
  BY DEF CarefulOK, LogOK
<1>2. /\ UNCHANGED disk /\ OthersStay(t)
      /\ pc[t] \notin Busy /\ pc'[t] \notin Busy
      /\ \A n \in 1 .. Len(heap) : SameTarget(heap'[n], heap[n])
  BY <1>1, QuietStep
<1>3. \A i \in Inums : index'[i] = index[i]
  <2>1. CASE Begins(t) BY <1>1, <2>1, BeginsStep DEF indexVars
  <2>2. CASE FetchSegment(t)
    BY <1>1, <2>2, FetchesStep DEF LiveForEver
  <2>3. CASE \/ Lookup(t, "update_lookup", "update_swap")
             \/ UpdateSwap(t) \/ UpdateConflict(t)
    BY <1>1, <2>3, UpdateBeginsStep
  <2> QED BY <2>1, <2>2, <2>3 DEF Quiet
<1>4. Changing \subseteq Busy
  BY DEF Changing, Torn, Busy, Behind
<1>5. Served' = Served
  BY <1>1, <1>2, <1>3, <1>4, ServedKept, PointersInHeap
<1>6. Calls' = [Calls EXCEPT ![t] = CallOf(t)']
  BY <1>1, <1>2, OthersCalls, PointersInHeap
<1> QED BY <1>2, <1>5, <1>6

LEMMA BeginsShown ==
    ASSUME CarefulOK, CarefulOK', LiveForEver, LiveForEver',
           NEW t \in Threads, Begins(t)
    PROVE  KVView!Begin(t)
<1>1. Typed /\ CallsOK' /\ CarriesRecord'
  BY DEF CarefulOK, Typed, Written
<1>2. /\ pc[t] = "idle"
      /\ pc'[t] \in {"put_append", "delete_append", "fetch_lookup", "update_lookup"}
  BY <1>1, BeginsStep
<1>3. InodeNum[key'[t]] \in Inums /\ seg'[t] \in Segment
  BY <1>1, KeyHasInum DEF CallsOK
<1>4. pc'[t] \in {"put_append", "update_lookup"} =>
         [key |-> seg'[t].key, value |-> seg'[t].value] \in [key : Keys, value : Values]
  BY <1>1, <1>3 DEF CarriesRecord, Writing, IsTombstone, Segment, Payloads
<1>5. CallOf(t) = NoCall
  BY <1>2, CallIs DEF CallKnown
<1>6. \/ CallOf(t)' = Pending("get", InodeNum[key'[t]], NoItem)
      \/ CallOf(t)' = Pending("delete", InodeNum[key'[t]], NoItem)
      \/ \E v \in [key : Keys, value : Values] :
            CallOf(t)' = Pending("put", InodeNum[key'[t]], v)
  <2>1. CallKnown(t)'
    BY CallIs
  <2>2. CASE pc'[t] \in {"put_append", "update_lookup"}
    BY <1>4, <2>1, <2>2 DEF CallKnown, Putting
  <2>3. CASE pc'[t] \in {"delete_append", "fetch_lookup"}
    BY <2>1, <2>3 DEF CallKnown, InDelete
  <2> QED BY <1>2, <2>2, <2>3
<1> QED BY <1>3, <1>5, <1>6, QuietSeen, SeenBegin DEF Quiet

LEMMA FetchShown ==
    ASSUME CarefulOK, CarefulOK', LiveForEver, LiveForEver',
           NEW t \in Threads, FetchSegment(t)
    PROVE  Shown(t)
<1> DEFINE o == InodeNum[key[t]]
<1>1. Typed /\ EntriesOK /\ RecordsOK /\ Careful /\ CallKnown(t) /\ CallKnown(t)'
  BY CallIs DEF CarefulOK, LogOK
<1>2. /\ UNCHANGED disk /\ Served' = Served
      /\ Calls' = [Calls EXCEPT ![t] = CallOf(t)']
  BY QuietSeen DEF Quiet
<1>3. UNCHANGED <<heap, key>> /\ o \in Inums
  BY <1>1, FetchesStep, KeyHasInum DEF Typed, CallsOK
<1>4. ASSUME NEW x, CallOf(t) = Over(x), pc'[t] = "idle" PROVE Shown(t)
  BY <1>1, <1>2, <1>4, SeenEnd DEF CallKnown, Shown
<1>5. ASSUME pc[t] \in Reading, pc'[t] \in Reading, ptr'[t] = ptr[t] PROVE Shown(t)
  <2>1. CallOf(t)' = CallOf(t)
    BY <1>1, <1>2, <1>3, <1>5 DEF CallKnown
  <2> QED BY <1>2, <2>1, SeenStutter DEF Shown
<1>6. CASE Lookup(t, "fetch_lookup", "fetch_expired_at")
  <2>1. /\ pc[t] = "fetch_lookup" /\ ptr'[t] = index[o]
        /\ pc'[t] = IF index[o] = 0 THEN "idle" ELSE "fetch_expired_at"
    BY <1>1, <1>6 DEF Lookup, Goto, Typed, CallsOK
  <2>2. Rewriting(o) = {}
    <3>1. \A u \in Threads : pc[u] \in InUpdate => InodeNum[key[u]] # o
      BY <1>1, <2>1 DEF Careful, InFetch, InUpdate
    <3> QED BY <3>1, RewritingIs DEF Changing, Torn, InUpdate
  <2>3. CallOf(t) = Pending("get", o, NoItem)
    BY <1>1, <2>1 DEF CallKnown
  <2>4. CASE index[o] = 0
    <3>1. MapItem(o) = NoItem
      BY <2>2, <2>4 DEF MapItem
    <3>2. CallOf(t)' = NoCall
      BY <1>1, <2>1, <2>4 DEF CallKnown
    <3> QED BY <1>2, <1>3, <2>3, <3>1, <3>2, SeenGet DEF Shown
  <2>5. CASE index[o] # 0
    <3>1. MapItem(o) = ItemAt(disk, heap[index[o]])
      BY <2>2, <2>5 DEF MapItem
    <3>2. pc'[t] \in Reading
      BY <2>1, <2>5 DEF Reading
    <3>3. CallOf(t)' = Over(ItemAt(disk', heap'[ptr'[t]]))
      BY <1>1, <3>2 DEF CallKnown
    <3>4. CallOf(t)' = Over(MapItem(o))
      BY <1>2, <1>3, <2>1, <3>1, <3>3
    <3> QED BY <1>2, <1>3, <2>3, <3>4, SeenGet DEF Shown
  <2> QED BY <2>4, <2>5
<1>7. CASE FetchExpiredAt(t) \/ FetchExpiredAtZero(t)
  <2>1. /\ pc[t] \in Reading /\ ptr'[t] = ptr[t]
        /\ pc'[t] \in Reading \cup {"fetch_evict"}
    BY <1>1, <1>7, MovesOthersStay
       DEF FetchExpiredAt, FetchExpiredAtZero, FetchStep, Reading, Typed
  <2>2. pc'[t] # "fetch_evict"
    BY DEF LiveForEver
  <2> QED BY <1>5, <2>1, <2>2
<1>8. CASE DeleteIndex(t, "fetch_evict")
  BY <1>8 DEF DeleteIndex, LiveForEver
<1>9. CASE FetchRegion(t)
  <2>1. pc[t] \in Reading /\ pc'[t] \in Reading \cup {"idle"} /\ ptr'[t] = ptr[t]
    BY <1>1, <1>9, MovesOthersStay DEF FetchRegion, FetchStep, Reading, Typed
  <2>2. CallOf(t) = Over(ItemAt(disk, heap[ptr[t]]))
    BY <1>1, <2>1 DEF CallKnown
  <2> QED BY <1>4, <1>5, <2>1, <2>2
<1>10. CASE FetchRead(t)
  <2>1. pc[t] = "fetch_read" /\ pc[t] \in Reading
    BY <1>10 DEF FetchRead, FetchStep, Reading
  <2>2. CallOf(t) = Over(ItemAt(disk, heap[ptr[t]]))
    BY <1>1, <2>1 DEF CallKnown
  <2>3. CASE pc'[t] = "idle"
    BY <1>4, <2>2, <2>3
  <2>4. CASE pc'[t] # "idle"
    <3>1. /\ pc'[t] = "fetch_version"
          /\ \E e \in Readable(t) :
                got' = [got EXCEPT ![t] = [key |-> key[t], read |-> e, version |-> 0]]
      BY <1>1, <1>10, <2>4, MovesOthersStay DEF FetchRead, FetchStep, Typed
    <3>2. got'[t].read \in Readable(t)
      BY <1>1, <3>1 DEF Typed, HistoryOK
    <3>3. /\ got'[t].read \in disk
          /\ got'[t].read.region = heap[ptr[t]].region
          /\ got'[t].read.pos = heap[ptr[t]].pos
      BY <1>1, <2>1, <3>2 DEF Readable, ReadSegment, EntriesOK, ReadersLead
    <3>4. ItemAt(disk, heap[ptr[t]]) = ItemOf(got'[t].read.seg)
      BY <1>1, <3>3, ItemAtRecord DEF RecordsOK
    <3>5. CallOf(t)' = CallOf(t)
      BY <1>1, <2>2, <3>1, <3>4 DEF CallKnown
    <3> QED BY <1>2, <3>5, SeenStutter DEF Shown
  <2> QED BY <2>3, <2>4
<1>11. CASE FetchVersion(t)
  <2>1. pc[t] = "fetch_version" /\ pc'[t] = "idle"
    BY <1>1, <1>11, MovesOthersStay DEF FetchVersion, FetchStep, Typed
  <2> QED BY <1>1, <1>4, <2>1 DEF CallKnown
<1> QED BY <1>6, <1>7, <1>8, <1>9, <1>10, <1>11 DEF FetchSegment

LEMMA UpdateBeginsShown ==
    ASSUME CarefulOK, CarefulOK', LiveForEver, LiveForEver', NEW t \in Threads,
           \/ Lookup(t, "update_lookup", "update_swap")
           \/ UpdateSwap(t) \/ UpdateConflict(t)
    PROVE  Shown(t)
<1>1. /\ pc[t] \in Putting /\ pc'[t] \in Putting \cup {"idle"}
      /\ UNCHANGED <<key, seg>>
  BY UpdateBeginsStep DEF CarefulOK, Putting
<1>2. /\ Served' = Served /\ Calls' = [Calls EXCEPT ![t] = CallOf(t)']
      /\ CallKnown(t) /\ CallKnown(t)'
  BY QuietSeen, CallIs DEF Quiet
<1>3. CASE pc'[t] = "idle"
  BY <1>1, <1>2, <1>3, SeenFail DEF CallKnown, Shown
<1>4. CASE pc'[t] \in Putting
  BY <1>1, <1>2, <1>4, SeenStutter DEF CallKnown, Shown
<1> QED BY <1>1, <1>3, <1>4

\* The inode number of t changes hands, and nothing else does.
LEMMA OneServed ==
    ASSUME NEW o \in Inums, NEW x, MapItem(o)' = x,
           \A i \in Inums : i # o => MapItem(i)' = MapItem(i)
    PROVE  Served' = [Served EXCEPT ![o] = x]
BY DEF Served

LEMMA AppendsShown ==
    ASSUME CarefulOK, CarefulOK', LiveForEver, LiveForEver',
           NEW t \in Threads, Appends(t)
    PROVE  Shown(t)
<1>1. /\ Typed /\ EntriesOK /\ RecordsOK' /\ Careful' /\ CallKnown(t) /\ CallKnown(t)'
      /\ InodeNum[key[t]] \in Inums
  BY CallIs, KeyHasInum DEF CarefulOK, LogOK, Typed, CallsOK
<1>2. /\ disk \subseteq disk' /\ UNCHANGED <<index, heap, key, seg>> /\ OthersStay(t)
      /\ \/ pc[t] = "put_append" /\ pc'[t] = "put_index"
         \/ pc[t] = "delete_append" /\ pc'[t] = "delete_add"
         \/ pc[t] = "update_append" /\ pc'[t] = "update_offset"
  BY <1>1, AppendsStep DEF indexVars, AppendLabels
<1>3. Calls' = [Calls EXCEPT ![t] = CallOf(t)']
  BY <1>1, <1>2, OthersCalls DEF SameTarget
<1>4. CASE pc[t] # "update_append"
  <2>1. pc[t] \notin Changing /\ pc'[t] \notin Changing
    BY <1>2, <1>4 DEF Changing, Torn
  <2>2. Served' = Served
    BY <1>1, <1>2, <2>1, ServedKept DEF SameTarget
  <2>3. CallOf(t)' = CallOf(t)
    BY <1>1, <1>2, <1>4 DEF CallKnown, Putting, InDelete
  <2> QED BY <1>3, <2>2, <2>3, SeenStutter DEF Shown
<1>5. CASE pc[t] = "update_append"
  <2>1. \A u \in Threads : u # t => pc[u] \notin Changing /\ pc'[u] \notin Changing
    BY <1>1, <1>2, <1>5 DEF Careful, OthersStay, InUpdate, Changing, Torn
  <2>2. pc[t] \notin Changing /\ pc'[t] \in Changing
    BY <1>2, <1>5 DEF Changing, Torn
  <2> PICK o \in Inums : o = InodeNum[key[t]]
    BY <1>1
  <2>3. Rewriting(o)' = {t} /\ \A i : Rewriting(i) = {}
    BY <1>2, <2>1, <2>2, RewritingIs
  <2>4. ASSUME NEW i \in Inums, i # o PROVE MapItem(i)' = MapItem(i)
    <3>1. Rewriting(i)' = {}
      BY <1>2, <2>1, <2>4, RewritingIs
    <3> QED BY <1>1, <1>2, <2>3, <3>1, MapItemKept DEF SameTarget
  <2>5. MapItem(o)' = ItemOf(seg[t])
    <3>1. (CHOOSE u \in {t} : TRUE) = t
      OBVIOUS
    <3> QED BY <1>2, <2>3, <3>1 DEF MapItem
  <2>6. Served' = [Served EXCEPT ![o] = ItemOf(seg[t])]
    BY <2>4, <2>5, OneServed
  <2>7. /\ CallOf(t) = Pending("put", o, [key |-> seg[t].key, value |-> seg[t].value])
        /\ CallOf(t)' = Over(NoItem)
    BY <1>1, <1>2, <1>5 DEF CallKnown, Putting, Returning
  <2>8. seg[t].expired = 0
    BY <1>5 DEF LiveForEver, Writing, Updating
  <2> QED BY <1>1, <1>3, <2>6, <2>7, <2>8, SeenPut DEF Shown
<1> QED BY <1>4, <1>5

LEMMA PutIndexShown ==
    ASSUME CarefulOK, CarefulOK', LiveForEver, NEW t \in Threads, PutIndex(t)
    PROVE  Shown(t)
<1> DEFINE new == Len(heap) + 1
           r == Record(active, offset, seg[t])
<1>1. /\ Typed /\ EntriesOK /\ LogOK /\ RecordsOK /\ RecordsOK' /\ Careful
      /\ CallKnown(t) /\ CallKnown(t)'
  BY CallIs DEF CarefulOK, LogOK
<1>2. /\ UNCHANGED <<disk, key, seg, ptr>> /\ OthersStay(t)
      /\ pc[t] = "put_index" /\ pc'[t] = "put_load"
      /\ \A i \in Inums : index'[i] = IF i = InodeNum[key[t]] THEN new ELSE index[i]
      /\ \A n \in 1 .. Len(heap) : heap'[n] = heap[n]
      /\ heap'[new] = HeapINode(active, offset, seg[t])
      /\ IsLast(r, disk)
  BY <1>1, PutIndexStep
<1>3. PICK o \in Inums : o = InodeNum[key[t]]
  BY <1>1, KeyHasInum DEF Typed, CallsOK
<1>4. Calls' = [Calls EXCEPT ![t] = CallOf(t)']
  BY <1>1, <1>2, OthersCalls, PointersInHeap DEF SameTarget
<1>5. \A i : Rewriting(i) = {} /\ Rewriting(i)' = {}
  <2>1. \A u \in Threads : pc[u] \notin Changing /\ pc'[u] \notin Changing
    BY <1>1, <1>2, NoUpdateBeside DEF OthersStay, InPut, InUpdate, Changing, Torn
  <2> QED BY <2>1, RewritingIs
<1>6. ItemAt(disk, heap'[new]) = ItemOf(seg[t])
  <2>1. /\ r \in disk /\ r.seg = seg[t]
        /\ heap'[new].region = r.region /\ heap'[new].pos = r.pos
    BY <1>2 DEF IsLast, Record, HeapINode
  <2> HIDE DEF r, new
  <2> QED BY <1>1, <2>1, ItemAtRecord DEF RecordsOK
<1>7. MapItem(o)' = ItemOf(seg[t])
  <2>1. index'[o] = new /\ new # 0
    BY <1>1, <1>2, <1>3, PointersInHeap
  <2> HIDE DEF new
  <2> QED BY <1>2, <1>5, <1>6, <2>1 DEF MapItem
<1> HIDE DEF new, r
<1>8. ASSUME NEW i \in Inums, i # o PROVE MapItem(i)' = MapItem(i)
  BY <1>1, <1>2, <1>3, <1>5, <1>8, MapItemKept, PointersInHeap DEF SameTarget
<1>9. Served' = [Served EXCEPT ![o] = ItemOf(seg[t])]
  BY <1>7, <1>8, OneServed
<1>10. /\ CallOf(t) = Pending("put", o, [key |-> seg[t].key, value |-> seg[t].value])
       /\ CallOf(t)' = Over(NoItem)
  BY <1>1, <1>2, <1>3 DEF CallKnown, Putting, Returning
<1>11. seg[t].expired = 0
  BY <1>2 DEF LiveForEver, Writing
<1> QED BY <1>4, <1>9, <1>10, <1>11, SeenPut DEF Shown

LEMMA DeleteIndexShown ==
    ASSUME CarefulOK, CarefulOK', NEW t \in Threads, DeleteIndex(t, "delete_index")
    PROVE  Shown(t)
<1>1. /\ Typed /\ EntriesOK /\ RecordsOK' /\ Careful /\ CallKnown(t) /\ CallKnown(t)'
  BY CallIs DEF CarefulOK, LogOK
<1>2. /\ UNCHANGED <<disk, heap, key, seg>> /\ OthersStay(t)
      /\ pc[t] = "delete_index" /\ pc'[t] = "idle"
      /\ \A i \in Inums : index'[i] = IF i = InodeNum[key[t]] THEN 0 ELSE index[i]
  BY <1>1, DeleteStep
<1>3. PICK o \in Inums : o = InodeNum[key[t]]
  BY <1>1, KeyHasInum DEF Typed, CallsOK
<1>4. Calls' = [Calls EXCEPT ![t] = CallOf(t)']
  BY <1>1, <1>2, OthersCalls DEF SameTarget
<1>5. \A i : Rewriting(i) = {} /\ Rewriting(i)' = {}
  <2>1. \A u \in Threads : pc[u] \notin Changing /\ pc'[u] \notin Changing
    BY <1>1, <1>2, NoUpdateBeside DEF OthersStay, InDelete, InUpdate, Changing, Torn
  <2> QED BY <2>1, RewritingIs
<1>6. MapItem(o)' = NoItem
  BY <1>2, <1>3, <1>5 DEF MapItem
<1>7. ASSUME NEW i \in Inums, i # o PROVE MapItem(i)' = MapItem(i)
  BY <1>1, <1>2, <1>3, <1>5, <1>7, MapItemKept DEF SameTarget
<1>8. Served' = [Served EXCEPT ![o] = NoItem]
  BY <1>6, <1>7, OneServed
<1>9. CallOf(t) = Pending("delete", o, NoItem) /\ CallOf(t)' = NoCall
  BY <1>1, <1>2, <1>3 DEF CallKnown, InDelete
<1> QED BY <1>4, <1>8, <1>9, SeenDelete DEF Shown

\* While an update changes its INode the map has what it appended, and after the
\* last store the INode leads there.
LEMMA UpdateINodeShown ==
    ASSUME CarefulOK, CarefulOK', LiveForEver, NEW t \in Threads, UpdateINode(t)
    PROVE  Shown(t)
<1> DEFINE r == Record(active, offset, seg[t])
<1>1. /\ Typed /\ Written /\ Careful /\ LogOK /\ EntriesOK /\ RecordsOK /\ RecordsOK'
      /\ CallKnown(t) /\ CallKnown(t)'
  BY CallIs DEF CarefulOK, LogOK
<1>2. /\ UNCHANGED <<disk, index, key, seg, ptr>> /\ OthersStay(t)
      /\ ptr[t] \in 1 .. Len(heap)
      /\ \A n \in 1 .. Len(heap) : n # ptr[t] => heap'[n] = heap[n]
      /\ \/ /\ pc[t] \in Changing \ {"update_region"} /\ pc'[t] \in Changing
         \/ /\ pc[t] = "update_region" /\ pc'[t] = "update_add"
            /\ heap'[ptr[t]] = [heap[ptr[t]] EXCEPT !.region = tmp[t]]
  <2>1. /\ UNCHANGED <<disk, index, key, seg, ptr>> /\ OthersStay(t)
        /\ ptr[t] \in 1 .. Len(heap)
        /\ \A n \in 1 .. Len(heap) : n # ptr[t] => heap'[n] = heap[n]
    BY <1>1, UpdateINodeStep
  <2>2. \/ /\ pc[t] \in Changing \ {"update_region"} /\ pc'[t] \in Changing
        \/ /\ pc[t] = "update_region" /\ pc'[t] = "update_add"
           /\ heap'[ptr[t]] = [heap[ptr[t]] EXCEPT !.region = tmp[t]]
    BY <1>1, UpdateINodeStep DEF Changing, Torn
  <2> QED BY <2>1, <2>2
<1>3. PICK o \in Inums : o = InodeNum[key[t]]
  BY <1>1, KeyHasInum DEF Typed, CallsOK
<1>4. pc[t] \in Owning /\ pc[t] \in Unsettled /\ pc[t] \in Changing
  BY <1>2 DEF Changing, Owning, Torn, Unsettled
<1>5. /\ ptr[t] = index[o] /\ ptr[t] # 0
      /\ \A i \in Inums : i # o => index[i] # ptr[t]
      /\ \A u \in Threads : pc[u] \in Reading => ptr[u] # ptr[t]
      /\ \A u \in Threads : u # t => pc[u] \notin Owning
  BY <1>1, <1>3, <1>4, UpdateIsAlone
<1>6. Calls' = [Calls EXCEPT ![t] = CallOf(t)']
  <2>1. \A u \in Threads : pc[u] \in Reading => SameTarget(heap'[ptr[u]], heap[ptr[u]])
    BY <1>1, <1>2, <1>5, PointersInHeap DEF SameTarget
  <2> QED BY <1>1, <1>2, <2>1, OthersCalls
<1>7. CallOf(t)' = CallOf(t)
  BY <1>1, <1>2, <1>4 DEF CallKnown, Returning, Changing, Torn
<1>8. \A u \in Threads : u # t => pc[u] \notin Changing /\ pc'[u] \notin Changing
  BY <1>2, <1>5 DEF OthersStay, Owning, Torn, Changing
<1>9. ASSUME NEW i \in Inums, i # o PROVE MapItem(i)' = MapItem(i)
  <2>1. Rewriting(i) = {} /\ Rewriting(i)' = {}
    BY <1>2, <1>3, <1>8, <1>9, RewritingIs
  <2>2. index[i] # 0 => SameTarget(heap'[index[i]], heap[index[i]])
    BY <1>1, <1>2, <1>5, <1>9, PointersInHeap DEF SameTarget
  <2> QED BY <1>1, <1>2, <2>1, <2>2, MapItemKept
<1>10. Rewriting(o) = {t} /\ MapItem(o) = ItemOf(seg[t])
  <2>1. Rewriting(o) = {t} /\ (CHOOSE u \in {t} : TRUE) = t
    BY <1>3, <1>8, <1>4, RewritingIs
  <2> QED BY <2>1 DEF MapItem
<1>11. MapItem(o)' = ItemOf(seg[t])
  <2>1. CASE pc'[t] \in Changing
    <3>1. Rewriting(o)' = {t} /\ (CHOOSE u \in {t} : TRUE) = t
      BY <1>2, <1>3, <1>8, <2>1, RewritingIs
    <3> QED BY <1>2, <3>1 DEF MapItem
  <2>2. CASE pc'[t] \notin Changing
    <3>1. Rewriting(o)' = {}
      BY <1>8, <2>2, RewritingIs
    <3>2. /\ pc[t] = "update_region"
          /\ heap'[ptr[t]] = [heap[ptr[t]] EXCEPT !.region = tmp[t]]
          /\ heap[ptr[t]] \in HeapObject
      BY <1>1, <1>2, <2>2 DEF Typed, HeapOK
    <3>3. tmp[t] = active /\ IsLast(r, disk) /\ heap[ptr[t]].pos = offset
      BY <1>1, <1>4, <3>2 DEF LogOK, OffsetOK, OffsetKnown, EntriesOK, UpdatersOwn, Torn
    <3>4. /\ r \in disk /\ r.seg = seg[t]
          /\ heap'[ptr[t]].region = r.region /\ heap'[ptr[t]].pos = r.pos
      BY <3>2, <3>3 DEF IsLast, Record, HeapObject
    <3> HIDE DEF r
    <3>5. ItemAt(disk, heap'[ptr[t]]) = ItemOf(seg[t])
      BY <1>1, <3>4, ItemAtRecord DEF RecordsOK
    <3> QED BY <1>2, <1>5, <3>1, <3>5 DEF MapItem
  <2> QED BY <2>1, <2>2
<1>12. Served' = Served
  <2>1. \A i \in Inums : MapItem(i)' = MapItem(i)
    BY <1>9, <1>10, <1>11
  <2> QED BY <2>1 DEF Served
<1> QED BY <1>6, <1>7, <1>12, SeenStutter DEF Shown

LEMMA AsideShown ==
    ASSUME CarefulOK, CarefulOK', NEW t \in Threads, GoesOnAside(t)
    PROVE  Shown(t)
<1>1. Typed /\ EntriesOK /\ RecordsOK' /\ CallKnown(t) /\ CallKnown(t)'
  BY CallIs DEF CarefulOK, LogOK
<1>2. /\ UNCHANGED <<disk, index, heap, key, seg, ptr>> /\ OthersStay(t)
      /\ pc[t] \in Returning \cup {"delete_add"}
      /\ pc'[t] \in Returning \cup {"delete_index", "idle"}
      /\ pc[t] \notin Changing /\ pc'[t] \notin Changing
      /\ pc'[t] = "delete_index" <=> pc[t] = "delete_add"
  BY <1>1, AsideStep DEF Returning, Changing, Torn
<1>3. Served' = Served /\ Calls' = [Calls EXCEPT ![t] = CallOf(t)']
  BY <1>1, <1>2, ServedKept, OthersCalls DEF SameTarget
<1>4. CASE pc[t] = "delete_add"
  <2>1. CallOf(t)' = CallOf(t)
    BY <1>1, <1>2, <1>4 DEF CallKnown, InDelete
  <2> QED BY <1>3, <2>1, SeenStutter DEF Shown
<1>5. CASE pc[t] # "delete_add" /\ pc'[t] # "idle"
  <2>1. CallOf(t)' = CallOf(t)
    BY <1>1, <1>2, <1>5 DEF CallKnown
  <2> QED BY <1>3, <2>1, SeenStutter DEF Shown
<1>6. CASE pc[t] # "delete_add" /\ pc'[t] = "idle"
  BY <1>1, <1>2, <1>3, <1>6, SeenEnd DEF CallKnown, Shown
<1> QED BY <1>4, <1>5, <1>6

LEMMA NextShown ==
    ASSUME Faults = {}, CarefulOK, CarefulOK', LiveForEver, LiveForEver', [Next]_vars
    PROVE  [KVView!Next]_(KVView!vars)
<1> SUFFICES KVView!Next \/ UNCHANGED Seen
  BY DEF KVView!vars, Seen, Served, Calls
<1>1. ASSUME NEW t \in Threads, Quiet(t) PROVE Shown(t)
  BY <1>1, BeginsShown, FetchShown, UpdateBeginsShown DEF Quiet, Shown
<1>2. ASSUME NEW t \in Threads, GoesOn(t) PROVE Shown(t)
  BY <1>2, PutIndexShown, DeleteIndexShown, UpdateINodeShown, AsideShown
     DEF GoesOn, GoesOnAside
<1>3. CASE UNCHANGED vars
  <2>1. \A i : MapItem(i)' = MapItem(i)
    BY <1>3 DEF vars, indexVars, callVars, MapItem, Rewriting
  <2>2. \A t \in Threads : CallOf(t)' = CallOf(t)
    BY <1>3 DEF vars, indexVars, callVars, CallOf, Called, Over
  <2> QED BY <2>1, <2>2 DEF Seen, Served, Calls
<1>4. ASSUME NEW t \in Threads, Shown(t) PROVE KVView!Next \/ UNCHANGED Seen
  BY <1>4 DEF Shown, KVView!Next
<1> QED BY <1>1, <1>2, <1>3, <1>4, StepsThereAre, AppendsShown

LEMMA InitShown == ASSUME NeverExpires PROVE Init => KVView!Resumed
<1> SUFFICES ASSUME Init PROVE KVView!Resumed
  OBVIOUS
<1>1. Typed /\ EntriesOK /\ RecordsOK /\ LiveForEver
  BY InitTyped, InitEntriesOK, InitLogOK, InitLatestOK DEF LogOK
<1>2. \A t \in Threads : pc[t] = "idle"
  BY DEF Init
<1>3. ASSUME NEW i \in Inums PROVE MapItem(i) \in KVView!Map!Item \cup {NoItem}
  <2>1. Rewriting(i) = {} /\ i \notin Rewritten
    BY <1>2, RewritingIs DEF Changing, Torn, Rewritten
  <2>2. ASSUME index[i] # 0 PROVE MapItem(i) \in KVView!Map!Item
    <3>1. PICK e \in disk : /\ e.region = heap[index[i]].region
                            /\ e.pos = heap[index[i]].pos
                            /\ ~ IsTombstone(e.seg)
      BY <1>1, <2>1, <2>2 DEF EntriesOK, EntriesLead, LeadsTo
    <3>2. MapItem(i) = ItemOf(e.seg)
      BY <1>1, <2>1, <2>2, <3>1, ItemAtRecord DEF MapItem, RecordsOK
    <3>3. e.seg \in Segment
      BY <1>1 DEF Typed, FilesOK, Entry
    <3> QED BY <3>1, <3>2, <3>3
            DEF ItemOf, IsTombstone, Segment, Payloads, KVView!Map!Item
  <2> QED BY <2>1, <2>2 DEF MapItem
<1>4. Calls = [t \in Threads |-> KVView!Idle]
  BY <1>2, CallIs DEF Calls, CallKnown, NoCall, KVView!Idle
<1> QED BY <1>3, <1>4 DEF KVView!Resumed, Calls

\* Without times to live, careful clients see a map: every call takes effect in
\* one step between its begin and its end, and a fetch returns what the last
\* put, delete or update before its lookup left, through rotations and whatever
\* is written while it reads.
THEOREM LFSIsMap ==
    ASSUME Faults = {}, NeverExpires PROVE CarefulSpec => Linearizable
<1>1. Init => KVView!Resumed
  BY InitShown
<1>2. ASSUME CarefulOK, LiveForEver, CarefulOK', LiveForEver', [Next /\ Careful']_vars
      PROVE  [KVView!Next]_(KVView!vars)
  BY <1>2, NextShown
<1> QED
  BY <1>1, <1>2, AlwaysLatestOK, PTL DEF CarefulSpec, Linearizable, KVView!ResumedSpec
=============================================================================
