----------------------------- MODULE LFSProofs -----------------------------
(***************************************************************************)
(* Theorems about LFS, for any goroutines, keys, sizes and bounds.         *)
(***************************************************************************)
EXTENDS LFS, TLAPS

-----------------------------------------------------------------------------
(***************************************************************************)
(* Types and the lock.                                                     *)
(***************************************************************************)

HeapObject == [region : Nat, pos : Nat, created : Nat, expired : Nat, mvcc : Nat]

Fetched == [key : Keys, read : Entry, version : Nat]

Win == [inode : Nat, got : Fetched]

\* Where the goroutine will go through the INode pointer it looked up.
Holding ==
    Dereferencing \cup {"update_append", "update_offset", "update_region_id"}

\* Where the goroutine needs the result of its fetch.
Judging == {"fetch_version", "update_lookup", "update_swap"}

FilesOK ==
    /\ disk \subseteq Entry
    /\ fsize \in [RegionIds -> Nat]
    /\ regionID \in RegionIds /\ active \in RegionIds
    /\ regions \subseteq RegionIds
    /\ offset \in Nat /\ clock \in Nat

HeapOK ==
    /\ heap \in Seq(HeapObject)
    /\ index \in [Inums -> 0 .. Len(heap)]

CallsOK ==
    /\ key \in [Threads -> Keys]
    /\ seg \in [Threads -> Segment]
    /\ pc \in [Threads -> Labels]
    /\ ptr \in [Threads -> 0 .. Len(heap)]
    /\ tmp \in [Threads -> Nat]
    /\ \A t \in Threads : pc[t] \in Holding => ptr[t] # 0

LockOK == \A t \in Threads : pc[t] \in Locked <=> mu = t

HistoryOK ==
    /\ got \in [Threads -> Fetched \cup {NoResult}]
    /\ \A t \in Threads : pc[t] \in Judging => got[t] \in Fetched
    /\ won \in Seq(Win)

Typed == FilesOK /\ HeapOK /\ CallsOK /\ LockOK /\ HistoryOK

LEMMA SizeIsNat ==
    ASSUME NEW s \in Segment PROVE Size(s) \in Nat /\ Size(s) > 0
<1>1. <<s.key, s.value>> \in Keys \X Payloads
  BY DEF Segment
<1> QED BY <1>1, RegionsAssumption DEF Size

LEMMA KeyHasInum == \A k \in Keys : InodeNum[k] \in Inums
BY DEF Inums

LEMMA InitTyped == Init => Typed
<1> SUFFICES ASSUME Init PROVE Typed
  OBVIOUS
<1>1. /\ \A k \in Stored : NewSegment(k, FirstValue, 0, 1) \in Segment
      /\ Header \in Nat /\ MaxRegion \in Nat \ {0} /\ 1 \in RegionIds
  BY RegionsAssumption, LFSAssumption DEF NewSegment, Segment, Payloads, RegionIds
<1>2. Stored # {} => (CHOOSE k \in Stored : TRUE) \in Stored
  OBVIOUS
<1> DEFINE first == [k \in Stored |-> NewSegment(k, FirstValue, 0, 1)]
<1> DEFINE one == CHOOSE k \in Stored : TRUE
<1>3. Stored # {} => first[one] \in Segment
  BY <1>1, <1>2
<1>4. FilesOK
  <2>1. disk \subseteq Entry
    BY <1>1 DEF Init, Record, Entry
  <2>2. fsize \in [RegionIds -> Nat]
    <3>1. Stored # {} => Size(first[one]) \in Nat
      BY <1>3, SizeIsNat
    <3> HIDE DEF first, one
    <3>2. fsize = [r \in RegionIds |->
                     IF r # 1 THEN 0
                     ELSE IF Stored = {} THEN Header ELSE Header + Size(first[one])]
      BY DEF Init, first, one
    <3> QED BY <1>1, <3>1, <3>2
  <2> QED BY <1>1, <2>1, <2>2 DEF Init, FilesOK
<1>5. HeapOK
  <2> HIDE DEF first, one
  <2>1. heap = IF Stored = {} THEN <<>> ELSE <<HeapINode(1, Header, first[one])>>
    BY DEF Init, first, one
  <2>2. Stored # {} => HeapINode(1, Header, first[one]) \in HeapObject
    BY <1>1, <1>3 DEF HeapINode, HeapObject, Segment
  <2>3. heap \in Seq(HeapObject)
    BY <2>1, <2>2
  <2>4. Len(heap) = IF Stored = {} THEN 0 ELSE 1
    BY <2>1
  <2>5. index \in [Inums -> 0 .. Len(heap)]
    BY <2>4 DEF Init
  <2> QED BY <2>3, <2>5 DEF HeapOK
<1>6. CallsOK
  <2>1. (CHOOSE k \in Keys : TRUE) \in Keys
    BY LFSAssumption
  <2>2. key \in [Threads -> Keys]
    BY <2>1 DEF Init
  <2>3. seg \in [Threads -> Segment]
    BY <2>2 DEF Init, NewTombstoneSegment, Segment, Payloads
  <2> QED BY <1>5, <2>2, <2>3 DEF Init, CallsOK, HeapOK, Labels, Holding, Dereferencing
<1>7. LockOK
  BY LFSAssumption DEF Init, LockOK, Locked
<1>8. HistoryOK
  BY DEF Init, HistoryOK, Judging
<1> QED BY <1>4, <1>5, <1>6, <1>7, <1>8 DEF Typed

-----------------------------------------------------------------------------
(***************************************************************************)
(* What a step of goroutine t to label l leaves of each part of Typed.     *)
(***************************************************************************)

LEMMA FilesKept ==
    ASSUME FilesOK, UNCHANGED <<disk, fsize, regionVars, offset, clock>>
    PROVE  FilesOK'
BY DEF FilesOK, regionVars

LEMMA HeapKept == ASSUME HeapOK, UNCHANGED indexVars PROVE HeapOK'
BY DEF HeapOK, indexVars

LEMMA CallsMove ==
    ASSUME CallsOK, NEW t \in Threads, NEW l \in Labels, Goto(t, l),
           UNCHANGED <<key, seg, ptr, tmp>>, Len(heap') = Len(heap),
           l \in Holding => ptr[t] # 0
    PROVE  CallsOK'
BY DEF CallsOK, Goto

LEMMA LockMove ==
    ASSUME CallsOK, LockOK, NEW t \in Threads, NEW l \in Labels, Goto(t, l),
           UNCHANGED mu, l \in Locked <=> pc[t] \in Locked
    PROVE  LockOK'
BY DEF CallsOK, LockOK, Goto

LEMMA LockTaken ==
    ASSUME CallsOK, LockOK, NEW t \in Threads, NEW l \in Locked, Goto(t, l),
           mu = NoThread, mu' = t
    PROVE  LockOK'
BY LFSAssumption DEF CallsOK, LockOK, Goto

LEMMA LockFreed ==
    ASSUME CallsOK, LockOK, NEW t \in Threads, NEW l \in Labels \ Locked,
           Goto(t, l), pc[t] \in Locked, mu' = NoThread
    PROVE  LockOK'
BY LFSAssumption DEF CallsOK, LockOK, Goto

LEMMA HistoryMove ==
    ASSUME CallsOK, HistoryOK, NEW t \in Threads, NEW l \in Labels, Goto(t, l),
           UNCHANGED <<got, won>>, l \in Judging => got[t] \in Fetched
    PROVE  HistoryOK'
BY DEF CallsOK, HistoryOK, Goto

\* A step that changes neither the files nor the index, nor lfs.mu.
LEMMA OnlyMoves ==
    ASSUME Typed, NEW t \in Threads, NEW l \in Labels, Goto(t, l),
           UNCHANGED <<disk, fsize, regionVars, offset, indexVars, mu, callVars>>,
           UNCHANGED <<ptr, tmp, got, won>>,
           l \in Locked <=> pc[t] \in Locked,
           l \in Holding => ptr[t] # 0,
           l \in Judging => got[t] \in Fetched
    PROVE  Typed'
<1> USE DEF Typed, callVars
<1>1. FilesOK' BY FilesKept
<1>2. HeapOK' /\ Len(heap') = Len(heap)
  BY HeapKept DEF indexVars
<1>3. CallsOK' BY <1>2, CallsMove
<1>4. LockOK' BY LockMove
<1>5. HistoryOK' BY HistoryMove
<1> QED BY <1>1, <1>2, <1>3, <1>4, <1>5

-----------------------------------------------------------------------------
(***************************************************************************)
(* Every step keeps Typed.                                                 *)
(***************************************************************************)

LEMMA CallTyped ==
    ASSUME Typed, NEW t \in Threads,
           CallPut(t) \/ CallDelete(t) \/ CallFetch(t) \/ CallUpdate(t)
    PROVE  Typed'
<1> USE DEF Typed
<1>1. ASSUME NEW op, NEW k \in Keys, NEW s \in Segment, NEW l,
             l \in {"put_append", "delete_append", "fetch_lookup", "update_lookup"},
             l = "update_lookup" => got[t] \in Fetched,
             Call(t, op, k, s, l)
      PROVE  Typed'
  <2> USE <1>1
  <2>1. /\ l \in Labels /\ l \notin Locked /\ l \notin Holding
        /\ l \in Judging => got[t] \in Fetched
        /\ pc[t] \notin Locked
    BY DEF Call, Labels, Locked, Holding, Dereferencing, Judging
  <2>2. FilesOK'
    BY DEF FilesOK, Call, regionVars
  <2>3. HeapOK' /\ Len(heap') = Len(heap)
    BY HeapKept DEF Call, indexVars
  <2>4. CallsOK'
    BY <2>1, <2>3 DEF CallsOK, Call, Goto
  <2>5. LockOK'
    BY <2>1, LockMove DEF Call
  <2>6. HistoryOK'
    BY <2>1, HistoryMove DEF Call
  <2> QED BY <2>2, <2>3, <2>4, <2>5, <2>6
<1>2. clock \in Nat /\ seg[t] \in Segment
  BY DEF FilesOK, CallsOK
<1>3. CASE CallPut(t)
  <2>1. PICK k \in Keys, v \in Values, ttl \in Ttls :
           Call(t, "put", k, NewSegment(k, v, ttl, clock + 1), "put_append")
    BY <1>3 DEF CallPut
  <2>2. NewSegment(k, v, ttl, clock + 1) \in Segment
    BY <1>2, LFSAssumption DEF NewSegment, Segment, Payloads
  <2> QED BY <1>1, <2>1, <2>2
<1>4. CASE CallDelete(t)
  <2>1. PICK k \in Keys :
           Call(t, "delete", k, NewTombstoneSegment(k, clock + 1), "delete_append")
    BY <1>4 DEF CallDelete
  <2>2. NewTombstoneSegment(k, clock + 1) \in Segment
    BY <1>2 DEF NewTombstoneSegment, Segment, Payloads
  <2> QED BY <1>1, <2>1, <2>2
<1>5. CASE CallFetch(t)
  BY <1>1, <1>2, <1>5 DEF CallFetch
<1>6. CASE CallUpdate(t)
  <2>1. got[t] \in Fetched /\ got[t].key \in Keys
    BY <1>6 DEF CallUpdate, HistoryOK, Fetched
  <2>2. PICK v \in Values, ttl \in Ttls :
           Call(t, "update", got[t].key,
                NewSegment(got[t].key, v, ttl, clock + 1), "update_lookup")
    BY <1>6 DEF CallUpdate
  <2>3. NewSegment(got[t].key, v, ttl, clock + 1) \in Segment
    BY <1>2, <2>1, LFSAssumption DEF NewSegment, Segment, Payloads
  <2> QED BY <1>1, <2>1, <2>2, <2>3
<1> QED BY <1>3, <1>4, <1>5, <1>6

LEMMA RecordIsEntry ==
    ASSUME FilesOK, NEW s \in Segment
    PROVE  Record(active, fsize[active], s) \in Entry
BY DEF FilesOK, Record, Entry, RegionIds

\* The append at the start of every call that writes.
LEMMA AppendTyped ==
    ASSUME Typed, NEW t \in Threads, AppendToActiveRegion(t),
           UNCHANGED <<regionVars, offset, clock>>
    PROVE  FilesOK'
<1> USE DEF Typed
<1>1. seg[t] \in Segment /\ Size(seg[t]) \in Nat
  BY SizeIsNat DEF CallsOK
<1>2. disk' \subseteq Entry
  BY <1>1, RecordIsEntry DEF FilesOK, AppendToActiveRegion
<1>3. fsize' \in [RegionIds -> Nat]
  BY <1>1 DEF FilesOK, AppendToActiveRegion
<1> QED BY <1>2, <1>3 DEF FilesOK, regionVars

LEMMA LockedAppendTyped ==
    ASSUME Typed, NEW t \in Threads, NEW from, NEW to,
           LockedAppend(t, from, to),
           <<from, to>> \in {<<"delete_append", "delete_add">>,
                             <<"update_append", "update_offset">>}
    PROVE  Typed'
<1> USE DEF Typed
<1>1. /\ from \notin Locked /\ to \in Labels /\ to \notin Locked
      /\ to \in Holding => from \in Holding
      /\ to \notin Judging
  BY DEF Labels, Locked, Holding, Dereferencing, Judging
<1>2. FilesOK' BY AppendTyped DEF LockedAppend, callVars
<1>3. HeapOK' /\ Len(heap') = Len(heap)
  BY HeapKept DEF LockedAppend, indexVars
<1>4. CallsOK'
  BY <1>1, <1>3, CallsMove DEF LockedAppend, CallsOK, callVars
<1>5. LockOK' BY <1>1, LockMove DEF LockedAppend
<1>6. HistoryOK' BY <1>1, HistoryMove DEF LockedAppend
<1> QED BY <1>2, <1>3, <1>4, <1>5, <1>6

LEMMA AppendFailsTyped ==
    ASSUME Typed, NEW t \in Threads, NEW from,
           AppendFails(t, from),
           from \in {"put_append", "delete_append", "update_append"}
    PROVE  Typed'
<1> USE DEF Typed
<1>1. /\ from \notin Locked /\ "idle" \in Labels /\ "idle" \notin Locked
      /\ "idle" \notin Holding /\ "idle" \notin Judging
  BY DEF Labels, Locked, Holding, Dereferencing, Judging
<1>2. FilesOK'
  <2>1. seg[t] \in Segment /\ Size(seg[t]) \in Nat
    BY SizeIsNat DEF CallsOK
  <2>2. PICK n \in 0 .. Size(seg[t]) - 1 :
           fsize' = [fsize EXCEPT ![active] = @ + n]
    BY DEF AppendFails
  <2>3. n \in Nat BY <2>1, <2>2
  <2>4. fsize' \in [RegionIds -> Nat]
    BY <2>2, <2>3 DEF FilesOK
  <2> QED BY <2>4 DEF AppendFails, FilesOK, regionVars, callVars
<1>3. HeapOK' /\ Len(heap') = Len(heap)
  BY HeapKept DEF AppendFails, indexVars
<1>4. CallsOK' BY <1>1, <1>3, CallsMove DEF AppendFails, callVars
<1>5. LockOK' BY <1>1, LockMove DEF AppendFails
<1>6. HistoryOK' BY <1>1, HistoryMove DEF AppendFails
<1> QED BY <1>2, <1>3, <1>4, <1>5, <1>6

LEMMA AddOffsetTyped ==
    ASSUME Typed, NEW t \in Threads, NEW from, NEW to, AddOffset(t, from, to),
           <<from, to>> \in {<<"delete_add", "delete_index">>,
                             <<"update_add", "update_check">>}
    PROVE  Typed'
<1> USE DEF Typed
<1>1. /\ from \notin Locked /\ to \in Labels /\ to \notin Locked
      /\ to \notin Holding /\ to \notin Judging
  BY DEF Labels, Locked, Holding, Dereferencing, Judging
<1>2. FilesOK'
  <2>1. Size(seg[t]) \in Nat BY SizeIsNat DEF CallsOK
  <2> QED BY <2>1 DEF AddOffset, FilesOK, regionVars, callVars
<1>3. HeapOK' /\ Len(heap') = Len(heap)
  BY HeapKept DEF AddOffset, indexVars
<1>4. CallsOK' BY <1>1, <1>3, CallsMove DEF AddOffset, callVars
<1>5. LockOK' BY <1>1, LockMove DEF AddOffset
<1>6. HistoryOK' BY <1>1, HistoryMove DEF AddOffset
<1> QED BY <1>2, <1>3, <1>4, <1>5, <1>6

LEMMA LookupTyped ==
    ASSUME Typed, NEW t \in Threads, NEW from, NEW to, Lookup(t, from, to),
           <<from, to>> \in {<<"fetch_lookup", "fetch_expired_at">>,
                             <<"update_lookup", "update_swap">>}
    PROVE  Typed'
<1> USE DEF Typed
<1>1. /\ from \notin Locked /\ {to, "idle"} \subseteq Labels
      /\ to \notin Locked /\ "idle" \notin Locked
      /\ "idle" \notin Holding /\ "idle" \notin Judging
      /\ to \in Judging => from \in Judging
  BY DEF Labels, Locked, Holding, Dereferencing, Judging
<1> DEFINE i == InodeNum[key[t]]
<1>2. i \in Inums BY KeyHasInum DEF CallsOK
<1>3. index[i] \in 0 .. Len(heap) BY <1>2 DEF HeapOK
<1> DEFINE l == IF index[i] = 0 THEN "idle" ELSE to
<1>4. /\ pc[t] = from /\ Goto(t, l) /\ l \in Labels /\ l \notin Locked
      /\ l \in Holding => index[i] # 0
      /\ l \in Judging => got[t] \in Fetched
      /\ ptr' = [ptr EXCEPT ![t] = index[i]]
  BY <1>1 DEF Lookup, HistoryOK, Holding, Dereferencing
<1> HIDE DEF l, i
<1>5. FilesOK' BY FilesKept DEF Lookup, callVars
<1>6. HeapOK' /\ heap' = heap
  BY HeapKept DEF Lookup, indexVars
<1>7. CallsOK'
  BY <1>3, <1>4, <1>6 DEF CallsOK, Goto, Lookup, callVars
<1>8. LockOK' BY <1>1, <1>4, LockMove DEF Lookup
<1>9. HistoryOK' BY <1>4, HistoryMove DEF Lookup
<1> QED BY <1>5, <1>6, <1>7, <1>8, <1>9

LEMMA DeleteIndexTyped ==
    ASSUME Typed, NEW t \in Threads, NEW from, DeleteIndex(t, from),
           from \in {"delete_index", "fetch_evict"}
    PROVE  Typed'
<1> USE DEF Typed
<1>1. /\ from \notin Locked /\ "idle" \in Labels /\ "idle" \notin Locked
      /\ "idle" \notin Holding /\ "idle" \notin Judging
  BY DEF Labels, Locked, Holding, Dereferencing, Judging
<1>2. FilesOK' BY FilesKept DEF DeleteIndex, callVars
<1>3. HeapOK' /\ Len(heap') = Len(heap)
  <2>1. Len(heap) \in Nat
    BY DEF HeapOK
  <2>2. 0 \in 0 .. Len(heap)
    BY <2>1
  <2>3. index' \in [Inums -> 0 .. Len(heap)]
    BY <2>2 DEF HeapOK, DeleteIndex
  <2> QED BY <2>3 DEF HeapOK, DeleteIndex
<1>4. CallsOK' BY <1>1, <1>3, CallsMove DEF DeleteIndex, callVars
<1>5. LockOK' BY <1>1, LockMove DEF DeleteIndex
<1>6. HistoryOK' BY <1>1, HistoryMove DEF DeleteIndex
<1> QED BY <1>2, <1>3, <1>4, <1>5, <1>6

\* A new region, or a failed attempt to open one: lfs.mu is held before, and
\* after all of it it is free.
LEMMA RotationTyped ==
    ASSUME Typed, NEW t \in Threads,
           CreateActiveRegionFile(t) \/ PublishActiveRegion(t) \/ RotationFails(t)
    PROVE  Typed'
<1> USE DEF Typed
<1>1. /\ {"idle", "publish"} \subseteq Labels
      /\ {"rotate", "publish"} \subseteq Locked /\ "idle" \notin Locked
      /\ {"idle", "publish"} \cap Holding = {}
      /\ {"idle", "publish"} \cap Judging = {}
  BY DEF Labels, Locked, Holding, Dereferencing, Judging
<1>2. regionID < MaxRegion => regionID + 1 \in RegionIds
  BY RegionsAssumption DEF FilesOK, RegionIds
<1>3. HeapOK' /\ Len(heap') = Len(heap)
  BY HeapKept DEF CreateActiveRegionFile, PublishActiveRegion, RotationFails, indexVars
<1>4. CASE CreateActiveRegionFile(t)
  <2> USE DEF CreateActiveRegionFile
  <2>1. fsize' \in [RegionIds -> Nat]
    BY <1>4, RegionsAssumption DEF FilesOK
  <2>2. FilesOK'
    BY <1>2, <1>4, <2>1 DEF FilesOK, callVars
  <2>3. CallsOK' BY <1>1, <1>3, <1>4, CallsMove DEF callVars
  <2>4. LockOK' BY <1>1, <1>4, LockMove
  <2>5. HistoryOK' BY <1>1, <1>4, HistoryMove
  <2> QED BY <1>3, <2>2, <2>3, <2>4, <2>5
<1>5. CASE PublishActiveRegion(t)
  <2> USE DEF PublishActiveRegion
  <2>1. Header \in Nat BY RegionsAssumption
  <2>2. FilesOK'
    BY <1>5, <2>1 DEF FilesOK, callVars
  <2>3. CallsOK' BY <1>1, <1>3, <1>5, CallsMove DEF callVars
  <2>4. LockOK' BY <1>1, <1>5, LockFreed
  <2>5. HistoryOK' BY <1>1, <1>5, HistoryMove
  <2> QED BY <1>3, <2>2, <2>3, <2>4, <2>5
<1>6. CASE RotationFails(t)
  <2> USE DEF RotationFails
  <2>1. fsize' \in [RegionIds -> Nat]
    <3>1. PICK n \in 0 .. Header - 1 : fsize' = [fsize EXCEPT ![regionID + 1] = n]
      BY <1>6
    <3>2. n \in Nat BY <3>1, RegionsAssumption
    <3> QED BY <3>1, <3>2 DEF FilesOK
  <2>2. FilesOK'
    BY <1>2, <1>6, <2>1 DEF FilesOK, callVars
  <2>3. CallsOK' BY <1>1, <1>3, <1>6, CallsMove DEF callVars
  <2>4. LockOK' BY <1>1, <1>6, LockFreed
  <2>5. HistoryOK' BY <1>1, <1>6, HistoryMove
  <2> QED BY <1>3, <2>2, <2>3, <2>4, <2>5
<1> QED BY <1>4, <1>5, <1>6

LEMMA PutTyped ==
    ASSUME Typed, NEW t \in Threads, PutSegment(t)
    PROVE  Typed'
<1> USE DEF Typed
<1>1. /\ {"put_index", "put_load", "put_store", "put_check", "rotate"} \subseteq Locked
      /\ Locked \subseteq Labels
      /\ Locked \cap (Holding \cup Judging) = {}
      /\ "idle" \in Labels \ Locked /\ "idle" \notin Holding \cup Judging
      /\ "put_append" \notin Locked
  BY DEF Labels, Locked, Holding, Dereferencing, Judging
<1>s. seg[t] \in Segment /\ Size(seg[t]) \in Nat
  BY SizeIsNat DEF CallsOK
<1>2. CASE PutAppend(t)
  <2> USE DEF PutAppend
  <2>1. FilesOK' BY <1>2, AppendTyped DEF callVars
  <2>2. HeapOK' /\ Len(heap') = Len(heap)
    BY <1>2, HeapKept DEF indexVars
  <2>3. CallsOK' BY <1>1, <1>2, <2>2, CallsMove DEF callVars
  <2>4. LockOK' BY <1>1, <1>2, LockTaken DEF AppendToActiveRegion
  <2>5. HistoryOK' BY <1>1, <1>2, HistoryMove
  <2> QED BY <2>1, <2>2, <2>3, <2>4, <2>5
<1>3. CASE AppendFails(t, "put_append")
  BY <1>3, AppendFailsTyped
<1>4. CASE PutIndex(t)
  <2> USE DEF PutIndex
  <2>1. FilesOK' BY <1>4, FilesKept DEF callVars
  <2>2. HeapINode(regionID, offset, seg[t]) \in HeapObject
    BY <1>s DEF HeapINode, HeapObject, Segment, FilesOK, RegionIds
  <2>3. /\ heap' \in Seq(HeapObject)
        /\ Len(heap) \in Nat /\ Len(heap') = Len(heap) + 1
    BY <1>4, <2>2 DEF HeapOK
  <2>4. index' \in [Inums -> 0 .. Len(heap')]
    <3>1. index \in [Inums -> 0 .. Len(heap')]
      BY <2>3 DEF HeapOK
    <3>2. Len(heap) + 1 \in 0 .. Len(heap')
      BY <2>3
    <3> QED BY <1>4, <3>1, <3>2
  <2>5. HeapOK' BY <2>3, <2>4 DEF HeapOK
  <2>6. CallsOK'
    <3>1. ptr' \in [Threads -> 0 .. Len(heap')]
      BY <1>4, <2>3 DEF CallsOK
    <3> HIDE DEF PutIndex
    <3>2. Goto(t, "put_load") /\ UNCHANGED <<key, seg, ptr, tmp>>
      BY <1>4 DEF PutIndex, callVars
    <3> QED BY <1>1, <3>1, <3>2 DEF CallsOK, Goto
  <2>7. LockOK' BY <1>1, <1>4, LockMove
  <2>8. HistoryOK' BY <1>1, <1>4, HistoryMove
  <2> QED BY <2>1, <2>5, <2>6, <2>7, <2>8
<1>5. CASE PutLoadOffset(t)
  <2> USE DEF PutLoadOffset
  <2>1. FilesOK' BY <1>5, FilesKept DEF callVars
  <2>2. HeapOK' /\ heap' = heap BY <1>5, HeapKept DEF indexVars
  <2>3. CallsOK'
    BY <1>1, <1>5, <2>2 DEF CallsOK, FilesOK, Goto, callVars
  <2>4. LockOK' BY <1>1, <1>5, LockMove
  <2>5. HistoryOK' BY <1>1, <1>5, HistoryMove
  <2> QED BY <2>1, <2>2, <2>3, <2>4, <2>5
<1>6. CASE PutStoreOffset(t)
  <2> USE DEF PutStoreOffset
  <2>1. tmp[t] + Size(seg[t]) \in Nat
    BY <1>s DEF CallsOK
  <2>2. FilesOK' BY <1>6, <2>1 DEF FilesOK, regionVars, callVars
  <2>3. HeapOK' /\ Len(heap') = Len(heap) BY <1>6, HeapKept DEF indexVars
  <2>4. CallsOK' BY <1>1, <1>6, <2>3, CallsMove DEF callVars
  <2>5. LockOK' BY <1>1, <1>6, LockMove
  <2>6. HistoryOK' BY <1>1, <1>6, HistoryMove
  <2> QED BY <2>2, <2>3, <2>4, <2>5, <2>6
<1>7. CASE PutCheck(t)
  <2> USE DEF PutCheck
  <2>1. FilesOK' BY <1>7, FilesKept DEF callVars
  <2>2. HeapOK' /\ Len(heap') = Len(heap) BY <1>7, HeapKept DEF indexVars
  <2>3. CASE Goto(t, "rotate") /\ UNCHANGED mu
    <3>1. CallsOK' BY <1>1, <1>7, <2>2, <2>3, CallsMove DEF callVars
    <3>2. LockOK' BY <1>1, <1>7, <2>3, LockMove
    <3>3. HistoryOK' BY <1>1, <1>7, <2>3, HistoryMove
    <3> QED BY <2>1, <2>2, <3>1, <3>2, <3>3
  <2>4. CASE Goto(t, "idle") /\ mu' = NoThread
    <3>1. CallsOK' BY <1>1, <1>7, <2>2, <2>4, CallsMove DEF callVars
    <3>2. LockOK' BY <1>1, <1>7, <2>4, LockFreed
    <3>3. HistoryOK' BY <1>1, <1>7, <2>4, HistoryMove
    <3> QED BY <2>1, <2>2, <3>1, <3>2, <3>3
  <2> QED BY <1>7, <2>3, <2>4
<1> QED
  BY <1>2, <1>3, <1>4, <1>5, <1>6, <1>7 DEF PutSegment

LEMMA DeleteTyped ==
    ASSUME Typed, NEW t \in Threads, DeleteSegment(t)
    PROVE  Typed'
BY LockedAppendTyped, AppendFailsTyped, AddOffsetTyped, DeleteIndexTyped
   DEF DeleteSegment

LEMMA FieldsTyped ==
    ASSUME HeapOK, NEW n \in 1 .. Len(heap)
    PROVE  /\ heap[n] \in HeapObject
           /\ heap[n].region \in Nat /\ heap[n].pos \in Nat
           /\ heap[n].mvcc \in Nat
<1>1. heap[n] \in HeapObject BY DEF HeapOK
<1> QED BY <1>1 DEF HeapObject

LEMMA FetchTyped ==
    ASSUME Typed, NEW t \in Threads, FetchSegment(t)
    PROVE  Typed'
<1> USE DEF Typed
<1> DEFINE Out == {"idle", "fetch_expired_at_0", "fetch_evict", "fetch_region",
                   "fetch_read", "fetch_version"}
<1>1. /\ Out \subseteq Labels /\ Out \cap Locked = {}
      /\ "idle" \notin Holding /\ "fetch_evict" \notin Holding
      /\ Out \cap Judging = {"fetch_version"}
      /\ {"fetch_expired_at", "fetch_expired_at_0", "fetch_region", "fetch_read",
          "fetch_version"} \cap Locked = {}
      /\ {"fetch_expired_at", "fetch_expired_at_0", "fetch_region", "fetch_read",
          "fetch_version"} \subseteq Holding
  BY DEF Labels, Locked, Holding, Dereferencing, Judging
<1>2. ASSUME NEW from \in {"fetch_expired_at", "fetch_expired_at_0",
                           "fetch_region", "fetch_read", "fetch_version"},
             NEW l \in Out, FetchStep(t, from, l)
      PROVE  /\ FilesOK' /\ HeapOK' /\ LockOK' /\ heap' = heap /\ pc[t] = from
             /\ tmp' \in [Threads -> Nat] => CallsOK'
  <2> USE <1>2 DEF FetchStep
  <2> HIDE DEF Out
  <2>1. FilesOK' BY FilesKept DEF callVars
  <2>2. HeapOK' /\ heap' = heap BY HeapKept DEF indexVars
  <2>3. LockOK' BY <1>1, LockMove
  <2>4. ptr[t] # 0 BY <1>1 DEF CallsOK
  <2>5. ASSUME tmp' \in [Threads -> Nat] PROVE CallsOK'
    BY <1>1, <2>2, <2>4, <2>5 DEF CallsOK, Goto, callVars
  <2> QED BY <2>1, <2>2, <2>3, <2>5
<1>3. tmp \in [Threads -> Nat] BY DEF CallsOK
<1>4. CASE Lookup(t, "fetch_lookup", "fetch_expired_at")
  BY <1>4, LookupTyped
<1>5. CASE FetchExpiredAt(t)
  <2>1. PICK l \in {"fetch_expired_at_0", "fetch_region"} :
           FetchStep(t, "fetch_expired_at", l) /\ UNCHANGED <<tmp, got>>
    BY <1>5 DEF FetchExpiredAt
  <2>2. HistoryOK' BY <1>1, <2>1, HistoryMove DEF FetchStep
  <2> QED BY <1>2, <1>3, <2>1, <2>2
<1>6. CASE FetchExpiredAtZero(t)
  <2>1. PICK l \in {"fetch_evict", "fetch_region"} :
           FetchStep(t, "fetch_expired_at_0", l) /\ UNCHANGED <<tmp, got>>
    BY <1>6 DEF FetchExpiredAtZero
  <2>2. HistoryOK' BY <1>1, <2>1, HistoryMove DEF FetchStep
  <2> QED BY <1>2, <1>3, <2>1, <2>2
<1>7. CASE DeleteIndex(t, "fetch_evict")
  BY <1>7, DeleteIndexTyped
<1>8. CASE FetchRegion(t)
  <2>1. PICK l \in {"idle", "fetch_read"} : FetchStep(t, "fetch_region", l)
    BY <1>8 DEF FetchRegion
  <2>2. ptr[t] \in 1 .. Len(heap)
    BY <1>1, <2>1 DEF FetchStep, CallsOK, HeapOK
  <2>3. heap[ptr[t]].region \in Nat
    BY <2>2, FieldsTyped
  <2>4. tmp' \in [Threads -> Nat]
    BY <1>3, <1>8, <2>3 DEF FetchRegion
  <2>5. HistoryOK' BY <1>1, <1>8, <2>1, HistoryMove DEF FetchStep, FetchRegion
  <2> QED BY <1>2, <2>1, <2>4, <2>5
<1>9. CASE FetchRead(t)
  <2>1. CASE FetchStep(t, "fetch_read", "idle") /\ UNCHANGED <<tmp, got>>
    <3>1. HistoryOK' BY <1>1, <2>1, HistoryMove DEF FetchStep
    <3> QED BY <1>2, <1>3, <2>1, <3>1
  <2>2. CASE /\ FetchStep(t, "fetch_read", "fetch_version")
             /\ UNCHANGED tmp
             /\ \E e \in Readable(t) :
                   got' = [got EXCEPT ![t] =
                              [key |-> key[t], read |-> e, version |-> 0]]
    <3>1. PICK e \in Readable(t) :
             got' = [got EXCEPT ![t] =
                        [key |-> key[t], read |-> e, version |-> 0]]
      BY <2>2
    <3>2. e \in Entry BY DEF Readable, ReadSegment, FilesOK
    <3>3. [key |-> key[t], read |-> e, version |-> 0] \in Fetched
      BY <3>2 DEF Fetched, CallsOK
    <3>4. HistoryOK'
      BY <2>2, <3>1, <3>3 DEF HistoryOK, CallsOK, FetchStep, Goto
    <3> QED BY <1>2, <1>3, <2>2, <3>4
  <2> QED BY <1>9, <2>1, <2>2 DEF FetchRead
<1>10. CASE FetchVersion(t)
  <2>1. FetchStep(t, "fetch_version", "idle") /\ UNCHANGED tmp
    BY <1>10 DEF FetchVersion
  <2>2. ptr[t] \in 1 .. Len(heap) /\ got[t] \in Fetched
    BY <1>1, <2>1 DEF FetchStep, CallsOK, HeapOK, HistoryOK
  <2>3. heap[ptr[t]].mvcc \in Nat
    BY <2>2, FieldsTyped
  <2>4. [got[t] EXCEPT !.version = heap[ptr[t]].mvcc] \in Fetched
    BY <2>2, <2>3 DEF Fetched
  <2>5. got' = [got EXCEPT ![t] = [got[t] EXCEPT !.version = heap[ptr[t]].mvcc]]
    BY <1>10 DEF FetchVersion
  <2>6. HistoryOK'
    BY <1>1, <2>1, <2>4, <2>5 DEF HistoryOK, CallsOK, FetchStep, Goto
  <2> QED BY <1>2, <1>3, <2>1, <2>6
<1> QED
  BY <1>4, <1>5, <1>6, <1>7, <1>8, <1>9, <1>10 DEF FetchSegment

\* A field of an INode is stored: the heap keeps its type and its length.
LEMMA StoreTyped ==
    ASSUME HeapOK, NEW n \in 1 .. Len(heap), NEW inode \in HeapObject,
           heap' = [heap EXCEPT ![n] = inode], UNCHANGED index
    PROVE  HeapOK' /\ Len(heap') = Len(heap)
BY DEF HeapOK

LEMMA UpdateINodeTyped ==
    ASSUME Typed, NEW t \in Threads, UpdateINode(t)
    PROVE  Typed'
<1> USE DEF Typed
<1> DEFINE In  == {"update_offset", "update_position", "update_times",
                   "update_region_id", "update_region"}
           Out == {"update_position", "update_times", "update_region_id",
                   "update_region", "update_add"}
<1>1. /\ Out \subseteq Labels /\ Out \cap Locked = {} /\ In \cap Locked = {}
      /\ Out \cap Judging = {}
      /\ In \subseteq Holding /\ "update_add" \notin Holding
  BY DEF Labels, Locked, Holding, Dereferencing, Judging
<1>s. seg[t] \in Segment /\ seg[t].created \in Nat /\ seg[t].expired \in Nat
  BY DEF CallsOK, Segment
<1>2. ASSUME NEW from \in In, NEW l \in Out, NEW value \in Nat,
             UpdateLoad(t, from, value, l)
      PROVE  Typed'
  <2> USE <1>2 DEF UpdateLoad
  <2> HIDE DEF In, Out
  <2>0. ptr[t] # 0 BY <1>1 DEF CallsOK
  <2>1. FilesOK' BY FilesKept DEF callVars
  <2>2. HeapOK' /\ heap' = heap BY HeapKept DEF indexVars
  <2>3. CallsOK' BY <1>1, <2>0, <2>2 DEF CallsOK, Goto, callVars
  <2>4. LockOK' BY <1>1, LockMove
  <2>5. HistoryOK' BY <1>1, HistoryMove
  <2> QED BY <2>1, <2>2, <2>3, <2>4, <2>5
<1>3. ASSUME NEW from \in In, NEW l \in Out, NEW inode \in HeapObject,
             UpdateStore(t, from, inode, l)
      PROVE  Typed'
  <2> USE <1>3 DEF UpdateStore
  <2> HIDE DEF In, Out
  <2>0. ptr[t] # 0 /\ ptr[t] \in 1 .. Len(heap) BY <1>1 DEF CallsOK, HeapOK
  <2>1. FilesOK' BY FilesKept DEF callVars
  <2>2. HeapOK' /\ Len(heap') = Len(heap) BY <2>0, StoreTyped
  <2>3. CallsOK' BY <1>1, <2>0, <2>2, CallsMove DEF callVars
  <2>4. LockOK' BY <1>1, LockMove
  <2>5. HistoryOK' BY <1>1, HistoryMove
  <2> QED BY <2>1, <2>2, <2>3, <2>4, <2>5
<1>4. CASE UpdateLoad(t, "update_offset", offset, "update_position")
  BY <1>2, <1>4 DEF FilesOK
<1>5. CASE UpdateLoad(t, "update_region_id", regionID, "update_region")
  BY <1>2, <1>5 DEF FilesOK, RegionIds
<1>6. ASSUME pc[t] \in In PROVE heap[ptr[t]] \in HeapObject
  <2>1. ptr[t] \in 1 .. Len(heap) BY <1>1, <1>6 DEF CallsOK, HeapOK
  <2> QED BY <2>1, FieldsTyped
<1>7. CASE UpdateStore(t, "update_position",
                       [heap[ptr[t]] EXCEPT !.pos = tmp[t]], "update_times")
  <2>1. [heap[ptr[t]] EXCEPT !.pos = tmp[t]] \in HeapObject
    BY <1>6, <1>7 DEF UpdateStore, HeapObject, CallsOK
  <2> QED BY <1>3, <1>7, <2>1
<1>8. CASE UpdateStore(t, "update_times",
                       [heap[ptr[t]] EXCEPT !.created = seg[t].created,
                                            !.expired = seg[t].expired],
                       "update_region_id")
  <2>1. [heap[ptr[t]] EXCEPT !.created = seg[t].created,
                             !.expired = seg[t].expired] \in HeapObject
    BY <1>s, <1>6, <1>8 DEF UpdateStore, HeapObject
  <2> QED BY <1>3, <1>8, <2>1
<1>9. CASE UpdateStore(t, "update_region",
                       [heap[ptr[t]] EXCEPT !.region = tmp[t]], "update_add")
  <2>1. [heap[ptr[t]] EXCEPT !.region = tmp[t]] \in HeapObject
    BY <1>6, <1>9 DEF UpdateStore, HeapObject, CallsOK
  <2> QED BY <1>3, <1>9, <2>1
<1> QED BY <1>4, <1>5, <1>7, <1>8, <1>9 DEF UpdateINode

LEMMA UpdateTyped ==
    ASSUME Typed, NEW t \in Threads, UpdateSegmentWithCAS(t)
    PROVE  Typed'
<1> USE DEF Typed
<1>1. /\ {"idle", "update_append", "update_lock", "rotate"} \subseteq Labels
      /\ "rotate" \in Locked
      /\ {"idle", "update_swap", "update_append", "update_check", "update_lock"}
            \cap Locked = {}
      /\ {"update_swap", "update_append"} \subseteq Holding
      /\ {"idle", "update_lock", "rotate"} \cap Holding = {}
      /\ {"idle", "update_append", "update_lock", "rotate"} \cap Judging = {}
      /\ "update_swap" \in Judging
  BY DEF Labels, Locked, Holding, Dereferencing, Judging
<1>2. CASE Lookup(t, "update_lookup", "update_swap")
  BY <1>2, LookupTyped
<1>3. CASE UpdateSwap(t)
  <2> USE DEF UpdateSwap
  <2>1. FilesOK' BY <1>3, FilesKept DEF callVars
  <2>2. ptr[t] # 0 /\ ptr[t] \in 1 .. Len(heap) /\ got[t] \in Fetched
    BY <1>1, <1>3 DEF CallsOK, HeapOK, HistoryOK
  <2>3. [heap[ptr[t]] EXCEPT !.mvcc = @ + 1] \in HeapObject
    BY <2>2, FieldsTyped DEF HeapObject
  <2>4. HeapOK' /\ Len(heap') = Len(heap)
    BY <1>3, <2>2, <2>3, StoreTyped
  <2>5. CallsOK' BY <1>1, <1>3, <2>2, <2>4, CallsMove DEF callVars
  <2>6. LockOK' BY <1>1, <1>3, LockMove
  <2>7. [inode |-> ptr[t], got |-> got[t]] \in Win
    BY <2>2 DEF Win, HeapOK
  <2>8. won' \in Seq(Win)
    BY <1>3, <2>7 DEF HistoryOK
  <2>9. HistoryOK'
    BY <1>1, <1>3, <2>8 DEF HistoryOK, CallsOK, Goto
  <2> QED BY <2>1, <2>4, <2>5, <2>6, <2>9
<1>4. CASE UpdateConflict(t)
  <2> USE DEF UpdateConflict
  <2>1. FilesOK' BY <1>4, FilesKept DEF callVars
  <2>2. HeapOK' /\ Len(heap') = Len(heap) BY <1>4, HeapKept DEF indexVars
  <2>3. CallsOK' BY <1>1, <1>4, <2>2, CallsMove DEF callVars
  <2>4. LockOK' BY <1>1, <1>4, LockMove
  <2>5. HistoryOK'
    BY <1>1, <1>4 DEF HistoryOK, CallsOK, Goto
  <2> QED BY <2>1, <2>2, <2>3, <2>4, <2>5
<1>5. CASE LockedAppend(t, "update_append", "update_offset")
  BY <1>5, LockedAppendTyped
<1>6. CASE AppendFails(t, "update_append")
  BY <1>6, AppendFailsTyped
<1>7. CASE UpdateINode(t)
  BY <1>7, UpdateINodeTyped
<1>8. CASE AddOffset(t, "update_add", "update_check")
  BY <1>8, AddOffsetTyped
<1>9. CASE UpdateCheck(t)
  <2>1. PICK l \in {"update_lock", "idle"} : Goto(t, l)
    BY <1>9 DEF UpdateCheck
  <2> QED BY <1>1, <1>9, <2>1, OnlyMoves DEF UpdateCheck
<1>10. CASE UpdateLock(t)
  <2> USE DEF UpdateLock
  <2>1. FilesOK' BY <1>10, FilesKept DEF callVars
  <2>2. HeapOK' /\ Len(heap') = Len(heap) BY <1>10, HeapKept DEF indexVars
  <2>3. CallsOK' BY <1>1, <1>10, <2>2, CallsMove DEF callVars
  <2>4. LockOK' BY <1>1, <1>10, LockTaken
  <2>5. HistoryOK' BY <1>1, <1>10, HistoryMove
  <2> QED BY <2>1, <2>2, <2>3, <2>4, <2>5
<1> QED
  BY <1>2, <1>3, <1>4, <1>5, <1>6, <1>7, <1>8, <1>9, <1>10
     DEF UpdateSegmentWithCAS

LEMMA StutterTyped == ASSUME Typed, UNCHANGED vars PROVE Typed'
BY DEF Typed, vars, regionVars, indexVars, callVars, FilesOK, HeapOK, CallsOK,
       LockOK, HistoryOK

LEMMA StepTyped ==
    ASSUME Typed, NEW t \in Threads, Step(t) PROVE Typed'
BY PutTyped, DeleteTyped, FetchTyped, UpdateTyped, RotationTyped DEF Step

LEMMA NextTyped == Typed /\ [Next]_vars => Typed'
BY CallTyped, StepTyped, StutterTyped DEF Next, Finished

LEMMA TypedTypeOK == Typed => TypeOK
<1> SUFFICES ASSUME Typed PROVE TypeOK
  OBVIOUS
<1>1. \A n \in 1 .. Len(heap) :
         heap[n] \in [region : Nat, pos : Nat, created : Nat, expired : Nat,
                     mvcc : Nat]
  BY FieldsTyped DEF Typed, HeapObject
<1>2. \A t \in Threads : pc[t] \in Dereferencing => ptr[t] # 0
  BY DEF Typed, CallsOK, Holding
<1> QED
  BY <1>1, <1>2 DEF Typed, FilesOK, HeapOK, CallsOK, LockOK, TypeOK

LEMMA AlwaysTyped == Spec => []Typed
BY InitTyped, NextTyped, PTL DEF Spec

\* In every state of every behaviour the variables have their types, no
\* goroutine goes through a nil INode pointer, and lfs.mu is held by the one
\* goroutine that is where it is needed.
THEOREM TypeCorrect == Spec => []TypeOK
BY AlwaysTyped, TypedTypeOK, PTL

-----------------------------------------------------------------------------
(***************************************************************************)
(* Versions.  What the proof needs besides the types: the version of an    *)
(* INode has left behind every version that won on it.                     *)
(***************************************************************************)

WinsBehind ==
    \A m \in 1 .. Len(won) :
        /\ won[m].inode \in 1 .. Len(heap)
        /\ won[m].got.version < heap[won[m].inode].mvcc

\* Who changes an INode object, and who does not.
LEMMA HeapStep ==
    ASSUME [Next]_vars
    PROVE  \/ UNCHANGED <<heap, won>>
           \/ \E t \in Threads : PutIndex(t) \/ UpdateSwap(t)
           \/ \E t \in Threads :
                 /\ pc[t] \in {"update_position", "update_times", "update_region"}
                 /\ UNCHANGED won
                 /\ \E inode :
                       /\ heap' = [heap EXCEPT ![ptr[t]] = inode]
                       /\ inode.mvcc = heap[ptr[t]].mvcc
<1> SUFFICES ASSUME ~ UNCHANGED <<heap, won>>
             PROVE  \/ \E t \in Threads : PutIndex(t) \/ UpdateSwap(t)
                    \/ \E t \in Threads :
                          /\ pc[t] \in {"update_position", "update_times",
                                        "update_region"}
                          /\ UNCHANGED won
                          /\ \E inode :
                                /\ heap' = [heap EXCEPT ![ptr[t]] = inode]
                                /\ inode.mvcc = heap[ptr[t]].mvcc
  OBVIOUS
<1>1. PICK t \in Threads :
         CallPut(t) \/ CallDelete(t) \/ CallFetch(t) \/ CallUpdate(t) \/ Step(t)
  BY DEF Next, Finished, vars, indexVars
<1>2. Step(t)
  BY <1>1 DEF CallPut, CallDelete, CallFetch, CallUpdate, Call, indexVars
<1>3. CASE PutSegment(t)
  BY <1>3 DEF PutSegment, PutAppend, AppendFails, PutLoadOffset, PutStoreOffset,
              PutCheck, indexVars
<1>4. ~ DeleteSegment(t)
  BY DEF DeleteSegment, LockedAppend, AppendFails, AddOffset, DeleteIndex, indexVars
<1>5. ~ FetchSegment(t)
  BY DEF FetchSegment, Lookup, FetchExpiredAt, FetchExpiredAtZero, FetchRegion,
         FetchRead, FetchVersion, FetchStep, DeleteIndex, indexVars
<1>6. ~ (CreateActiveRegionFile(t) \/ PublishActiveRegion(t) \/ RotationFails(t))
  BY DEF CreateActiveRegionFile, PublishActiveRegion, RotationFails, indexVars
<1>7. CASE UpdateSegmentWithCAS(t)
  <2>1. UpdateSwap(t) \/ UpdateINode(t)
    BY <1>7 DEF UpdateSegmentWithCAS, Lookup, UpdateConflict, LockedAppend,
                AppendFails, AddOffset, UpdateCheck, UpdateLock, indexVars
  <2>2. CASE UpdateINode(t)
    <3> DEFINE a == [heap[ptr[t]] EXCEPT !.pos = tmp[t]]
               b == [heap[ptr[t]] EXCEPT !.created = seg[t].created,
                                         !.expired = seg[t].expired]
               c == [heap[ptr[t]] EXCEPT !.region = tmp[t]]
    <3>1. /\ a.mvcc = heap[ptr[t]].mvcc /\ b.mvcc = heap[ptr[t]].mvcc
          /\ c.mvcc = heap[ptr[t]].mvcc
      OBVIOUS
    <3>2. \/ UpdateStore(t, "update_position", a, "update_times")
          \/ UpdateStore(t, "update_times", b, "update_region_id")
          \/ UpdateStore(t, "update_region", c, "update_add")
      BY <2>2 DEF UpdateINode, UpdateLoad, indexVars
    <3> HIDE DEF a, b, c
    <3>3. /\ pc[t] \in {"update_position", "update_times", "update_region"}
          /\ UNCHANGED won
          /\ \/ heap' = [heap EXCEPT ![ptr[t]] = a]
             \/ heap' = [heap EXCEPT ![ptr[t]] = b]
             \/ heap' = [heap EXCEPT ![ptr[t]] = c]
      BY <3>2 DEF UpdateStore
    <3> QED BY <3>1, <3>3
  <2> QED BY <2>1, <2>2
<1> QED BY <1>2, <1>3, <1>4, <1>5, <1>6, <1>7 DEF Step

LEMMA WinnersStep ==
    ASSUME Typed, WinsBehind, OneWinnerPerVersion, [Next]_vars
    PROVE  WinsBehind' /\ OneWinnerPerVersion'
<1> USE DEF Typed
<1>0. Len(heap) \in Nat /\ Len(won) \in Nat
  BY DEF HeapOK, HistoryOK
<1>1. CASE UNCHANGED <<heap, won>>
  BY <1>1 DEF WinsBehind, OneWinnerPerVersion
<1>2. ASSUME NEW t \in Threads, PutIndex(t)
      PROVE  WinsBehind' /\ OneWinnerPerVersion'
  <2>1. /\ Len(heap') = Len(heap) + 1 /\ won' = won
        /\ \A n \in 1 .. Len(heap) : heap'[n] = heap[n]
    BY <1>2 DEF PutIndex, HeapOK
  <2> QED BY <1>0, <2>1 DEF WinsBehind, OneWinnerPerVersion
<1>3. ASSUME NEW t \in Threads, UpdateSwap(t)
      PROVE  WinsBehind' /\ OneWinnerPerVersion'
  <2>1. ptr[t] \in 1 .. Len(heap) /\ got[t] \in Fetched /\ got[t].version \in Nat
    BY <1>3 DEF UpdateSwap, CallsOK, HeapOK, HistoryOK, Holding, Dereferencing,
                Judging, Fetched
  <2>2. heap[ptr[t]].mvcc \in Nat /\ heap[ptr[t]].mvcc = got[t].version
    BY <1>3, <2>1, FieldsTyped DEF UpdateSwap, VersionIsCurrent
  <2>3. /\ Len(heap') = Len(heap)
        /\ \A n \in 1 .. Len(heap) :
              heap'[n].mvcc = IF n = ptr[t] THEN heap[n].mvcc + 1
                                            ELSE heap[n].mvcc
    <3>1. heap' = [heap EXCEPT ![ptr[t]] = [heap[ptr[t]] EXCEPT !.mvcc = @ + 1]]
      BY <1>3 DEF UpdateSwap
    <3>2. [heap[ptr[t]] EXCEPT !.mvcc = @ + 1].mvcc = heap[ptr[t]].mvcc + 1
      BY <2>1, FieldsTyped DEF HeapObject
    <3> QED BY <2>1, <3>1, <3>2 DEF HeapOK
  <2> DEFINE last == Len(won) + 1
  <2>4. /\ Len(won') = last
        /\ \A m \in 1 .. Len(won) : won'[m] = won[m]
        /\ won'[last] = [inode |-> ptr[t], got |-> got[t]]
    BY <1>3 DEF UpdateSwap, HistoryOK
  <2>5. \A m \in 1 .. Len(won) : won[m].inode \in 1 .. Len(heap) /\
                                  heap[won[m].inode].mvcc \in Nat
    BY FieldsTyped DEF WinsBehind
  <2>6. \A m \in 1 .. Len(won) : won[m].got.version \in Nat
    <3>1. \A m \in 1 .. Len(won) : won[m] \in Win
      BY DEF HistoryOK
    <3> QED BY <3>1 DEF Win, Fetched
  <2>7. WinsBehind'
    <3> SUFFICES ASSUME NEW m \in 1 .. Len(won')
                 PROVE  /\ won'[m].inode \in 1 .. Len(heap')
                        /\ won'[m].got.version < heap'[won'[m].inode].mvcc
      BY DEF WinsBehind
    <3>1. CASE m = last
      BY <2>1, <2>2, <2>3, <2>4, <3>1
    <3>2. CASE m \in 1 .. Len(won)
      <4>1. won[m].got.version < heap[won[m].inode].mvcc
        BY <3>2 DEF WinsBehind
      <4>2. won[m].inode \in 1 .. Len(heap) /\ won'[m] = won[m]
        BY <2>4, <2>5, <3>2
      <4>3. heap[won[m].inode].mvcc \in Nat /\ won[m].got.version \in Nat
        BY <2>5, <2>6, <3>2
      <4>4. heap'[won[m].inode].mvcc \in {heap[won[m].inode].mvcc,
                                         heap[won[m].inode].mvcc + 1}
        BY <2>3, <4>2
      <4>5. won[m].got.version < heap'[won[m].inode].mvcc
        BY <4>1, <4>3, <4>4
      <4> QED BY <2>3, <4>2, <4>5
    <3> QED BY <1>0, <2>4, <3>1, <3>2
  <2>8. \A m \in 1 .. Len(won) :
           won[m].inode = ptr[t] => won[m].got.version # got[t].version
    BY <2>2, <2>6 DEF WinsBehind
  <2>9. OneWinnerPerVersion'
    <3> SUFFICES ASSUME NEW m \in 1 .. Len(won'), NEW n \in 1 .. Len(won'),
                        won'[m].inode = won'[n].inode,
                        won'[m].got.version = won'[n].got.version
                 PROVE  m = n
      BY DEF OneWinnerPerVersion
    <3>1. (m = last \/ m \in 1 .. Len(won)) /\ (n = last \/ n \in 1 .. Len(won))
      BY <1>0, <2>4
    <3>2. CASE m = last /\ n \in 1 .. Len(won)
      BY <2>4, <2>8, <3>2
    <3>3. CASE n = last /\ m \in 1 .. Len(won)
      BY <2>4, <2>8, <3>3
    <3>4. CASE m \in 1 .. Len(won) /\ n \in 1 .. Len(won)
      BY <2>4, <3>4 DEF OneWinnerPerVersion
    <3> QED BY <3>1, <3>2, <3>3, <3>4
  <2> QED BY <2>7, <2>9
<1>4. ASSUME NEW t \in Threads, NEW inode, UNCHANGED won,
             heap' = [heap EXCEPT ![ptr[t]] = inode],
             inode.mvcc = heap[ptr[t]].mvcc
      PROVE  WinsBehind' /\ OneWinnerPerVersion'
  <2>1. /\ Len(heap') = Len(heap)
        /\ \A n \in 1 .. Len(heap) : heap'[n].mvcc = heap[n].mvcc
    BY <1>4 DEF HeapOK
  <2> QED BY <1>4, <2>1 DEF WinsBehind, OneWinnerPerVersion
<1> QED BY <1>1, <1>2, <1>3, <1>4, HeapStep

\* For any number of goroutines: of the updates that were given the same
\* version of the same INode only one gets past the version check.
THEOREM OneWinner == Spec => []OneWinnerPerVersion
<1>1. Init => WinsBehind /\ OneWinnerPerVersion
  BY DEF Init, WinsBehind, OneWinnerPerVersion
<1>2. Typed /\ (WinsBehind /\ OneWinnerPerVersion) /\ [Next]_vars
         => (WinsBehind /\ OneWinnerPerVersion)'
  BY WinnersStep
<1> QED BY <1>1, <1>2, AlwaysTyped, PTL DEF Spec

-----------------------------------------------------------------------------
(***************************************************************************)
(* The index is never ahead of the log.  Each INode is the entry of one    *)
(* inode number, an update goes through the entry of its own key only, and *)
(* what it stores there is taken from a record that is already written.    *)
(***************************************************************************)

Updating == {"update_swap", "update_append", "update_offset", "update_position",
             "update_times"}

Writing == {"put_append", "put_index", "update_lookup"} \cup Updating

Appended == {"put_index", "update_offset", "update_position", "update_times"}

OneEntryEach ==
    \A i, j \in Inums : index[i] = index[j] /\ index[i] # 0 => i = j

OwnEntry ==
    \A t \in Threads, i \in Inums :
        pc[t] \in Updating /\ index[i] # 0 /\ index[i] = ptr[t]
            => i = InodeNum[key[t]]

CarriesRecord ==
    \A t \in Threads :
        /\ pc[t] \in Writing => seg[t].key = key[t] /\ ~ IsTombstone(seg[t])
        /\ pc[t] \in Appended => \E e \in disk : e.seg = seg[t]

Written == OneEntryEach /\ OwnEntry /\ CarriesRecord /\ IndexWritten

\* The goroutine t moves, and not into a part of a call that asks for more.
Advances(t) ==
    /\ \A u \in Threads : u # t => pc'[u] = pc[u]
    /\ pc'[t] \in Updating => pc[t] \in Updating
    /\ pc'[t] \in Writing => pc[t] \in Writing

LEMMA MovesOthersStay ==
    ASSUME CallsOK, NEW t \in Threads, NEW l, Goto(t, l)
    PROVE  pc'[t] = l /\ \A u \in Threads : u # t => pc'[u] = pc[u]
BY DEF CallsOK, Goto

\* What IndexWritten asks of the entry of an inode number survives when files
\* only grow and the creation time of its INode stays.
LEMMA StaysWritten ==
    ASSUME Written, disk \subseteq disk',
           NEW i \in Inums, index[i] # 0, index'[i] = index[i],
           heap'[index[i]].created = heap[index[i]].created
    PROVE  \E e \in RecordsOf(disk', i) :
              /\ ~ IsTombstone(e.seg)
              /\ e.seg.created = heap'[index'[i]].created
<1>1. PICK e \in RecordsOf(disk, i) :
         ~ IsTombstone(e.seg) /\ e.seg.created = heap[index[i]].created
  BY DEF Written, IndexWritten
<1> QED BY <1>1 DEF RecordsOf

\* A step that leaves index, creation times, pointers and segments.
LEMMA OtherStepWritten ==
    ASSUME Typed, Written, NEW t \in Threads, Advances(t),
           UNCHANGED <<index, key, seg, ptr>>, disk \subseteq disk',
           \A n \in 1 .. Len(heap) : heap'[n].created = heap[n].created,
           pc'[t] \in Appended =>
              pc[t] \in Appended \/ \E e \in disk' : e.seg = seg[t]
    PROVE  Written'
<1>1. OneEntryEach' /\ OwnEntry'
  BY DEF Written, OneEntryEach, OwnEntry, Advances
<1>2. CarriesRecord'
  BY DEF Written, CarriesRecord, Advances
<1>3. ASSUME NEW i \in Inums, index'[i] # 0
      PROVE  \E e \in RecordsOf(disk', i) :
                /\ ~ IsTombstone(e.seg)
                /\ e.seg.created = heap'[index'[i]].created
  <2>1. index[i] \in 1 .. Len(heap)
    BY <1>3 DEF Typed, HeapOK
  <2> QED BY <1>3, <2>1, StaysWritten
<1>4. IndexWritten' BY <1>3 DEF IndexWritten
<1> QED BY <1>1, <1>2, <1>4 DEF Written

LEMMA CallWritten ==
    ASSUME Typed, Written, NEW t \in Threads,
           CallPut(t) \/ CallDelete(t) \/ CallFetch(t) \/ CallUpdate(t)
    PROVE  Written'
<1>1. PICK op, k, s, l :
         /\ Call(t, op, k, s, l)
         /\ l \notin Updating \cup Appended
         /\ l \in Writing => s.key = k /\ ~ IsTombstone(s)
  <2>1. Tombstone \notin Values BY RegionsAssumption
  <2>2. ASSUME NEW k, NEW v \in Values, NEW ttl
        PROVE  /\ NewSegment(k, v, ttl, clock + 1).key = k
               /\ ~ IsTombstone(NewSegment(k, v, ttl, clock + 1))
    BY <2>1 DEF NewSegment, IsTombstone
  <2>3. /\ "put_append" \notin Updating \cup Appended
        /\ "update_lookup" \notin Updating \cup Appended
        /\ {"delete_append", "fetch_lookup"}
              \cap (Updating \cup Appended \cup Writing) = {}
    BY DEF Updating, Appended, Writing
  <2>4. CASE CallPut(t) BY <2>2, <2>3, <2>4 DEF CallPut
  <2>5. CASE CallDelete(t) BY <2>3, <2>5 DEF CallDelete
  <2>6. CASE CallFetch(t) BY <2>3, <2>6 DEF CallFetch
  <2>7. CASE CallUpdate(t) BY <2>2, <2>3, <2>7 DEF CallUpdate
  <2> QED BY <2>4, <2>5, <2>6, <2>7
<1>2. /\ pc'[t] = l /\ key'[t] = k /\ seg'[t] = s
      /\ \A u \in Threads : u # t =>
            pc'[u] = pc[u] /\ key'[u] = key[u] /\ seg'[u] = seg[u]
      /\ UNCHANGED <<disk, index, heap, ptr>>
  BY <1>1 DEF Call, Goto, Typed, CallsOK, indexVars
<1>3. OneEntryEach' /\ IndexWritten'
  BY <1>2 DEF Written, OneEntryEach, IndexWritten
<1>4. OwnEntry'
  BY <1>1, <1>2 DEF Written, OwnEntry
<1>5. CarriesRecord'
  BY <1>1, <1>2 DEF Written, CarriesRecord
<1> QED BY <1>3, <1>4, <1>5 DEF Written

LEMMA PutIndexWritten ==
    ASSUME Typed, Written, NEW t \in Threads, PutIndex(t)
    PROVE  Written'
<1> DEFINE o == InodeNum[key[t]]
           new == Len(heap) + 1
<1>1. /\ o \in Inums /\ Len(heap) \in Nat
      /\ \A i \in Inums : index[i] \in 0 .. Len(heap)
      /\ \A u \in Threads : ptr[u] \in 0 .. Len(heap)
  BY KeyHasInum DEF Typed, CallsOK, HeapOK
<1>2. \A i \in Inums : index'[i] = IF i = o THEN new ELSE index[i]
  BY DEF PutIndex, Typed, HeapOK
<1>3. /\ \A n \in 1 .. Len(heap) : heap'[n] = heap[n]
      /\ heap'[new] = HeapINode(regionID, offset, seg[t])
  BY DEF PutIndex, Typed, HeapOK
<1>4. /\ \A u \in Threads : u # t => pc'[u] = pc[u]
      /\ pc'[t] = "put_load" /\ pc[t] = "put_index"
      /\ UNCHANGED <<disk, key, seg, ptr>>
  BY MovesOthersStay DEF PutIndex, Typed, callVars
<1>5. "put_load" \notin Updating \cup Writing \cup Appended
      /\ "put_index" \in Writing \cap Appended
  BY DEF Updating, Writing, Appended
<1> HIDE DEF o, new
<1>6. \A i \in Inums : index[i] # new
  BY <1>1 DEF new
<1>7. OneEntryEach'
  BY <1>1, <1>2, <1>6 DEF Written, OneEntryEach
<1>8. OwnEntry'
  <2>1. \A u \in Threads : ptr[u] # new
    BY <1>1 DEF new
  <2> QED BY <1>2, <1>4, <1>5, <2>1 DEF Written, OwnEntry
<1>9. CarriesRecord'
  BY <1>4, <1>5 DEF Written, CarriesRecord
<1>10. ASSUME NEW i \in Inums, index'[i] # 0
       PROVE  \E e \in RecordsOf(disk', i) :
                 /\ ~ IsTombstone(e.seg)
                 /\ e.seg.created = heap'[index'[i]].created
  <2>1. CASE i = o
    <3>1. PICK e \in disk : e.seg = seg[t]
      BY <1>4, <1>5 DEF Written, CarriesRecord
    <3>2. seg[t].key = key[t] /\ ~ IsTombstone(seg[t])
      BY <1>4, <1>5 DEF Written, CarriesRecord
    <3>3. heap'[index'[i]].created = seg[t].created
      BY <1>2, <1>3, <2>1 DEF HeapINode
    <3> QED BY <1>4, <2>1, <3>1, <3>2, <3>3 DEF RecordsOf, o
  <2>2. CASE i # o
    <3>1. index'[i] = index[i] /\ index[i] \in 1 .. Len(heap)
      BY <1>1, <1>2, <1>10, <2>2
    <3> QED BY <1>3, <1>4, <1>10, <3>1, StaysWritten
  <2> QED BY <2>1, <2>2
<1>11. IndexWritten' BY <1>10 DEF IndexWritten
<1> QED BY <1>7, <1>8, <1>9, <1>11 DEF Written

\* By OneEntryEach the pointer a lookup returns is the entry of that key only.
LEMMA LookupWritten ==
    ASSUME Typed, Written, NEW t \in Threads, NEW from, NEW to,
           Lookup(t, from, to),
           <<from, to>> \in {<<"fetch_lookup", "fetch_expired_at">>,
                             <<"update_lookup", "update_swap">>}
    PROVE  Written'
<1> DEFINE l == IF index[InodeNum[key[t]]] = 0 THEN "idle" ELSE to
<1>1. InodeNum[key[t]] \in Inums
  BY KeyHasInum DEF Typed, CallsOK
<1>2. /\ \A u \in Threads : u # t => pc'[u] = pc[u] /\ ptr'[u] = ptr[u]
      /\ pc'[t] = l /\ pc[t] = from /\ ptr'[t] = index[InodeNum[key[t]]]
      /\ UNCHANGED <<disk, index, heap, key, seg>>
  BY MovesOthersStay DEF Lookup, Typed, CallsOK, indexVars, callVars
<1>3. l \notin Appended /\ (l \in Writing => from \in Writing)
  BY DEF Updating, Writing, Appended
<1> HIDE DEF l
<1>4. OneEntryEach' /\ IndexWritten'
  BY <1>2 DEF Written, OneEntryEach, IndexWritten
<1>5. OwnEntry'
  BY <1>1, <1>2 DEF Written, OneEntryEach, OwnEntry
<1>6. CarriesRecord'
  BY <1>2, <1>3 DEF Written, CarriesRecord
<1> QED BY <1>4, <1>5, <1>6 DEF Written

LEMMA DeleteIndexWritten ==
    ASSUME Typed, Written, NEW t \in Threads, NEW from, DeleteIndex(t, from)
    PROVE  Written'
<1>1. /\ \A i \in Inums : index'[i] # 0 => index'[i] = index[i]
      /\ Advances(t) /\ pc'[t] \notin Appended
      /\ UNCHANGED <<disk, heap, key, seg, ptr>>
  BY MovesOthersStay
     DEF DeleteIndex, Typed, HeapOK, Advances, Updating, Writing, Appended, callVars
<1>2. OneEntryEach' /\ OwnEntry'
  BY <1>1 DEF Written, OneEntryEach, OwnEntry, Advances
<1>3. CarriesRecord'
  BY <1>1 DEF Written, CarriesRecord, Advances
<1>4. IndexWritten'
  BY <1>1 DEF Written, IndexWritten
<1> QED BY <1>2, <1>3, <1>4 DEF Written

\* The store of CreatedAt, by OwnEntry in the entry of the update's own key.
LEMMA StoreTimesWritten ==
    ASSUME Typed, Written, NEW t \in Threads,
           UpdateStore(t, "update_times",
                       [heap[ptr[t]] EXCEPT !.created = seg[t].created,
                                            !.expired = seg[t].expired],
                       "update_region_id")
    PROVE  Written'
<1>1. /\ Advances(t) /\ pc[t] = "update_times" /\ pc'[t] = "update_region_id"
      /\ UNCHANGED <<disk, index, key, seg, ptr>>
  BY MovesOthersStay DEF UpdateStore, Typed, Advances, Updating, Writing, callVars
<1>2. /\ "update_times" \in Writing \cap Appended \cap Updating
      /\ "update_times" \in Holding /\ "update_region_id" \notin Appended
  BY DEF Updating, Writing, Appended, Holding, Dereferencing
<1>3. ptr[t] \in 1 .. Len(heap)
  BY <1>1, <1>2 DEF Typed, CallsOK, HeapOK
<1>4. \A n \in 1 .. Len(heap) :
         heap'[n].created = IF n = ptr[t] THEN seg[t].created ELSE heap[n].created
  <2> DEFINE inode == [heap[ptr[t]] EXCEPT !.created = seg[t].created,
                                           !.expired = seg[t].expired]
  <2>1. inode.created = seg[t].created
    BY <1>3, FieldsTyped DEF Typed, HeapObject
  <2>2. heap' = [heap EXCEPT ![ptr[t]] = inode]
    BY DEF UpdateStore
  <2> HIDE DEF inode
  <2> QED BY <1>3, <2>1, <2>2 DEF Typed, HeapOK
<1>5. OneEntryEach' /\ OwnEntry'
  BY <1>1 DEF Written, OneEntryEach, OwnEntry, Advances
<1>6. CarriesRecord'
  BY <1>1, <1>2 DEF Written, CarriesRecord, Advances
<1>7. ASSUME NEW i \in Inums, index'[i] # 0
      PROVE  \E e \in RecordsOf(disk', i) :
                /\ ~ IsTombstone(e.seg)
                /\ e.seg.created = heap'[index'[i]].created
  <2>1. index'[i] = index[i] /\ index[i] \in 1 .. Len(heap)
    BY <1>1, <1>7 DEF Typed, HeapOK
  <2>2. CASE index[i] = ptr[t]
    <3>1. i = InodeNum[key[t]]
      BY <1>1, <1>2, <1>7, <2>1, <2>2 DEF Written, OwnEntry
    <3>2. /\ seg[t].key = key[t] /\ ~ IsTombstone(seg[t])
          /\ \E e \in disk : e.seg = seg[t]
      BY <1>1, <1>2 DEF Written, CarriesRecord
    <3>3. heap'[index'[i]].created = seg[t].created
      BY <1>4, <2>1, <2>2
    <3> QED BY <1>1, <3>1, <3>2, <3>3 DEF RecordsOf
  <2>3. CASE index[i] # ptr[t]
    BY <1>1, <1>4, <1>7, <2>1, <2>3, StaysWritten
  <2> QED BY <2>2, <2>3
<1>8. IndexWritten' BY <1>7 DEF IndexWritten
<1> QED BY <1>5, <1>6, <1>8 DEF Written

LEMMA AppendWritten ==
    ASSUME Typed, Written, NEW t \in Threads,
           \/ PutAppend(t)
           \/ LockedAppend(t, "delete_append", "delete_add")
           \/ LockedAppend(t, "update_append", "update_offset")
    PROVE  Written'
<1>1. /\ Advances(t) /\ UNCHANGED <<index, heap, key, seg, ptr>>
      /\ disk' = disk \cup {Record(active, fsize[active], seg[t])}
  <2>1. PICK l \in {"put_index", "delete_add", "update_offset"} :
           /\ Goto(t, l)
           /\ l = "put_index" => pc[t] = "put_append"
           /\ l = "update_offset" => pc[t] = "update_append"
    BY DEF PutAppend, LockedAppend
  <2>2. Advances(t)
    BY <2>1, MovesOthersStay DEF Typed, Advances, Updating, Writing
  <2> QED
    BY <2>2 DEF PutAppend, LockedAppend, AppendToActiveRegion, indexVars, callVars
<1>2. \E e \in disk' : e.seg = seg[t]
  <2>1. Record(active, fsize[active], seg[t]).seg = seg[t]
    BY DEF Record
  <2> QED BY <1>1, <2>1
<1> QED BY <1>1, <1>2, OtherStepWritten

LEMMA UpdateINodeWritten ==
    ASSUME Typed, Written, NEW t \in Threads, UpdateINode(t)
    PROVE  Written'
<1> DEFINE inode == heap[ptr[t]]
<1>1. CASE UpdateStore(t, "update_times",
                       [inode EXCEPT !.created = seg[t].created,
                                     !.expired = seg[t].expired],
                       "update_region_id")
  BY <1>1, StoreTimesWritten
<1>2. ASSUME NEW n, n.created = inode.created, NEW from, NEW to,
             UpdateStore(t, from, n, to),
             <<from, to>> \in {<<"update_position", "update_times">>,
                               <<"update_region", "update_add">>}
      PROVE  Written'
  <2>2. \A m \in 1 .. Len(heap) : heap'[m].created = heap[m].created
    BY <1>2 DEF UpdateStore, Typed, HeapOK
  <2>3. Advances(t) /\ UNCHANGED <<index, disk, key, seg, ptr>>
    BY <1>2, MovesOthersStay DEF UpdateStore, Typed, Advances, Updating, Writing,
                                 callVars
  <2>4. pc'[t] \in Appended => pc[t] \in Appended
    BY <1>2, MovesOthersStay DEF UpdateStore, Typed, Appended
  <2> QED BY <2>2, <2>3, <2>4, OtherStepWritten
<1>3. ASSUME NEW from, NEW value, NEW to,
             UpdateLoad(t, from, value, to),
             <<from, to>> \in {<<"update_offset", "update_position">>,
                               <<"update_region_id", "update_region">>}
      PROVE  Written'
  <2>1. Advances(t) /\ UNCHANGED <<index, heap, disk, key, seg, ptr>>
    BY <1>3, MovesOthersStay DEF UpdateLoad, Typed, Advances, Updating, Writing,
                                 indexVars, callVars
  <2>2. pc'[t] \in Appended => pc[t] \in Appended
    BY <1>3, MovesOthersStay DEF UpdateLoad, Typed, Appended
  <2> QED BY <2>1, <2>2, OtherStepWritten
<1>4. /\ [inode EXCEPT !.pos = tmp[t]].created = inode.created
      /\ [inode EXCEPT !.region = tmp[t]].created = inode.created
  OBVIOUS
<1>5. CASE UpdateStore(t, "update_position",
                       [inode EXCEPT !.pos = tmp[t]], "update_times")
  BY <1>2, <1>4, <1>5
<1>6. CASE UpdateStore(t, "update_region",
                       [inode EXCEPT !.region = tmp[t]], "update_add")
  BY <1>2, <1>4, <1>6
<1> QED BY <1>1, <1>3, <1>5, <1>6 DEF UpdateINode

LEMMA UpdateSwapWritten ==
    ASSUME Typed, Written, NEW t \in Threads, UpdateSwap(t)
    PROVE  Written'
<1>1. Advances(t) /\ UNCHANGED <<index, disk, key, seg, ptr>>
  BY MovesOthersStay DEF UpdateSwap, Typed, Advances, Updating, Writing, callVars
<1>2. pc'[t] \notin Appended
  BY MovesOthersStay DEF UpdateSwap, Typed, Appended
<1>3. \A m \in 1 .. Len(heap) : heap'[m].created = heap[m].created
  BY DEF UpdateSwap, Typed, HeapOK
<1> QED BY <1>1, <1>2, <1>3, OtherStepWritten

\* The steps that touch none of what Written is about.
LEMMA QuietStepWritten ==
    ASSUME Typed, Written, NEW t \in Threads,
           NEW l \in Labels \ (Updating \cup Writing \cup Appended), Goto(t, l),
           UNCHANGED <<disk, index, heap, key, seg, ptr>>
    PROVE  Written'
<1>1. Advances(t) /\ pc'[t] \notin Appended
  BY MovesOthersStay DEF Typed, Advances
<1> QED BY <1>1, OtherStepWritten

LEMMA StepWritten ==
    ASSUME Typed, Written, NEW t \in Threads, Step(t)
    PROVE  Written'
<1> DEFINE Quiet == Labels \ (Updating \cup Writing \cup Appended)
<1>1. {"idle", "put_load", "put_store", "put_check", "rotate", "publish",
       "delete_index", "update_check", "update_lock", "fetch_expired_at_0",
       "fetch_evict", "fetch_region", "fetch_read", "fetch_version"}
         \subseteq Quiet
  BY DEF Labels, Updating, Writing, Appended
<1> HIDE DEF Quiet
<1>2. ASSUME NEW l \in Quiet, Goto(t, l),
             UNCHANGED <<disk, index, heap, key, seg, ptr>>
      PROVE  Written'
  BY <1>2, QuietStepWritten DEF Quiet
<1>3. CASE PutSegment(t)
  <2>1. CASE PutAppend(t) BY <2>1, AppendWritten
  <2>2. CASE PutIndex(t) BY <2>2, PutIndexWritten
  <2>3. CASE \/ AppendFails(t, "put_append") \/ PutLoadOffset(t)
             \/ PutStoreOffset(t) \/ PutCheck(t)
    BY <1>1, <1>2, <2>3 DEF AppendFails, PutLoadOffset, PutStoreOffset, PutCheck,
                            indexVars, callVars
  <2> QED BY <1>3, <2>1, <2>2, <2>3 DEF PutSegment
<1>4. CASE DeleteSegment(t)
  <2>1. CASE LockedAppend(t, "delete_append", "delete_add")
    BY <2>1, AppendWritten
  <2>2. CASE DeleteIndex(t, "delete_index") BY <2>2, DeleteIndexWritten
  <2>3. CASE AppendFails(t, "delete_append") \/ AddOffset(t, "delete_add", "delete_index")
    BY <1>1, <1>2, <2>3 DEF AppendFails, AddOffset, indexVars, callVars
  <2> QED BY <1>4, <2>1, <2>2, <2>3 DEF DeleteSegment
<1>5. CASE FetchSegment(t)
  <2>1. CASE Lookup(t, "fetch_lookup", "fetch_expired_at")
    BY <2>1, LookupWritten
  <2>2. CASE DeleteIndex(t, "fetch_evict") BY <2>2, DeleteIndexWritten
  <2>3. CASE \/ FetchExpiredAt(t) \/ FetchExpiredAtZero(t) \/ FetchRegion(t)
             \/ FetchRead(t) \/ FetchVersion(t)
    <3>1. PICK l \in {"fetch_expired_at_0", "fetch_region", "fetch_evict",
                      "idle", "fetch_read", "fetch_version"} : Goto(t, l)
      BY <2>3 DEF FetchExpiredAt, FetchExpiredAtZero, FetchRegion, FetchRead,
                  FetchVersion, FetchStep
    <3>2. UNCHANGED <<disk, index, heap, key, seg, ptr>>
      BY <2>3 DEF FetchExpiredAt, FetchExpiredAtZero, FetchRegion, FetchRead,
                  FetchVersion, FetchStep, indexVars, callVars
    <3> QED BY <1>1, <1>2, <3>1, <3>2
  <2> QED BY <1>5, <2>1, <2>2, <2>3 DEF FetchSegment
<1>6. CASE UpdateSegmentWithCAS(t)
  <2>1. CASE Lookup(t, "update_lookup", "update_swap")
    BY <2>1, LookupWritten
  <2>2. CASE LockedAppend(t, "update_append", "update_offset")
    BY <2>2, AppendWritten
  <2>3. CASE \/ UpdateConflict(t) \/ AppendFails(t, "update_append")
             \/ AddOffset(t, "update_add", "update_check")
             \/ UpdateCheck(t) \/ UpdateLock(t)
    <3>1. PICK l \in {"idle", "update_check", "update_lock", "rotate"} : Goto(t, l)
      BY <2>3 DEF UpdateConflict, AppendFails, AddOffset, UpdateCheck, UpdateLock
    <3>2. UNCHANGED <<disk, index, heap, key, seg, ptr>>
      BY <2>3 DEF UpdateConflict, AppendFails, AddOffset, UpdateCheck, UpdateLock,
                  indexVars, callVars
    <3> QED BY <1>1, <1>2, <3>1, <3>2
  <2> QED
    BY <1>6, <2>1, <2>2, <2>3, UpdateSwapWritten, UpdateINodeWritten
       DEF UpdateSegmentWithCAS
<1>7. CASE CreateActiveRegionFile(t) \/ PublishActiveRegion(t) \/ RotationFails(t)
  BY <1>1, <1>2, <1>7 DEF CreateActiveRegionFile, PublishActiveRegion, RotationFails,
                          indexVars, callVars
<1> QED BY <1>3, <1>4, <1>5, <1>6, <1>7 DEF Step

LEMMA StutterWritten == ASSUME Written, UNCHANGED vars PROVE Written'
BY DEF vars, indexVars, callVars, Written, OneEntryEach, OwnEntry, CarriesRecord,
       IndexWritten

LEMMA InitWritten == Init => Written
<1> SUFFICES ASSUME Init PROVE Written
  OBVIOUS
<1>1. \A i \in Inums : index[i] # 0 =>
         index[i] = 1 /\ \E k \in Stored : InodeNum[k] = i
  BY DEF Init
<1>2. OneEntryEach
  BY <1>1, LFSAssumption DEF OneEntryEach
<1>3. OwnEntry /\ CarriesRecord
  BY DEF Init, OwnEntry, CarriesRecord, Updating, Writing, Appended
<1>4. IndexWritten
  <2> SUFFICES ASSUME NEW i \in Inums, index[i] # 0
               PROVE  \E e \in RecordsOf(disk, i) :
                         /\ ~ IsTombstone(e.seg)
                         /\ e.seg.created = heap[index[i]].created
    BY DEF IndexWritten
  <2>1. PICK k \in Stored : InodeNum[k] = i
    BY <1>1
  <2>2. (CHOOSE j \in Stored : TRUE) = k
    BY <2>1, LFSAssumption
  <2> DEFINE first == NewSegment(k, FirstValue, 0, 1)
  <2>3. Record(1, Header, first) \in disk
    BY <2>1 DEF Init
  <2>4. heap = <<HeapINode(1, Header, first)>>
    BY <2>1, <2>2 DEF Init
  <2>5. first.key = k /\ ~ IsTombstone(first)
    BY RegionsAssumption, LFSAssumption DEF NewSegment, IsTombstone
  <2> HIDE DEF first
  <2>6. heap[index[i]].created = first.created
    BY <1>1, <2>4 DEF HeapINode
  <2> QED BY <2>1, <2>3, <2>5, <2>6 DEF RecordsOf, Record
<1> QED BY <1>2, <1>3, <1>4 DEF Written

LEMMA NextWritten == Typed /\ Written /\ [Next]_vars => Written'
BY CallWritten, StepWritten, StutterWritten DEF Next, Finished

\* Whatever goroutines call, and whatever the disk refuses: an entry of the
\* index carries the creation time of a live record that is in some file.
THEOREM IndexIsWritten == Spec => []IndexWritten
<1>1. Written => IndexWritten
  BY DEF Written
<1> QED BY <1>1, InitWritten, NextWritten, AlwaysTyped, PTL DEF Spec

=============================================================================
