--------------------------- MODULE StoreKVProofs ---------------------------
(***************************************************************************)
(* Store implements the map of module KV, for all values of its constants, *)
(* on a disk that refuses nothing and when all processes end in one way.   *)
(* To the invariants of StoreProofs this adds that each inode number that  *)
(* has records has a last one, by which an index and a scan are compared.  *)
(***************************************************************************)
EXTENDS StoreKV, StoreProofs

\* The map that clients see, and an item of it with the files made explicit.
Map == [i \in Inums |-> ItemAt(VisibleIndex[i])]

ItemIn(D, inode) ==
    IF inode = NoINode THEN NoINode
    ELSE LET e == CHOOSE e \in ReadSegment(D, inode.region, inode.pos) : TRUE
         IN  [value |-> e.seg.value, expired |-> inode.expired]

LEMMA MapIs ==
    /\ Map = [i \in Inums |-> ItemIn(disk, VisibleIndex[i])]
    /\ Map' = [i \in Inums |-> ItemIn(disk', VisibleIndex'[i])]
BY DEF Map, ItemAt, ItemIn

HasLast ==
    \A i \in Inums :
        \/ RecordsOf(disk, i) = {}
        \/ \E e \in RecordsOf(disk, i) : IsLast(e, RecordsOf(disk, i))

\* A scan of records none of which expires does not depend on the instant.
LEMMA ScanIgnoresClock ==
    ASSUME disk \subseteq Entry, NothingExpires, NEW now, NEW later
    PROVE  CrashRecoveryAllIndex(disk, now) = CrashRecoveryAllIndex(disk, later)
<1> DEFINE G(Q) == IF \E e \in Q : IsLast(e, Q) /\ ~ IsTombstone(e.seg)
                   THEN LET e == CHOOSE e \in Q : IsLast(e, Q)
                        IN  INodeFor(e.region, e.pos, e.seg)
                   ELSE NoINode
<1>1. \A t : CrashRecoveryAllIndex(disk, t) =
               [i \in Inums |-> G(Replayed(disk, i, t))]
  BY DEF CrashRecoveryAllIndex
<1>2. \A t : \A i \in Inums : Replayed(disk, i, t) = RecordsOf(disk, i)
  BY DEF Replayed, NothingExpires, IsExpired, RecordsOf
<1> HIDE DEF G
<1>3. \A t : CrashRecoveryAllIndex(disk, t) = [i \in Inums |-> G(RecordsOf(disk, i))]
  BY <1>1, <1>2
<1> QED BY <1>3

\* Where nothing expires, the last records determine an index.
LEMMA LatestIsOne ==
    ASSUME HasLast, NothingExpires, NEW now, NEW idx \in Index, NEW jdx \in Index,
           Latest(disk, idx, now), Latest(disk, jdx, now)
    PROVE  idx = jdx
<1>1. ASSUME NEW i \in Inums PROVE idx[i] = jdx[i]
  <2>1. CASE RecordsOf(disk, i) = {}
    BY <2>1 DEF Latest
  <2>2. ASSUME NEW e \in RecordsOf(disk, i), IsLast(e, RecordsOf(disk, i))
        PROVE  idx[i] = jdx[i]
    <3>1. ~ IsExpired(e.seg.expired, now)
      BY DEF NothingExpires, IsExpired, RecordsOf
    <3> QED BY <2>2, <3>1 DEF Latest
  <2> QED BY <2>1, <2>2 DEF HasLast
<1> QED BY <1>1 DEF Index

\* A record appended behind all others is found where it starts, and hides none.
LEMMA AppendedIsRead ==
    ASSUME NEW D, D \subseteq Entry, NEW rec \in Entry,
           \A f \in D : Before(f, rec)
    PROVE  /\ ReadSegment(D \cup {rec}, rec.region, rec.pos) = {rec}
           /\ \A inode, i : ReadsBack(D, i, inode) =>
                 ItemIn(D \cup {rec}, inode) = ItemIn(D, inode)
<1>1. \A f \in D : ~ (f.region = rec.region /\ f.pos = rec.pos)
  BY DEF Before, Entry
<1>2. ReadSegment(D \cup {rec}, rec.region, rec.pos) = {rec}
  BY <1>1 DEF ReadSegment
<1>3. ASSUME NEW inode, NEW i, ReadsBack(D, i, inode)
      PROVE  ItemIn(D \cup {rec}, inode) = ItemIn(D, inode)
  <2>1. ReadSegment(D \cup {rec}, inode.region, inode.pos)
          = ReadSegment(D, inode.region, inode.pos)
    BY <1>1, <1>3 DEF ReadSegment, ReadsBack
  <2> QED BY <2>1 DEF ItemIn
<1> QED BY <1>2, <1>3

-----------------------------------------------------------------------------

\* What a put and a delete do to the map: the item of their inode number is
\* the one of the record, the others are as before.
LEMMA AppendMaps ==
    ASSUME Sound, running, running', NEW rec \in Entry,
           rec.region = regionID, rec.pos = offset, disk' = disk \cup {rec},
           NEW o \in Inums, NEW inode \in INode \cup {NoINode},
           index' = [index EXCEPT ![o] = inode],
           inode # NoINode => inode = INodeFor(rec.region, rec.pos, rec.seg)
    PROVE  Map' = [Map EXCEPT ![o] =
                     IF inode = NoINode THEN NoINode
                     ELSE [value |-> rec.seg.value, expired |-> rec.seg.expired]]
<1>1. disk \subseteq Entry /\ index \in Index
  BY DEF Sound, Shape, TypeOK
<1>2. \A f \in disk : Before(f, rec)
  BY LastAppended
<1>3. /\ ReadSegment(disk', rec.region, rec.pos) = {rec}
      /\ \A n, i : ReadsBack(disk, i, n) => ItemIn(disk', n) = ItemIn(disk, n)
  BY <1>1, <1>2, AppendedIsRead
<1>4. VisibleIndex = index /\ VisibleIndex' = index'
  BY DEF VisibleIndex
<1>5. ASSUME NEW i \in Inums, i # o
      PROVE  ItemIn(disk', index'[i]) = ItemIn(disk, index[i])
  <2>1. index'[i] = index[i]
    BY <1>1, <1>5 DEF Index
  <2>2. CASE index[i] = NoINode
    BY <2>1, <2>2 DEF ItemIn
  <2>3. CASE index[i] # NoINode
    BY <1>3, <2>1, <2>3 DEF Sound, IndexSound, Leads
  <2> QED BY <2>2, <2>3
<1>6. ItemIn(disk', index'[o]) =
         IF inode = NoINode THEN NoINode
         ELSE [value |-> rec.seg.value, expired |-> rec.seg.expired]
  <2>1. index'[o] = inode
    BY <1>1 DEF Index
  <2>2. CASE inode = NoINode
    BY <2>1, <2>2 DEF ItemIn
  <2>3. CASE inode # NoINode
    <3>1. /\ inode.region = rec.region /\ inode.pos = rec.pos
          /\ inode.expired = rec.seg.expired
      BY <2>3 DEF INodeFor
    <3>2. (CHOOSE e \in ReadSegment(disk', inode.region, inode.pos) : TRUE) = rec
      BY <1>3, <3>1
    <3> QED BY <2>1, <2>3, <3>1, <3>2 DEF ItemIn
  <2> QED BY <2>2, <2>3
<1> QED BY <1>4, <1>5, <1>6, MapIs

LEMMA PutSegmentMaps ==
    ASSUME Faults = {}, Sound, NEW k \in Keys, NEW v \in Values, NEW ttl \in Ttls,
           PutSegment(k, v, ttl)
    PROVE  KVView!Put(InodeNum[k], v, ttl)
<1> DEFINE seg == NewSegment(k, v, ttl, clock)
           rec == Record(regionID, offset, seg)
<1>1. seg \in Segment
  BY NewSegmentType, StoreAssumption DEF Sound, Shape, TypeOK
<1>2. /\ running /\ Room /\ running' = running /\ clock' = clock
      /\ AppendToActiveRegion(seg)
      /\ index' = [index EXCEPT ![InodeNum[k]] = INodeFor(regionID, offset, seg)]
      /\ \/ CreateActiveRegion(fsize[active] + Size(seg))
         \/ KeepActiveRegion(fsize[active] + Size(seg), offset + Size(seg))
  BY DEF PutSegment, CreateActiveRegionFails
<1>3. /\ seg.value = v
      /\ seg.expired = IF ttl > 0 THEN clock + ttl ELSE 0
  BY DEF NewSegment
<1> HIDE DEF seg
<1>4. disk' = disk \cup {rec}
  BY <1>1, <1>2, AppendSound
<1>5. /\ rec.region = regionID /\ rec.pos = offset /\ rec.seg = seg
      /\ rec \in Entry
  BY <1>1 DEF Record, Entry, Sound, Shape, TypeOK
<1> HIDE DEF rec
<1>6. /\ INodeFor(regionID, offset, seg) \in INode
      /\ INodeFor(regionID, offset, seg) # NoINode
  BY <1>1, INodeForType, RegionsAssumption DEF Sound, Shape, TypeOK
<1>7. InodeNum[k] \in Inums
  BY DEF Inums
<1>8. Map' = [Map EXCEPT ![InodeNum[k]] = [value |-> v, expired |-> seg.expired]]
  BY <1>2, <1>3, <1>4, <1>5, <1>6, <1>7, AppendMaps
<1> QED BY <1>2, <1>3, <1>8 DEF KVView!Put, Map

LEMMA DeleteSegmentMaps ==
    ASSUME Sound, NEW k \in Keys, DeleteSegment(k)
    PROVE  KVView!Delete(InodeNum[k])
<1> DEFINE seg == NewTombstoneSegment(k, clock)
           rec == Record(regionID, offset, seg)
<1>1. seg \in Segment
  BY NewTombstoneSegmentType DEF Sound, Shape, TypeOK
<1>2. /\ running /\ Room /\ running' = running /\ clock' = clock
      /\ AppendToActiveRegion(seg)
      /\ index' = [index EXCEPT ![InodeNum[k]] = NoINode]
      /\ KeepActiveRegion(fsize[active] + Size(seg), offset + Size(seg))
  BY DEF DeleteSegment
<1> HIDE DEF seg
<1>3. disk' = disk \cup {rec}
  BY <1>1, <1>2, AppendSound
<1>4. /\ rec.region = regionID /\ rec.pos = offset /\ rec \in Entry
  BY <1>1 DEF Record, Entry, Sound, Shape, TypeOK
<1> HIDE DEF rec
<1>5. InodeNum[k] \in Inums
  BY DEF Inums
<1>6. Map' = [Map EXCEPT ![InodeNum[k]] = NoINode]
  BY <1>2, <1>3, <1>4, <1>5, AppendMaps
<1> QED BY <1>2, <1>6 DEF KVView!Delete, Map

\* A fetch that meets an expired entry takes an expired item out of the map.
LEMMA FetchSegmentMaps ==
    ASSUME Sound, NEW k \in Keys, FetchSegmentExpired(k)
    PROVE  KVView!Expire
<1> DEFINE o == InodeNum[k]
<1>1. /\ running /\ running' = running /\ UNCHANGED <<disk, clock>>
      /\ o \in Inums /\ index \in Index /\ index[o] # NoINode
      /\ IsExpired(index[o].expired, clock)
      /\ index' = [index EXCEPT ![o] = NoINode]
  BY DEF FetchSegmentExpired, diskVars, Inums, Sound, Shape, TypeOK
<1>2. VisibleIndex = index /\ VisibleIndex' = index'
  BY <1>1 DEF VisibleIndex
<1>3. Map[o] = ItemIn(disk, index[o]) /\ Map'[o] = NoINode
  BY <1>1, <1>2, MapIs DEF Index, ItemIn
<1>4. Map[o] = NoINode \/ Map[o].expired = index[o].expired
  BY <1>1, <1>3 DEF ItemIn
<1>5. ASSUME NEW i \in Inums, i # o
      PROVE  Map'[i] = Map[i]
  <2>1. index'[i] = index[i]
    BY <1>1, <1>5 DEF Index
  <2> QED BY <1>1, <1>2, <2>1, MapIs
<1>6. Map = [i \in Inums |-> Map[i]] /\ Map' = [i \in Inums |-> Map'[i]]
  BY DEF Map
<1> HIDE DEF o
<1>7. CASE Map[o] = NoINode
  <2>1. Map' = [i \in Inums |-> IF i \in {} THEN NoINode ELSE Map[i]]
    BY <1>3, <1>5, <1>6, <1>7
  <2>2. KVView!Evict({}, clock)
    BY <2>1 DEF KVView!Evict, Map
  <2> QED BY <1>1, <2>2 DEF KVView!Expire
<1>8. CASE Map[o] # NoINode
  <2>1. Map' = [i \in Inums |-> IF i \in {o} THEN NoINode ELSE Map[i]]
    BY <1>3, <1>5, <1>6
  <2>2. KVView!ExpiredAt(o, clock)
    BY <1>1, <1>4, <1>8 DEF KVView!ExpiredAt, IsExpired, Map
  <2>3. KVView!Evict({o}, clock)
    BY <2>1, <2>2 DEF KVView!Evict, Map
  <2> QED BY <1>1, <2>3 DEF KVView!Expire
<1> QED BY <1>7, <1>8

-----------------------------------------------------------------------------

\* What leads clients to the same records shows them the same map.
LEMMA MapStays ==
    ASSUME disk' = disk, VisibleIndex' = VisibleIndex
    PROVE  Map' = Map
BY MapIs

\* The index a start would scan for is the one in memory, or does not change
\* with the instant at which it starts.
LEMMA TickMaps ==
    ASSUME Sound, Recoverable, Tick
    PROVE  KVView!Tick
<1>1. clock' = clock + 1 /\ UNCHANGED <<disk, snapshot, running, index>>
  BY DEF Tick, diskVars, memoryVars
<1>2. VisibleIndex' = VisibleIndex
  <2>1. CASE running \/ snapshot # NoSnapshot
    BY <1>1, <2>1 DEF VisibleIndex, RecoveredIndex
  <2>2. CASE ~ running /\ snapshot = NoSnapshot
    <3>1. NothingExpires /\ disk \subseteq Entry
      BY <2>2 DEF Recoverable, Sound, Shape, TypeOK
    <3>2. CrashRecoveryAllIndex(disk, clock) = CrashRecoveryAllIndex(disk, clock')
      BY <3>1, ScanIgnoresClock
    <3>3. /\ VisibleIndex = CrashRecoveryAllIndex(disk, clock)
          /\ VisibleIndex' = CrashRecoveryAllIndex(disk', clock')
      BY <1>1, <2>2 DEF VisibleIndex, RecoveredIndex
    <3> QED BY <1>1, <3>2, <3>3
  <2> QED BY <2>1, <2>2
<1>3. Map' = Map
  BY <1>1, <1>2, MapStays
<1>4. Map' = [i \in Inums |-> IF i \in {} THEN NoINode ELSE Map[i]]
  BY <1>3 DEF Map
<1>5. KVView!Evict({}, clock')
  BY <1>4 DEF KVView!Evict, Map
<1> QED BY <1>1, <1>5 DEF KVView!Tick

\* The end of the process keeps the map: CloseFS writes the index it served to
\* the index file, and after a crash the last records say what it said.
LEMMA ExitMaps ==
    ASSUME OneKindOfExit, Sound, Recoverable, HasLast,
           CloseFS \/ ExportInterrupted \/ Crash
    PROVE  Map' = Map /\ clock' = clock
<1>1. /\ running /\ ~ running'
      /\ UNCHANGED <<disk, clock>>
  BY DEF CloseFS, ExportInterrupted, Crash, MemoryLost, diskVars
<1>2. index \in Index /\ VisibleIndex = index /\ VisibleIndex' = RecoveredIndex'
  BY <1>1 DEF VisibleIndex, Sound, Shape, TypeOK
<1>3. CASE CloseFS
  <2>1. snapshot' = index /\ snapshot' # NoSnapshot
    BY <1>2, <1>3, StoreAssumption DEF CloseFS
  <2> QED BY <1>1, <1>2, <2>1, MapStays DEF RecoveredIndex
<1>4. CASE ExportInterrupted
  BY <1>4 DEF ExportInterrupted, OneKindOfExit
<1>5. CASE Crash
  <2>1. /\ snapshot = NoSnapshot /\ snapshot' = NoSnapshot
        /\ NothingExpires
    BY <1>5 DEF Crash, diskVars, Recoverable
  <2>2. VisibleIndex' = CrashRecoveryAllIndex(disk, clock)
    BY <1>1, <1>2, <2>1 DEF RecoveredIndex
  <2>3. /\ Latest(disk, index, clock)
        /\ Latest(disk, CrashRecoveryAllIndex(disk, clock), clock)
    BY <1>1, <2>1, ScanLatest DEF Recoverable, Sound
  <2>4. CrashRecoveryAllIndex(disk, clock) \in Index
    BY ScanSound DEF Sound, Shape, TypeOK
  <2>5. index = CrashRecoveryAllIndex(disk, clock)
    BY <1>2, <2>1, <2>3, <2>4, LatestIsOne
  <2> QED BY <1>1, <1>2, <2>2, <2>5, MapStays
<1> QED BY <1>3, <1>4, <1>5

LEMMA OpenFSMaps ==
    ASSUME OpenFS
    PROVE  Map' = Map /\ clock' = clock
<1>1. /\ ~ running /\ running' = TRUE
      /\ index' = RecoveredIndex
      /\ UNCHANGED <<disk, clock>>
  BY DEF OpenFS
<1>2. VisibleIndex' = VisibleIndex
  BY <1>1 DEF VisibleIndex
<1> QED BY <1>1, <1>2, MapStays

-----------------------------------------------------------------------------

\* The record an append adds is the last one of its inode number.
LEMMA AppendKeepsLast ==
    ASSUME Sound, HasLast, running, NEW rec \in Entry,
           rec.region = regionID, rec.pos = offset, disk' = disk \cup {rec}
    PROVE  HasLast'
<1>1. \A f \in disk : Before(f, rec)
  BY LastAppended
<1>2. ASSUME NEW i \in Inums
      PROVE  \/ RecordsOf(disk', i) = {}
             \/ \E e \in RecordsOf(disk', i) : IsLast(e, RecordsOf(disk', i))
  <2>1. CASE i = InodeNum[rec.seg.key]
    <3>1. rec \in RecordsOf(disk', i) /\ RecordsOf(disk', i) \subseteq disk \cup {rec}
      BY <2>1 DEF RecordsOf
    <3>2. \A f \in RecordsOf(disk', i) : f = rec \/ Before(f, rec)
      BY <1>1, <3>1
    <3>3. IsLast(rec, RecordsOf(disk', i))
      BY <3>1, <3>2 DEF IsLast
    <3> QED BY <3>1, <3>3
  <2>2. CASE i # InodeNum[rec.seg.key]
    <3>1. RecordsOf(disk', i) = RecordsOf(disk, i)
      BY <2>2 DEF RecordsOf
    <3> QED BY <3>1 DEF HasLast
  <2> QED BY <2>1, <2>2
<1> QED BY <1>2 DEF HasLast

LEMMA InitHasLast == Init => HasLast
BY DEF Init, HasLast, RecordsOf

LEMMA NextHasLast ==
    ASSUME Faults = {}
    PROVE  Sound /\ HasLast /\ [Next]_vars => HasLast'
<1> SUFFICES ASSUME Sound, HasLast, [Next]_vars
             PROVE  HasLast'
  OBVIOUS
<1> USE DEF Sound, Shape, TypeOK
<1>1. ASSUME NEW k \in Keys, NEW v \in Values, NEW ttl \in Ttls,
             PutSegment(k, v, ttl)
      PROVE  HasLast'
  <2> DEFINE seg == NewSegment(k, v, ttl, clock)
             rec == Record(regionID, offset, seg)
  <2>1. seg \in Segment
    BY NewSegmentType, StoreAssumption
  <2>2. /\ running /\ Room /\ running' = running
        /\ AppendToActiveRegion(seg)
        /\ \/ CreateActiveRegion(fsize[active] + Size(seg))
           \/ KeepActiveRegion(fsize[active] + Size(seg), offset + Size(seg))
    BY <1>1 DEF PutSegment, CreateActiveRegionFails
  <2> HIDE DEF seg
  <2>3. disk' = disk \cup {rec}
    BY <2>1, <2>2, AppendSound
  <2>4. rec.region = regionID /\ rec.pos = offset /\ rec \in Entry
    BY <2>1 DEF Record, Entry
  <2> HIDE DEF rec
  <2> QED BY <2>2, <2>3, <2>4, AppendKeepsLast
<1>2. ASSUME NEW k \in Keys, DeleteSegment(k)
      PROVE  HasLast'
  <2> DEFINE seg == NewTombstoneSegment(k, clock)
             rec == Record(regionID, offset, seg)
  <2>1. seg \in Segment
    BY NewTombstoneSegmentType
  <2>2. /\ running /\ Room /\ running' = running
        /\ AppendToActiveRegion(seg)
        /\ KeepActiveRegion(fsize[active] + Size(seg), offset + Size(seg))
    BY <1>2 DEF DeleteSegment
  <2> HIDE DEF seg
  <2>3. disk' = disk \cup {rec}
    BY <2>1, <2>2, AppendSound
  <2>4. rec.region = regionID /\ rec.pos = offset /\ rec \in Entry
    BY <2>1 DEF Record, Entry
  <2> HIDE DEF rec
  <2> QED BY <2>2, <2>3, <2>4, AppendKeepsLast
<1>3. CASE UNCHANGED disk
  BY <1>3 DEF HasLast
<1>4. ASSUME NEW k \in Keys, FetchSegmentExpired(k)
      PROVE  UNCHANGED disk
  BY <1>4 DEF FetchSegmentExpired, diskVars
<1>5. ASSUME NEW seg, AppendFails(seg)
      PROVE  UNCHANGED disk
  BY <1>5 DEF AppendFails
<1>6. CASE Tick \/ CloseFS \/ ExportInterrupted \/ Crash \/ OpenFS \/ OpenFSFails
  BY <1>3, <1>6
     DEF Tick, CloseFS, ExportInterrupted, Crash, OpenFS, OpenFSFails, diskVars
<1>7. CASE UNCHANGED vars
  BY <1>3, <1>7 DEF vars, diskVars
<1> QED BY <1>1, <1>2, <1>3, <1>4, <1>5, <1>6, <1>7
        DEF Next, PutSegmentFails, DeleteSegmentFails

-----------------------------------------------------------------------------

LEMMA InitMaps == Init => KVView!Init
<1> SUFFICES ASSUME Init
             PROVE  KVView!Init
  OBVIOUS
<1>1. /\ ~ running /\ snapshot = NoSnapshot /\ disk = {}
      /\ clock = 1
  BY DEF Init
<1>2. ASSUME NEW i \in Inums
      PROVE  VisibleIndex[i] = NoINode
  <2>1. Replayed(disk, i, clock) = {}
    BY <1>1 DEF Replayed, RecordsOf
  <2>2. CrashRecoveryAllIndex(disk, clock)[i] = NoINode
    BY <2>1 DEF CrashRecoveryAllIndex
  <2> QED BY <1>1, <2>2 DEF VisibleIndex, RecoveredIndex
<1>3. Map = [i \in Inums |-> NoINode]
  BY <1>2 DEF Map, ItemAt
<1> QED BY <1>1, <1>3 DEF KVView!Init, Map

LEMMA NextMaps ==
    ASSUME Faults = {}, OneKindOfExit
    PROVE  Sound /\ Recoverable /\ HasLast /\ [Next]_vars
             => [KVView!Next]_(KVView!vars)
<1> SUFFICES ASSUME Sound, Recoverable, HasLast, [Next]_vars
             PROVE  KVView!Next \/ UNCHANGED KVView!vars
  OBVIOUS
<1>1. ASSUME NEW k \in Keys, NEW v \in Values, NEW ttl \in Ttls,
             PutSegment(k, v, ttl)
      PROVE  KVView!Next
  BY <1>1, PutSegmentMaps DEF KVView!Next, Inums
<1>2. ASSUME NEW k \in Keys, DeleteSegment(k)
      PROVE  KVView!Next
  BY <1>2, DeleteSegmentMaps DEF KVView!Next, Inums
<1>3. ASSUME NEW k \in Keys, FetchSegmentExpired(k)
      PROVE  KVView!Next
  BY <1>3, FetchSegmentMaps DEF KVView!Next
<1>4. CASE Tick
  BY <1>4, TickMaps DEF KVView!Next
<1>5. ASSUME Map' = Map, clock' = clock
      PROVE  UNCHANGED KVView!vars
  BY <1>5 DEF KVView!vars, Map
<1>6. CASE CloseFS \/ ExportInterrupted \/ Crash
  BY <1>5, <1>6, ExitMaps
<1>7. CASE OpenFS
  BY <1>5, <1>7, OpenFSMaps
<1>8. CASE OpenFSFails \/ UNCHANGED vars
  <2>1. UNCHANGED <<disk, snapshot, memoryVars, clock>>
    BY <1>8 DEF OpenFSFails, vars, diskVars
  <2>2. VisibleIndex' = VisibleIndex
    BY <2>1 DEF VisibleIndex, RecoveredIndex, memoryVars
  <2> QED BY <1>5, <2>1, <2>2, MapStays
<1>9. ASSUME NEW seg
      PROVE  ~ AppendFails(seg)
  BY DEF AppendFails
<1> QED BY <1>1, <1>2, <1>3, <1>4, <1>6, <1>7, <1>8, <1>9
        DEF Next, PutSegmentFails, DeleteSegmentFails

\* What clients read is the map of module KV: nothing but a put, a delete or an
\* expiry changes it, and neither rotation, nor the end of the process, nor the
\* start of the next one is among these, on a disk that refuses nothing, when
\* the process always ends by CloseFS, or always crashes and nothing has a time
\* to live.
THEOREM ImplementsMap ==
    ASSUME Faults = {}, OneKindOfExit
    PROVE  Spec => ImplementsKV
<1>1. Spec => []Sound
  BY SpecSound
<1>2. Sound /\ Recoverable /\ [Next]_vars => Recoverable'
  BY NextRecoverable
<1>3. Sound /\ HasLast /\ [Next]_vars => HasLast'
  BY NextHasLast
<1>4. Spec => [](Sound /\ Recoverable /\ HasLast)
  BY <1>1, <1>2, <1>3, InitRecoverable, InitHasLast, PTL DEF Spec
<1>5. Sound /\ Recoverable /\ HasLast /\ [Next]_vars
        => [KVView!Next]_(KVView!vars)
  BY NextMaps
<1> QED BY <1>4, <1>5, InitMaps, PTL DEF Spec, ImplementsKV, KVView!Spec

=============================================================================
