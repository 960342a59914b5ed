---------------------------- MODULE StoreProofs ----------------------------
(***************************************************************************)
(* Proofs about Store, for all values of its constants.                    *)
(*                                                                         *)
(* TypeOK holds whatever the disk refuses and however the process ends.    *)
(* IndexSound needs a disk that refuses nothing (Faults = {}): Sound below *)
(* adds to it what makes it inductive, namely that lfs.offset is the end   *)
(* of the newest file and that every record and every entry, in memory or  *)
(* in the index file, is of a file that exists.                            *)
(***************************************************************************)
EXTENDS Store, TLAPS

\* A record takes at least a byte.
LEMMA SizePositive ==
    ASSUME NEW seg \in Segment
    PROVE  Size(seg) \in Nat \ {0}
<1>1. /\ seg.key \in Keys
      /\ seg.value \in Payloads
  BY DEF Segment
<1>2. SegSize[<<seg.key, seg.value>>] \in Nat \ {0}
  BY <1>1, RegionsAssumption
<1> QED BY <1>2 DEF Size

LEMMA SizeType ==
    ASSUME NEW seg \in Segment
    PROVE  Size(seg) \in Nat
BY SizePositive

LEMMA NewSegmentType ==
    ASSUME NEW k \in Keys, NEW v \in Values, NEW ttl \in Nat, NEW now \in Nat
    PROVE  NewSegment(k, v, ttl, now) \in Segment
BY DEF NewSegment, Segment, Payloads

LEMMA NewTombstoneSegmentType ==
    ASSUME NEW k \in Keys, NEW now \in Nat
    PROVE  NewTombstoneSegment(k, now) \in Segment
BY DEF NewTombstoneSegment, Segment, Payloads

LEMMA INodeForType ==
    ASSUME NEW region \in Nat, NEW pos \in Nat, NEW seg \in Segment
    PROVE  INodeFor(region, pos, seg) \in INode
BY DEF INodeFor, INode, Segment

LEMMA EmptyIndexType == EmptyIndex \in Index
BY DEF EmptyIndex, Index

\* The index a scan rebuilds is an index, and each of its entries names a
\* live record of its inode number.
LEMMA ScanSound ==
    ASSUME NEW D, D \subseteq Entry, NEW now
    PROVE  /\ CrashRecoveryAllIndex(D, now) \in Index
           /\ \A i \in Inums :
                CrashRecoveryAllIndex(D, now)[i] # NoINode =>
                  \E e \in D :
                    /\ InodeNum[e.seg.key] = i
                    /\ ~ IsTombstone(e.seg)
                    /\ CrashRecoveryAllIndex(D, now)[i] =
                         INodeFor(e.region, e.pos, e.seg)
<1> DEFINE Last(i) == CHOOSE e \in Replayed(D, i, now) :
                         IsLast(e, Replayed(D, i, now))
           Live(i) == \E e \in Replayed(D, i, now) :
                         IsLast(e, Replayed(D, i, now)) /\ ~ IsTombstone(e.seg)
<1>1. ASSUME NEW i \in Inums, Live(i)
      PROVE  /\ Last(i) \in D
             /\ InodeNum[Last(i).seg.key] = i
             /\ ~ IsTombstone(Last(i).seg)
  <2>1. PICK e \in Replayed(D, i, now) :
           IsLast(e, Replayed(D, i, now)) /\ ~ IsTombstone(e.seg)
    BY <1>1
  <2>2. /\ Last(i) \in Replayed(D, i, now)
        /\ IsLast(Last(i), Replayed(D, i, now))
    BY <2>1
  <2>3. /\ e \in Entry
        /\ Last(i) \in Entry
    BY <2>1, <2>2 DEF Replayed, RecordsOf
  <2>4. e = Last(i) \/ (Before(e, Last(i)) /\ Before(Last(i), e))
    BY <2>1, <2>2 DEF IsLast
  <2>5. ~ (Before(e, Last(i)) /\ Before(Last(i), e))
    BY <2>3 DEF Before, Entry
  <2>6. e = Last(i)
    BY <2>4, <2>5
  <2> QED BY <2>1, <2>2, <2>6 DEF Replayed, RecordsOf
<1>2. CrashRecoveryAllIndex(D, now) =
        [i \in Inums |-> IF Live(i)
                         THEN INodeFor(Last(i).region, Last(i).pos, Last(i).seg)
                         ELSE NoINode]
  BY DEF CrashRecoveryAllIndex
<1>3. ASSUME NEW i \in Inums, Live(i)
      PROVE  INodeFor(Last(i).region, Last(i).pos, Last(i).seg) \in INode
  <2>1. Last(i) \in Entry
    BY <1>1, <1>3
  <2> HIDE DEF Last
  <2> QED BY <2>1, INodeForType DEF Entry
<1> HIDE DEF Last, Live
<1>4. CrashRecoveryAllIndex(D, now) \in Index
  BY <1>2, <1>3 DEF Index
<1>5. ASSUME NEW i \in Inums, CrashRecoveryAllIndex(D, now)[i] # NoINode
      PROVE  \E e \in D :
                /\ InodeNum[e.seg.key] = i
                /\ ~ IsTombstone(e.seg)
                /\ CrashRecoveryAllIndex(D, now)[i] =
                     INodeFor(e.region, e.pos, e.seg)
  <2>1. Live(i)
    BY <1>2, <1>5
  <2> QED BY <1>1, <1>2, <2>1
<1> QED BY <1>4, <1>5

-----------------------------------------------------------------------------

\* The type invariant with what OpenFS needs to find the newest file and an
\* append needs to find the active one.
Shape ==
    /\ TypeOK
    /\ files # {} => \E r \in files : \A q \in files : q <= r
    /\ running =>
          /\ active \in RegionIds
          /\ regionID \in RegionIds
          /\ \A r \in files : r <= regionID

LEMMA NewestFileIsNewest ==
    ASSUME Shape, files # {}
    PROVE  /\ NewestFile \in files
           /\ \A q \in files : q <= NewestFile
BY DEF Shape, NewestFile

LEMMA RecoveredIndexType ==
    ASSUME Shape, CanOpen
    PROVE  RecoveredIndex \in Index
<1>1. CrashRecoveryAllIndex(disk, clock) \in Index
  BY ScanSound DEF Shape, TypeOK
<1> QED BY <1>1 DEF RecoveredIndex, CanOpen, Shape, TypeOK

LEMMA HeaderType == Header \in Nat
BY RegionsAssumption

LEMMA InitShape == Init => Shape
<1> SUFFICES ASSUME Init
             PROVE  Shape
  OBVIOUS
<1>1. TypeOK
  <2>1. fsize \in [RegionIds -> Nat]
    BY DEF Init
  <2>2. running \in BOOLEAN
    BY DEF Init
  <2> QED BY <2>1, <2>2, EmptyIndexType, HeaderType DEF Init, TypeOK
<1> QED BY <1>1 DEF Init, Shape

\* A new region is the newest one.
LEMMA NewRegion ==
    ASSUME NEW F, F \subseteq RegionIds, NEW id \in RegionIds,
           \A q \in F : q < id
    PROVE  /\ F \cup {id} \subseteq RegionIds
           /\ \A q \in F \cup {id} : q <= id
           /\ \E r \in F \cup {id} : \A q \in F \cup {id} : q <= r
<1>1. \A q \in F \cup {id} : q <= id
  BY DEF RegionIds
<1> QED BY <1>1

\* What the two appending operations have in common.
LEMMA AppendType ==
    ASSUME Shape, running, Room, NEW seg \in Segment
    PROVE  /\ fsize[active] \in Nat
           /\ fsize[active] + Size(seg) \in Nat
           /\ offset + Size(seg) \in Nat
           /\ NextRegion(regionID) \in RegionIds
           /\ regionID < NextRegion(regionID)
           /\ Record(active, fsize[active], seg) \in Entry
           /\ INodeFor(regionID, offset, seg) \in INode
<1>1. Size(seg) \in Nat
  BY SizeType
<1>2. /\ active \in RegionIds
      /\ regionID \in RegionIds
      /\ fsize \in [RegionIds -> Nat]
      /\ offset \in Nat
  BY DEF Shape, TypeOK
<1>3. regionID < MaxRegion
  BY DEF Room
<1>4. INodeFor(regionID, offset, seg) \in INode
  BY <1>2, INodeForType DEF RegionIds
<1>5. /\ active \in Nat
      /\ fsize[active] \in Nat
  BY <1>2 DEF RegionIds
<1>6. Record(active, fsize[active], seg) \in Entry
  BY <1>5 DEF Record, Entry
<1> QED BY <1>1, <1>2, <1>3, <1>4, <1>5, <1>6, RegionsAssumption
        DEF RegionIds, NextRegion

LEMMA PutSegmentShape ==
    ASSUME Shape, NEW k \in Keys, NEW v \in Values, NEW ttl \in Ttls,
           PutSegment(k, v, ttl)
    PROVE  Shape'
<1> DEFINE seg  == NewSegment(k, v, ttl, clock)
           size == fsize[active] + Size(seg)
           next == offset + Size(seg)
<1>1. seg \in Segment
  BY NewSegmentType, StoreAssumption DEF Shape, TypeOK
<1>2. running /\ Room
  BY DEF PutSegment
<1>3. /\ size \in Nat
      /\ next \in Nat
      /\ NextRegion(regionID) \in RegionIds
      /\ regionID < NextRegion(regionID)
      /\ Record(active, fsize[active], seg) \in Entry
      /\ INodeFor(regionID, offset, seg) \in INode
  BY <1>1, <1>2, AppendType
<1>4. /\ AppendToActiveRegion(seg)
      /\ index' = [index EXCEPT ![InodeNum[k]] = INodeFor(regionID, offset, seg)]
      /\ \/ CreateActiveRegion(size)
         \/ CreateActiveRegionFails(size, next)
         \/ KeepActiveRegion(size, next)
      /\ UNCHANGED <<running, clock>>
  BY DEF PutSegment
<1> HIDE DEF seg, size, next
<1>5. /\ disk' \subseteq Entry
      /\ snapshot' = snapshot
  BY <1>3, <1>4 DEF AppendToActiveRegion, Shape, TypeOK
<1>6. index' \in Index
  BY <1>3, <1>4 DEF Shape, TypeOK, Index
<1> DEFINE id == NextRegion(regionID)
<1>0. /\ files \cup {id} \subseteq RegionIds
      /\ \A q \in files \cup {id} : q <= id
      /\ \E r \in files \cup {id} : \A q \in files \cup {id} : q <= r
  <2>1. \A q \in files : q < id
    BY <1>2, <1>3 DEF Shape, TypeOK, RegionIds
  <2> HIDE DEF id
  <2> QED BY <1>3, <2>1, NewRegion DEF Shape, TypeOK, id
<1> HIDE DEF id
<1>7. CASE CreateActiveRegion(size)
  <2>1. /\ regionID' = id
        /\ files' = files \cup {id}
        /\ fsize' = [fsize EXCEPT ![active] = size, ![id] = Header]
        /\ active' = id
        /\ offset' = Header
        /\ regions' = regions \cup {id}
    BY <1>7 DEF CreateActiveRegion, id
  <2>2. id \in RegionIds /\ id \in Nat
    BY <1>3 DEF id, RegionIds
  <2>3. TypeOK'
    BY <1>0, <1>3, <1>4, <1>5, <1>6, <2>1, <2>2, HeaderType DEF Shape, TypeOK
  <2> QED BY <1>0, <2>1, <2>2, <2>3 DEF Shape
<1>8. CASE CreateActiveRegionFails(size, next)
  <2>1. /\ regionID' = id
        /\ files' \in {files, files \cup {id}}
        /\ fsize' = [fsize EXCEPT ![active] = size]
        /\ offset' = next
        /\ UNCHANGED <<active, regions>>
    BY <1>8 DEF CreateActiveRegionFails, id
  <2>2. id \in RegionIds /\ id \in Nat
    BY <1>3 DEF id, RegionIds
  <2>3. TypeOK'
    BY <1>0, <1>3, <1>4, <1>5, <1>6, <2>1, <2>2 DEF Shape, TypeOK
  <2>4. \A r \in files' : r <= regionID'
    BY <1>0, <2>1
  <2>5. files' # {} => \E r \in files' : \A q \in files' : q <= r
    BY <1>0, <2>1 DEF Shape
  <2> QED BY <1>2, <1>4, <2>1, <2>2, <2>3, <2>4, <2>5 DEF Shape
<1>9. CASE KeepActiveRegion(size, next)
  BY <1>2, <1>3, <1>4, <1>5, <1>6, <1>9
  DEF KeepActiveRegion, Shape, TypeOK, RegionIds
<1> QED BY <1>4, <1>7, <1>8, <1>9

LEMMA DeleteSegmentShape ==
    ASSUME Shape, NEW k \in Keys, DeleteSegment(k)
    PROVE  Shape'
<1> DEFINE seg == NewTombstoneSegment(k, clock)
<1>1. seg \in Segment
  BY NewTombstoneSegmentType DEF Shape, TypeOK
<1>2. running /\ Room
  BY DEF DeleteSegment
<1>3. /\ fsize[active] + Size(seg) \in Nat
      /\ offset + Size(seg) \in Nat
      /\ Record(active, fsize[active], seg) \in Entry
  BY <1>1, <1>2, AppendType
<1>4. /\ AppendToActiveRegion(seg)
      /\ index' = [index EXCEPT ![InodeNum[k]] = NoINode]
      /\ KeepActiveRegion(fsize[active] + Size(seg), offset + Size(seg))
      /\ UNCHANGED <<running, clock>>
  BY DEF DeleteSegment
<1> HIDE DEF seg
<1>5. /\ disk' \subseteq Entry
      /\ snapshot' = snapshot
  BY <1>3, <1>4 DEF AppendToActiveRegion, Shape, TypeOK
<1>6. index' \in Index
  BY <1>4 DEF Shape, TypeOK, Index
<1> QED BY <1>2, <1>3, <1>4, <1>5, <1>6
        DEF KeepActiveRegion, Shape, TypeOK, RegionIds

LEMMA AppendFailsShape ==
    ASSUME Shape, NEW seg \in Segment, AppendFails(seg)
    PROVE  Shape'
<1>1. PICK n \in 0 .. Size(seg) - 1 :
        fsize' = [fsize EXCEPT ![active] = @ + n]
  BY DEF AppendFails
<1>2. /\ running
      /\ UNCHANGED <<files, disk, snapshot, memoryVars, clock>>
  BY DEF AppendFails
<1>3. n \in Nat
  BY <1>1, SizeType
<1>4. fsize' \in [RegionIds -> Nat]
  BY <1>1, <1>2, <1>3 DEF Shape, TypeOK
<1> QED BY <1>2, <1>4 DEF memoryVars, Shape, TypeOK

\* The region OpenFS makes is newer than all files.
LEMMA FreshRegionIsNew ==
    ASSUME Shape, FreshRegion \in RegionIds
    PROVE  /\ \A q \in files : q < FreshRegion
           /\ FreshRegion \notin files
           /\ files \cup {FreshRegion} \subseteq RegionIds
           /\ \A q \in files \cup {FreshRegion} : q <= FreshRegion
<1>1. files \subseteq RegionIds
  BY DEF Shape, TypeOK
<1>2. \A q \in files : q < FreshRegion
  <2>1. CASE files = {}
    BY <2>1
  <2>2. CASE files # {}
    <3>1. /\ NewestFile \in files
          /\ \A q \in files : q <= NewestFile
      BY <2>2, NewestFileIsNewest
    <3>2. FreshRegion = NewestFile + 1
      BY <2>2 DEF FreshRegion, NextRegion
    <3> HIDE DEF NewestFile, FreshRegion
    <3> QED BY <1>1, <3>1, <3>2 DEF RegionIds
  <2> QED BY <2>1, <2>2
<1> HIDE DEF FreshRegion
<1> QED BY <1>1, <1>2 DEF RegionIds

LEMMA OpenFSShape ==
    ASSUME Shape, OpenFS
    PROVE  Shape'
<1>1. index' \in Index
  BY RecoveredIndexType DEF OpenFS
<1>2. /\ running' = TRUE
      /\ UNCHANGED <<disk, snapshot, clock>>
  BY DEF OpenFS
<1>3. CASE Continues
  <2>1. /\ NewestFile \in files
        /\ \A q \in files : q <= NewestFile
    BY <1>3, NewestFileIsNewest DEF Continues
  <2>2. /\ regions' = files
        /\ regionID' = NewestFile
        /\ active' = NewestFile
        /\ offset' = fsize[NewestFile]
        /\ UNCHANGED <<files, fsize>>
    BY <1>3 DEF OpenFS
  <2> HIDE DEF NewestFile
  <2> QED BY <1>1, <1>2, <2>1, <2>2 DEF Shape, TypeOK, RegionIds
<1>4. CASE ~ Continues
  <2> DEFINE id == FreshRegion
  <2>1. /\ id \in RegionIds
        /\ regions' = files \cup {id}
        /\ files' = files \cup {id}
        /\ fsize' = [fsize EXCEPT ![id] = Header]
        /\ regionID' = id
        /\ active' = id
        /\ offset' = Header
    BY <1>4 DEF OpenFS
  <2>2. /\ files \cup {id} \subseteq RegionIds
        /\ \A q \in files \cup {id} : q <= id
    BY <2>1, FreshRegionIsNew
  <2> HIDE DEF id
  <2>3. /\ files' \subseteq RegionIds
        /\ \A q \in files' : q <= id
        /\ \E r \in files' : \A q \in files' : q <= r
    BY <2>1, <2>2
  <2>4. id \in Nat
    BY <2>1 DEF RegionIds
  <2>5. TypeOK'
    <3>1. fsize' \in [RegionIds -> Nat]
      BY <2>1, HeaderType DEF Shape, TypeOK
    <3>2. /\ disk' \subseteq Entry
          /\ snapshot' \in Index \cup {NoSnapshot, BadSnapshot}
          /\ clock' \in Nat \ {0}
      BY <1>2 DEF Shape, TypeOK
    <3>3. running' \in BOOLEAN
      BY <1>2
    <3>4. /\ regions' \subseteq RegionIds
          /\ regionID' \in Nat
          /\ active' \in Nat
          /\ offset' \in Nat
      BY <2>1, <2>3, <2>4, HeaderType
    <3> QED BY <1>1, <2>3, <3>1, <3>2, <3>3, <3>4 DEF TypeOK
  <2> QED BY <1>2, <2>1, <2>3, <2>5 DEF Shape
<1> QED BY <1>3, <1>4

LEMMA OpenFSFailsShape ==
    ASSUME Shape, OpenFSFails
    PROVE  Shape'
<1>1. /\ ~ running
      /\ FreshRegion \in RegionIds
      /\ files' = files \cup {FreshRegion}
      /\ UNCHANGED <<disk, snapshot, memoryVars, clock>>
  BY DEF OpenFSFails
<1>2. fsize' \in [RegionIds -> Nat]
  BY HeaderType DEF OpenFSFails, Shape, TypeOK
<1>3. /\ files \cup {FreshRegion} \subseteq RegionIds
      /\ \A q \in files \cup {FreshRegion} : q <= FreshRegion
  BY <1>1, FreshRegionIsNew
<1> HIDE DEF FreshRegion
<1>4. TypeOK'
  BY <1>1, <1>2, <1>3 DEF memoryVars, Shape, TypeOK
<1> QED BY <1>1, <1>3, <1>4 DEF memoryVars, Shape

LEMMA ExitShape ==
    ASSUME Shape, CloseFS \/ ExportInterrupted \/ Crash
    PROVE  Shape'
<1>1. MemoryLost /\ UNCHANGED <<files, fsize, disk, clock>>
  BY DEF CloseFS, ExportInterrupted, Crash, diskVars
<1>2. snapshot' \in Index \cup {NoSnapshot, BadSnapshot}
  <2>1. CASE CloseFS
    BY <2>1 DEF CloseFS, Shape, TypeOK
  <2>2. CASE ExportInterrupted
    <3>1. CASE snapshot' = BadSnapshot
      BY <3>1
    <3>2. CASE snapshot' # BadSnapshot
      <4>1. PICK S \in SUBSET Inums :
              snapshot' = [i \in Inums |-> IF i \in S THEN index[i] ELSE NoINode]
        BY <2>2, <3>2 DEF ExportInterrupted
      <4>2. snapshot' \in Index
        BY <4>1 DEF Shape, TypeOK, Index
      <4> QED BY <4>2
    <3> QED BY <3>1, <3>2
  <2>3. CASE Crash
    BY <2>3 DEF Crash, diskVars, Shape, TypeOK
  <2> QED BY <2>1, <2>2, <2>3
<1> QED BY <1>1, <1>2, EmptyIndexType, RegionsAssumption
        DEF MemoryLost, Shape, TypeOK

LEMMA NextShape == Shape /\ [Next]_vars => Shape'
<1> SUFFICES ASSUME Shape, [Next]_vars
             PROVE  Shape'
  OBVIOUS
<1>1. ASSUME NEW k \in Keys, NEW v \in Values, NEW ttl \in Ttls,
             PutSegment(k, v, ttl)
      PROVE  Shape'
  BY <1>1, PutSegmentShape
<1>2. ASSUME NEW k \in Keys, NEW v \in Values, NEW ttl \in Ttls,
             PutSegmentFails(k, v, ttl)
      PROVE  Shape'
  <2>1. NewSegment(k, v, ttl, clock) \in Segment
    BY NewSegmentType, StoreAssumption DEF Shape, TypeOK
  <2> QED BY <1>2, <2>1, AppendFailsShape DEF PutSegmentFails
<1>3. ASSUME NEW k \in Keys, DeleteSegment(k)
      PROVE  Shape'
  BY <1>3, DeleteSegmentShape
<1>4. ASSUME NEW k \in Keys, DeleteSegmentFails(k)
      PROVE  Shape'
  <2>1. NewTombstoneSegment(k, clock) \in Segment
    BY NewTombstoneSegmentType DEF Shape, TypeOK
  <2> QED BY <1>4, <2>1, AppendFailsShape DEF DeleteSegmentFails
<1>5. ASSUME NEW k \in Keys, FetchSegmentExpired(k)
      PROVE  Shape'
  BY <1>5 DEF FetchSegmentExpired, diskVars, Shape, TypeOK, Index
<1>6. CASE Tick
  BY <1>6 DEF Tick, diskVars, memoryVars, Shape, TypeOK
<1>7. CASE CloseFS \/ ExportInterrupted \/ Crash
  BY <1>7, ExitShape
<1>8. CASE OpenFS
  BY <1>8, OpenFSShape
<1>9. CASE OpenFSFails
  BY <1>9, OpenFSFailsShape
<1>10. CASE UNCHANGED vars
  BY <1>10 DEF vars, diskVars, memoryVars, Shape, TypeOK
<1> QED BY <1>1, <1>2, <1>3, <1>4, <1>5, <1>6, <1>7, <1>8, <1>9, <1>10 DEF Next

THEOREM SpecShape == Spec => []Shape
BY InitShape, NextShape, PTL DEF Spec

\* Every reachable state of the store is well typed, whatever the disk refuses
\* and however the process ends.
THEOREM TypeCorrect == Spec => []TypeOK
<1>1. Shape => TypeOK
  BY DEF Shape
<1> QED BY <1>1, SpecShape, PTL

-----------------------------------------------------------------------------

\* Every record is of a file and ends within it.
InFiles ==
    \A e \in disk : e.region \in files /\ EndOf(e) <= fsize[e.region]

\* The open regions are the files there are.
AllOpen == running => regions = files

Sound ==
    /\ Shape
    /\ InFiles
    /\ AllOpen
    /\ OffsetIsEnd
    /\ IndexSound

LEMMA InitSound == Init => Sound
<1> SUFFICES ASSUME Init
             PROVE  Sound
  OBVIOUS
<1>1. Shape
  BY InitShape
<1>2. InFiles /\ AllOpen /\ OffsetIsEnd
  BY DEF Init, InFiles, AllOpen, OffsetIsEnd
<1>3. IndexSound
  BY StoreAssumption DEF Init, IndexSound, Leads, EmptyIndex
<1> QED BY <1>1, <1>2, <1>3 DEF Sound

\* An entry that reads back goes on doing so as records are added.
LEMMA ReadsBackGrows ==
    ASSUME NEW D, NEW E, D \subseteq E, NEW i, NEW inode, ReadsBack(D, i, inode)
    PROVE  ReadsBack(E, i, inode)
BY DEF ReadsBack, ReadSegment

LEMMA LeadsGrows ==
    ASSUME NEW D, NEW E, D \subseteq E, NEW S, NEW T, S \subseteq T,
           NEW idx, Leads(D, idx, S)
    PROVE  Leads(E, idx, T)
<1> SUFFICES ASSUME NEW i \in Inums, idx[i] # NoINode
             PROVE  ReadsBack(E, i, idx[i]) /\ idx[i].region \in T
  BY DEF Leads
<1>1. ReadsBack(D, i, idx[i]) /\ idx[i].region \in S
  BY DEF Leads
<1> QED BY <1>1, ReadsBackGrows

\* The record an append adds starts where the file ended.
LEMMA AppendedRecord ==
    ASSUME NEW region \in Nat, NEW pos \in Nat, NEW seg \in Segment
    PROVE  /\ Record(region, pos, seg).region = region
           /\ Record(region, pos, seg).pos = pos
           /\ Record(region, pos, seg).seg = seg
           /\ EndOf(Record(region, pos, seg)) = pos + Size(seg)
BY DEF Record, EndOf

\* What an append does to the files, with a rotation after it or without one.
LEMMA AppendSound ==
    ASSUME Sound, running, Room, NEW seg \in Segment,
           AppendToActiveRegion(seg), running' = running,
           \/ CreateActiveRegion(fsize[active] + Size(seg))
           \/ KeepActiveRegion(fsize[active] + Size(seg), offset + Size(seg))
    PROVE  /\ disk' = disk \cup {Record(regionID, offset, seg)}
           /\ snapshot' = snapshot
           /\ files \subseteq files'
           /\ regions \subseteq regions'
           /\ regionID \in regions
           /\ InFiles'
           /\ AllOpen'
           /\ OffsetIsEnd'
<1> DEFINE size == fsize[active] + Size(seg)
           rec == Record(regionID, offset, seg)
<1>1. /\ regions = files
      /\ active = regionID
      /\ active \in files
      /\ offset = fsize[active]
      /\ \A r \in files : r <= active
  BY DEF Sound, AllOpen, OffsetIsEnd
<1>2. /\ files \subseteq RegionIds
      /\ fsize \in [RegionIds -> Nat]
      /\ disk \subseteq Entry
      /\ active \in Nat
      /\ offset \in Nat
      /\ active \in RegionIds
  BY DEF Sound, Shape, TypeOK
<1>3. /\ disk' = disk \cup {rec}
      /\ snapshot' = snapshot
  BY <1>1 DEF AppendToActiveRegion
<1>4. /\ Size(seg) \in Nat
      /\ size \in Nat
      /\ fsize[active] <= size
      /\ offset + Size(seg) = size
  BY <1>1, <1>2, SizeType
<1>5. /\ rec.region = active
      /\ EndOf(rec) = size
  BY <1>1, <1>2, AppendedRecord
<1>6. ASSUME NEW e \in disk
      PROVE  /\ e.region \in files
             /\ EndOf(e) <= fsize[e.region]
             /\ EndOf(e) \in Nat
  <2>1. e.region \in files /\ EndOf(e) <= fsize[e.region]
    BY DEF Sound, InFiles
  <2>2. e.pos \in Nat /\ e.seg \in Segment
    BY <1>2 DEF Entry
  <2> QED BY <2>1, <2>2, SizeType DEF EndOf
<1> HIDE DEF size, rec
<1>7. CASE KeepActiveRegion(size, offset + Size(seg))
  <2>1. /\ fsize' = [fsize EXCEPT ![active] = size]
        /\ offset' = size
        /\ files' = files
        /\ regionID' = regionID
        /\ active' = active
        /\ regions' = regions
    BY <1>4, <1>7 DEF KeepActiveRegion
  <2>2. ASSUME NEW e \in disk'
        PROVE  e.region \in files' /\ EndOf(e) <= fsize'[e.region]
    <3>1. CASE e = rec
      BY <1>1, <1>2, <1>4, <1>5, <2>1, <3>1
    <3>2. CASE e \in disk
      BY <1>2, <1>4, <1>6, <2>1, <3>2
    <3> QED BY <1>3, <3>1, <3>2
  <2>3. InFiles'
    BY <2>2 DEF InFiles
  <2>4. AllOpen' /\ OffsetIsEnd'
    BY <1>1, <1>2, <2>1 DEF AllOpen, OffsetIsEnd
  <2> QED BY <1>1, <1>3, <2>1, <2>3, <2>4 DEF rec
<1>8. CASE CreateActiveRegion(size)
  <2> DEFINE id == NextRegion(regionID)
  <2>1. /\ regionID' = id
        /\ files' = files \cup {id}
        /\ fsize' = [fsize EXCEPT ![active] = size, ![id] = Header]
        /\ active' = id
        /\ offset' = Header
        /\ regions' = regions \cup {id}
    BY <1>8 DEF CreateActiveRegion
  <2>2. /\ id \in RegionIds
        /\ \A r \in files : r < id
    <3>1. regionID < MaxRegion /\ MaxRegion \in Nat
      BY RegionsAssumption DEF Room
    <3>2. id = regionID + 1
      BY DEF NextRegion
    <3> HIDE DEF id
    <3>3. id \in RegionIds
      BY <1>1, <1>2, <3>1, <3>2 DEF RegionIds
    <3>4. ASSUME NEW r \in files
          PROVE  r < id
      BY <1>1, <1>2, <3>2 DEF RegionIds
    <3> QED BY <3>3, <3>4
  <2> HIDE DEF id
  <2>3. id \notin files /\ id # active
    BY <1>1, <1>2, <2>2 DEF RegionIds
  <2>4. ASSUME NEW e \in disk'
        PROVE  e.region \in files' /\ EndOf(e) <= fsize'[e.region]
    <3>1. CASE e = rec
      BY <1>1, <1>2, <1>4, <1>5, <2>1, <2>3, <3>1
    <3>2. CASE e \in disk
      <4>1. /\ e.region \in files
            /\ EndOf(e) <= fsize[e.region]
            /\ EndOf(e) \in Nat
        BY <1>6, <3>2
      <4>2. e.region \in RegionIds /\ fsize[e.region] \in Nat
        BY <1>2, <4>1
      <4>3. fsize[e.region] <= fsize'[e.region]
        <5>1. CASE e.region = active
          <6>1. fsize'[e.region] = size
            BY <1>2, <2>1, <2>3, <5>1
          <6> QED BY <1>4, <5>1, <6>1
        <5>2. CASE e.region # active
          <6>1. e.region # id
            BY <2>3, <4>1
          <6>2. fsize'[e.region] = fsize[e.region]
            BY <1>2, <2>1, <4>2, <5>2, <6>1
          <6> QED BY <4>2, <6>2
        <5> QED BY <5>1, <5>2
      <4>4. fsize'[e.region] \in Nat
        BY <1>2, <1>4, <2>1, <4>2, HeaderType
      <4> QED BY <2>1, <4>1, <4>2, <4>3, <4>4
    <3> QED BY <1>3, <3>1, <3>2
  <2>5. InFiles'
    BY <2>4 DEF InFiles
  <2>6. AllOpen'
    BY <1>1, <2>1 DEF AllOpen
  <2>7. OffsetIsEnd'
    <3>1. fsize'[id] = Header
      BY <1>2, <2>1, <2>2
    <3>2. \A r \in files \cup {id} : r <= id
      BY <1>2, <2>2, NewRegion
    <3> QED BY <2>1, <3>1, <3>2 DEF OffsetIsEnd
  <2> QED BY <1>1, <1>3, <2>1, <2>5, <2>6, <2>7 DEF rec
<1> QED BY <1>7, <1>8 DEF size

LEMMA PutSegmentSound ==
    ASSUME Faults = {}, Sound,
           NEW k \in Keys, NEW v \in Values, NEW ttl \in Ttls,
           PutSegment(k, v, ttl)
    PROVE  Sound'
<1> DEFINE seg == NewSegment(k, v, ttl, clock)
           rec == Record(regionID, offset, seg)
<1>1. Shape'
  BY PutSegmentShape DEF Sound
<1>2. seg \in Segment
  BY NewSegmentType, StoreAssumption DEF Sound, Shape, TypeOK
<1>3. /\ running /\ Room /\ running' = running
      /\ AppendToActiveRegion(seg)
      /\ index' = [index EXCEPT ![InodeNum[k]] = INodeFor(regionID, offset, seg)]
      /\ \/ CreateActiveRegion(fsize[active] + Size(seg))
         \/ KeepActiveRegion(fsize[active] + Size(seg), offset + Size(seg))
  BY DEF PutSegment, CreateActiveRegionFails
<1>4. /\ seg.key = k
      /\ ~ IsTombstone(seg)
  BY RegionsAssumption DEF NewSegment, IsTombstone
<1> HIDE DEF seg
<1>5. /\ disk' = disk \cup {rec}
      /\ snapshot' = snapshot
      /\ files \subseteq files'
      /\ regions \subseteq regions'
      /\ regionID \in regions
      /\ InFiles' /\ AllOpen' /\ OffsetIsEnd'
  BY <1>2, <1>3, AppendSound
<1>6. /\ rec.region = regionID
      /\ rec.pos = offset
      /\ rec.seg = seg
  BY DEF Record
<1>7. ASSUME NEW i \in Inums, index'[i] # NoINode
      PROVE  ReadsBack(disk', i, index'[i]) /\ index'[i].region \in regions'
  <2>1. CASE i = InodeNum[k]
    <3>1. index'[i] = INodeFor(rec.region, rec.pos, rec.seg)
      BY <1>3, <1>6, <2>1 DEF Sound, Shape, TypeOK, Index
    <3>2. /\ index'[i].region = regionID
          /\ index'[i].pos = offset
      BY <1>6, <3>1 DEF INodeFor
    <3> HIDE DEF rec
    <3>3. rec \in ReadSegment(disk', index'[i].region, index'[i].pos)
      BY <1>5, <1>6, <3>2 DEF ReadSegment
    <3> QED BY <1>4, <1>5, <1>6, <2>1, <3>1, <3>2, <3>3 DEF ReadsBack
  <2>2. CASE i # InodeNum[k]
    <3>1. index'[i] = index[i]
      BY <1>3, <2>2 DEF Sound, Shape, TypeOK, Index
    <3>2. Leads(disk', index, regions')
      BY <1>5, LeadsGrows DEF Sound, IndexSound
    <3> QED BY <1>7, <3>1, <3>2 DEF Leads
  <2> QED BY <2>1, <2>2
<1>8. Leads(disk', index', regions')
  BY <1>7 DEF Leads
<1>9. snapshot' \in Index => Leads(disk', snapshot', files')
  BY <1>5, LeadsGrows DEF Sound, IndexSound
<1> QED BY <1>1, <1>5, <1>8, <1>9 DEF Sound, IndexSound

\* A step that adds no record and no entry keeps the index sound.
LEMMA IndexShrinks ==
    ASSUME IndexSound, disk \subseteq disk', files \subseteq files',
           regions \subseteq regions', snapshot' = snapshot,
           \A i \in Inums : index'[i] \in {index[i], NoINode}
    PROVE  IndexSound'
<1>1. ASSUME NEW i \in Inums, index'[i] # NoINode
      PROVE  ReadsBack(disk', i, index'[i]) /\ index'[i].region \in regions'
  <2>1. index'[i] = index[i] /\ index[i] # NoINode
    BY <1>1
  <2>2. Leads(disk', index, regions')
    BY LeadsGrows DEF IndexSound
  <2> QED BY <2>1, <2>2 DEF Leads
<1>2. Leads(disk', index', regions')
  BY <1>1 DEF Leads
<1>3. snapshot' \in Index => Leads(disk', snapshot', files')
  BY LeadsGrows DEF IndexSound
<1> QED BY <1>2, <1>3 DEF IndexSound

LEMMA DeleteSegmentSound ==
    ASSUME Sound, NEW k \in Keys, DeleteSegment(k)
    PROVE  Sound'
<1> DEFINE seg == NewTombstoneSegment(k, clock)
<1>1. Shape'
  BY DeleteSegmentShape DEF Sound
<1>2. seg \in Segment
  BY NewTombstoneSegmentType DEF Sound, Shape, TypeOK
<1>3. /\ running /\ Room /\ running' = running
      /\ AppendToActiveRegion(seg)
      /\ index' = [index EXCEPT ![InodeNum[k]] = NoINode]
      /\ KeepActiveRegion(fsize[active] + Size(seg), offset + Size(seg))
  BY DEF DeleteSegment
<1> HIDE DEF seg
<1>4. /\ disk' = disk \cup {Record(regionID, offset, seg)}
      /\ snapshot' = snapshot
      /\ files \subseteq files'
      /\ regions \subseteq regions'
      /\ InFiles' /\ AllOpen' /\ OffsetIsEnd'
  BY <1>2, <1>3, AppendSound
<1>5. \A i \in Inums : index'[i] \in {index[i], NoINode}
  BY <1>3 DEF Sound, Shape, TypeOK, Index
<1>6. IndexSound'
  BY <1>4, <1>5, IndexShrinks DEF Sound
<1> QED BY <1>1, <1>4, <1>6 DEF Sound

LEMMA ExitSound ==
    ASSUME Sound, CloseFS \/ ExportInterrupted \/ Crash
    PROVE  Sound'
<1>1. /\ MemoryLost
      /\ UNCHANGED <<files, fsize, disk, clock>>
      /\ running
  BY DEF CloseFS, ExportInterrupted, Crash, diskVars
<1>2. Shape'
  BY ExitShape DEF Sound
<1>3. InFiles'
  BY <1>1 DEF Sound, InFiles
<1>4. AllOpen' /\ OffsetIsEnd'
  BY <1>1 DEF MemoryLost, AllOpen, OffsetIsEnd
<1>5. Leads(disk', index', regions')
  BY <1>1 DEF MemoryLost, EmptyIndex, Leads
<1>6. Leads(disk, index, files)
  BY <1>1 DEF Sound, AllOpen, IndexSound
<1>7. ASSUME snapshot' \in Index, NEW i \in Inums, snapshot'[i] # NoINode
      PROVE  ReadsBack(disk, i, snapshot'[i]) /\ snapshot'[i].region \in files
  <2>1. CASE CloseFS
    BY <1>6, <1>7, <2>1 DEF CloseFS, Leads
  <2>2. CASE ExportInterrupted
    <3>1. PICK S \in SUBSET Inums :
            snapshot' = [j \in Inums |-> IF j \in S THEN index[j] ELSE NoINode]
      BY <1>7, <2>2, StoreAssumption DEF ExportInterrupted
    <3>2. snapshot'[i] = index[i]
      BY <1>7, <3>1
    <3> QED BY <1>6, <1>7, <3>2 DEF Leads
  <2>3. CASE Crash
    BY <1>7, <2>3 DEF Crash, diskVars, Sound, IndexSound, Leads
  <2> QED BY <2>1, <2>2, <2>3
<1>8. snapshot' \in Index => Leads(disk', snapshot', files')
  BY <1>1, <1>7 DEF Leads, ReadsBack
<1> QED BY <1>2, <1>3, <1>4, <1>5, <1>8 DEF Sound, IndexSound

LEMMA OpenFSSound ==
    ASSUME Sound, OpenFS
    PROVE  Sound'
<1>1. Shape'
  BY OpenFSShape DEF Sound
<1>2. /\ CanOpen
      /\ running' = TRUE
      /\ index' = RecoveredIndex
      /\ UNCHANGED <<disk, snapshot, clock>>
  BY DEF OpenFS
<1>3. Shape /\ InFiles
  BY DEF Sound
<1>4. /\ files \subseteq files'
      /\ AllOpen'
      /\ OffsetIsEnd'
      /\ InFiles'
  <2>1. CASE Continues
    <3>1. /\ NewestFile \in files
          /\ \A q \in files : q <= NewestFile
      BY <1>3, <2>1, NewestFileIsNewest DEF Continues
    <3>2. /\ regions' = files
          /\ regionID' = NewestFile
          /\ active' = NewestFile
          /\ offset' = fsize[NewestFile]
          /\ UNCHANGED <<files, fsize>>
      BY <2>1 DEF OpenFS
    <3> HIDE DEF NewestFile
    <3> QED BY <1>2, <1>3, <3>1, <3>2 DEF AllOpen, OffsetIsEnd, InFiles
  <2>2. CASE ~ Continues
    <3> DEFINE id == FreshRegion
    <3>1. /\ id \in RegionIds
          /\ regions' = files \cup {id}
          /\ files' = files \cup {id}
          /\ fsize' = [fsize EXCEPT ![id] = Header]
          /\ regionID' = id
          /\ active' = id
          /\ offset' = Header
      BY <2>2 DEF OpenFS
    <3>2. files \subseteq RegionIds /\ fsize \in [RegionIds -> Nat]
      BY <1>3 DEF Shape, TypeOK
    <3>4. \A q \in files \cup {id} : q <= id
      BY <1>3, <3>1, FreshRegionIsNew
    <3>5. id \notin files
      BY <1>3, <3>1, FreshRegionIsNew
    <3> HIDE DEF id
    <3>6. InFiles'
      BY <1>2, <1>3, <3>1, <3>2, <3>5 DEF InFiles, Shape, TypeOK, EndOf, Size
    <3>7. fsize'[id] = Header
      BY <3>1, <3>2
    <3> QED BY <3>1, <3>4, <3>6, <3>7 DEF AllOpen, OffsetIsEnd
  <2> QED BY <2>1, <2>2
<1>5. regions' = files'
  BY <1>2, <1>4 DEF AllOpen
<1>6. ASSUME NEW i \in Inums, RecoveredIndex[i] # NoINode
      PROVE  ReadsBack(disk, i, RecoveredIndex[i]) /\ RecoveredIndex[i].region \in files
  <2>1. CASE snapshot # NoSnapshot
    <3>1. snapshot \in Index
      BY <1>2, <1>3, <2>1 DEF CanOpen, Shape, TypeOK
    <3> QED BY <1>6, <2>1, <3>1 DEF RecoveredIndex, Sound, IndexSound, Leads
  <2>2. CASE snapshot = NoSnapshot
    <3>1. /\ RecoveredIndex = CrashRecoveryAllIndex(disk, clock)
          /\ disk \subseteq Entry
      BY <1>3, <2>2 DEF RecoveredIndex, Shape, TypeOK
    <3> HIDE DEF RecoveredIndex
    <3>2. PICK e \in disk :
            /\ InodeNum[e.seg.key] = i
            /\ ~ IsTombstone(e.seg)
            /\ RecoveredIndex[i] = INodeFor(e.region, e.pos, e.seg)
      BY <1>6, <3>1, ScanSound
    <3>3. /\ RecoveredIndex[i].region = e.region
          /\ RecoveredIndex[i].pos = e.pos
      BY <3>2 DEF INodeFor
    <3>4. e \in ReadSegment(disk, RecoveredIndex[i].region, RecoveredIndex[i].pos)
      BY <3>3 DEF ReadSegment
    <3>5. e.region \in files
      BY <1>3 DEF InFiles
    <3> QED BY <3>2, <3>3, <3>4, <3>5 DEF ReadsBack
  <2> QED BY <2>1, <2>2
<1>7. ASSUME NEW i \in Inums, index'[i] # NoINode
      PROVE  ReadsBack(disk', i, index'[i]) /\ index'[i].region \in regions'
  <2>1. ReadsBack(disk, i, index'[i]) /\ index'[i].region \in files
    BY <1>2, <1>6, <1>7
  <2> QED BY <1>2, <1>4, <1>5, <2>1
<1>8. Leads(disk', index', regions')
  BY <1>7 DEF Leads
<1>9. snapshot' \in Index => Leads(disk', snapshot', files')
  BY <1>2, <1>4, LeadsGrows DEF Sound, IndexSound
<1> QED BY <1>1, <1>4, <1>8, <1>9 DEF Sound, IndexSound

LEMMA OpenFSFailsSound ==
    ASSUME Faults = {}, Sound, OpenFSFails
    PROVE  Sound'
<1>1. /\ ~ running
      /\ FreshRegion \in RegionIds
      /\ files' = files \cup {FreshRegion}
      /\ fsize' = [fsize EXCEPT ![FreshRegion] = Header]
      /\ UNCHANGED <<disk, snapshot, memoryVars, clock>>
  BY DEF OpenFSFails
<1>2. Shape'
  BY OpenFSFailsShape DEF Sound
<1>3. FreshRegion \notin files
  BY <1>1, FreshRegionIsNew DEF Sound
<1> HIDE DEF FreshRegion
<1>4. InFiles'
  BY <1>1, <1>3 DEF Sound, InFiles, Shape, TypeOK, EndOf, Size
<1>5. AllOpen' /\ OffsetIsEnd'
  BY <1>1 DEF memoryVars, AllOpen, OffsetIsEnd
<1>6. Leads(disk', index', regions')
  BY <1>1 DEF memoryVars, Sound, IndexSound, Leads, ReadsBack
<1>7. snapshot' \in Index => Leads(disk', snapshot', files')
  BY <1>1, LeadsGrows DEF Sound, IndexSound
<1> QED BY <1>2, <1>4, <1>5, <1>6, <1>7 DEF Sound, IndexSound

LEMMA NextSound == Faults = {} /\ Sound /\ [Next]_vars => Sound'
<1> SUFFICES ASSUME Faults = {}, Sound, [Next]_vars
             PROVE  Sound'
  OBVIOUS
<1>1. ASSUME NEW k \in Keys, NEW v \in Values, NEW ttl \in Ttls,
             PutSegment(k, v, ttl) \/ PutSegmentFails(k, v, ttl)
      PROVE  Sound'
  BY <1>1, PutSegmentSound DEF PutSegmentFails, AppendFails
<1>2. ASSUME NEW k \in Keys, DeleteSegment(k) \/ DeleteSegmentFails(k)
      PROVE  Sound'
  BY <1>2, DeleteSegmentSound DEF DeleteSegmentFails, AppendFails
<1>3. ASSUME NEW k \in Keys, FetchSegmentExpired(k)
      PROVE  Sound'
  <2>1. /\ index' = [index EXCEPT ![InodeNum[k]] = NoINode]
        /\ UNCHANGED <<files, fsize, disk, snapshot, running, regions>>
        /\ UNCHANGED <<regionID, active, offset, clock>>
    BY <1>3 DEF FetchSegmentExpired, diskVars
  <2>2. \A i \in Inums : index'[i] \in {index[i], NoINode}
    BY <2>1 DEF Sound, Shape, TypeOK, Index
  <2>3. Shape'
    BY <2>1 DEF Sound, Shape, TypeOK, Index
  <2>4. IndexSound'
    BY <2>1, <2>2, IndexShrinks DEF Sound
  <2>5. InFiles' /\ AllOpen' /\ OffsetIsEnd'
    BY <2>1 DEF Sound, InFiles, AllOpen, OffsetIsEnd
  <2> QED BY <2>3, <2>4, <2>5 DEF Sound
<1>4. CASE Tick
  <2>1. Shape'
    BY <1>4, NextShape DEF Next, Sound
  <2> QED BY <1>4, <2>1 DEF Tick, diskVars, memoryVars, Sound,
          InFiles, AllOpen, OffsetIsEnd, IndexSound, Leads, ReadsBack
<1>5. CASE CloseFS \/ ExportInterrupted \/ Crash
  BY <1>5, ExitSound
<1>6. CASE OpenFS
  BY <1>6, OpenFSSound
<1>7. CASE OpenFSFails
  BY <1>7, OpenFSFailsSound
<1>8. CASE UNCHANGED vars
  <2>1. Shape'
    BY <1>8, NextShape DEF Sound
  <2> QED BY <1>8, <2>1 DEF vars, diskVars, memoryVars, Sound,
          InFiles, AllOpen, OffsetIsEnd, IndexSound, Leads, ReadsBack
<1> QED BY <1>1, <1>2, <1>3, <1>4, <1>5, <1>6, <1>7, <1>8 DEF Next

LEMMA SpecSound == ASSUME Faults = {} PROVE Spec => []Sound
<1>1. Sound /\ [Next]_vars => Sound'
  BY NextSound
<1> QED BY <1>1, InitSound, PTL DEF Spec

\* On a disk that refuses nothing every entry of the index, in memory or in the
\* index file, reads back a live record of its inode number, whatever the mix
\* of normal exits, interrupted exports and crashes.
THEOREM IndexIsSound == ASSUME Faults = {} PROVE Spec => []IndexSound
<1>1. Sound => IndexSound
  BY DEF Sound
<1> QED BY <1>1, SpecSound, PTL

\* On such a disk lfs.offset is always the end of the newest file.
THEOREM OffsetFollowsFile == ASSUME Faults = {} PROVE Spec => []OffsetIsEnd
<1>1. Sound => OffsetIsEnd
  BY DEF Sound
<1> QED BY <1>1, SpecSound, PTL

-----------------------------------------------------------------------------

\* What is backed stays so as records are added.
LEMMA BackedGrows ==
    ASSUME NEW D, NEW E, D \subseteq E, NEW idx, Backed(D, idx)
    PROVE  Backed(E, idx)
BY DEF Backed, RecordsOf

LEMMA OpenFSBacked ==
    ASSUME Shape, IndexBacked, OpenFS
    PROVE  IndexBacked'
<1>1. /\ CanOpen
      /\ index' = RecoveredIndex
      /\ disk' = disk /\ snapshot' = snapshot
  BY DEF OpenFS
<1>2. Backed(disk, RecoveredIndex)
  <2>1. CASE snapshot # NoSnapshot
    BY <1>1, <2>1 DEF CanOpen, RecoveredIndex, IndexBacked, Shape, TypeOK
  <2>2. CASE snapshot = NoSnapshot
    <3> SUFFICES ASSUME NEW i \in Inums, RecoveredIndex[i] # NoINode
                 PROVE  \E e \in RecordsOf(disk, i) :
                          /\ ~ IsTombstone(e.seg)
                          /\ RecoveredIndex[i].created = e.seg.created
                          /\ RecoveredIndex[i].expired = e.seg.expired
      BY DEF Backed
    <3>1. /\ RecoveredIndex = CrashRecoveryAllIndex(disk, clock)
          /\ disk \subseteq Entry
      BY <2>2 DEF RecoveredIndex, Shape, TypeOK
    <3> HIDE DEF RecoveredIndex
    <3>2. PICK e \in disk :
            /\ InodeNum[e.seg.key] = i
            /\ ~ IsTombstone(e.seg)
            /\ RecoveredIndex[i] = INodeFor(e.region, e.pos, e.seg)
      BY <3>1, ScanSound
    <3> QED BY <3>2 DEF RecordsOf, INodeFor
  <2> QED BY <2>1, <2>2
<1> QED BY <1>1, <1>2 DEF IndexBacked

LEMMA ExitBacked ==
    ASSUME IndexBacked, CloseFS \/ ExportInterrupted \/ Crash, Shape
    PROVE  IndexBacked'
<1>1. MemoryLost /\ disk' = disk
  BY DEF CloseFS, ExportInterrupted, Crash, diskVars
<1>2. Backed(disk', index')
  BY <1>1 DEF MemoryLost, EmptyIndex, Backed
<1>3. ASSUME snapshot' \in Index
      PROVE  Backed(disk, snapshot')
  <2>1. CASE CloseFS
    BY <2>1 DEF CloseFS, IndexBacked
  <2>2. CASE ExportInterrupted
    <3>1. PICK S \in SUBSET Inums :
            snapshot' = [i \in Inums |-> IF i \in S THEN index[i] ELSE NoINode]
      BY <1>3, <2>2, StoreAssumption DEF ExportInterrupted
    <3>2. ASSUME NEW i \in Inums, snapshot'[i] # NoINode
          PROVE  snapshot'[i] = index[i]
      BY <3>1, <3>2
    <3> QED BY <3>2 DEF IndexBacked, Backed
  <2>3. CASE Crash
    BY <1>3, <2>3 DEF Crash, diskVars, IndexBacked
  <2> QED BY <2>1, <2>2, <2>3
<1> QED BY <1>1, <1>2, <1>3 DEF IndexBacked

\* A step that sets no entry and loses no record.
LEMMA BackedShrinks ==
    ASSUME IndexBacked, disk \subseteq disk', snapshot' = snapshot,
           \A i \in Inums : index'[i] \in {index[i], NoINode}
    PROVE  IndexBacked'
<1>1. Backed(disk', index)
  BY BackedGrows DEF IndexBacked
<1>2. Backed(disk', index')
  <2> SUFFICES ASSUME NEW i \in Inums, index'[i] # NoINode
               PROVE  index'[i] = index[i] /\ index[i] # NoINode
    BY <1>1 DEF Backed
  <2> QED OBVIOUS
<1>3. snapshot' \in Index => Backed(disk', snapshot')
  BY BackedGrows DEF IndexBacked
<1> QED BY <1>2, <1>3 DEF IndexBacked

LEMMA PutSegmentBacked ==
    ASSUME Shape, IndexBacked,
           NEW k \in Keys, NEW v \in Values, NEW ttl \in Ttls,
           PutSegment(k, v, ttl)
    PROVE  IndexBacked'
<1> DEFINE seg == NewSegment(k, v, ttl, clock)
           rec == Record(active, fsize[active], seg)
<1>1. /\ disk' = disk \cup {rec}
      /\ snapshot' = snapshot
      /\ index' = [index EXCEPT ![InodeNum[k]] = INodeFor(regionID, offset, seg)]
  BY DEF PutSegment, AppendToActiveRegion
<1>2. /\ seg.key = k
      /\ ~ IsTombstone(seg)
  BY RegionsAssumption DEF NewSegment, IsTombstone
<1>3. rec.seg = seg
  BY DEF Record
<1> HIDE DEF seg, rec
<1>4. Backed(disk', index)
  BY <1>1, BackedGrows DEF IndexBacked
<1>5. ASSUME NEW i \in Inums, index'[i] # NoINode
      PROVE  \E e \in RecordsOf(disk', i) :
                /\ ~ IsTombstone(e.seg)
                /\ index'[i].created = e.seg.created
                /\ index'[i].expired = e.seg.expired
  <2>1. CASE i = InodeNum[k]
    <3>1. index'[i] = INodeFor(regionID, offset, seg)
      BY <1>1, <2>1 DEF Shape, TypeOK, Index
    <3>2. rec \in RecordsOf(disk', i)
      BY <1>1, <1>2, <1>3, <2>1 DEF RecordsOf
    <3> QED BY <1>2, <1>3, <3>1, <3>2 DEF INodeFor
  <2>2. CASE i # InodeNum[k]
    <3>1. index'[i] = index[i]
      BY <1>1, <2>2 DEF Shape, TypeOK, Index
    <3> QED BY <1>4, <1>5, <3>1 DEF Backed
  <2> QED BY <2>1, <2>2
<1>6. Backed(disk', index')
  BY <1>5 DEF Backed
<1>7. snapshot' \in Index => Backed(disk', snapshot')
  BY <1>1, BackedGrows DEF IndexBacked
<1> QED BY <1>6, <1>7 DEF IndexBacked

LEMMA NextBacked == Shape /\ IndexBacked /\ [Next]_vars => IndexBacked'
<1> SUFFICES ASSUME Shape, IndexBacked, [Next]_vars
             PROVE  IndexBacked'
  OBVIOUS
<1>1. ASSUME NEW k \in Keys, NEW v \in Values, NEW ttl \in Ttls,
             PutSegment(k, v, ttl)
      PROVE  IndexBacked'
  BY <1>1, PutSegmentBacked
<1>2. ASSUME NEW k \in Keys, NEW v \in Values, NEW ttl \in Ttls,
             PutSegmentFails(k, v, ttl) \/ DeleteSegmentFails(k)
      PROVE  IndexBacked'
  <2>1. UNCHANGED <<disk, snapshot, index>>
    BY <1>2 DEF PutSegmentFails, DeleteSegmentFails, AppendFails, memoryVars
  <2> QED BY <2>1 DEF IndexBacked
<1>3. ASSUME NEW k \in Keys, DeleteSegmentFails(k)
      PROVE  IndexBacked'
  <2>1. UNCHANGED <<disk, snapshot, index>>
    BY <1>3 DEF DeleteSegmentFails, AppendFails, memoryVars
  <2> QED BY <2>1 DEF IndexBacked
<1>4. ASSUME NEW k \in Keys, DeleteSegment(k) \/ FetchSegmentExpired(k)
      PROVE  IndexBacked'
  <2>1. /\ disk \subseteq disk'
        /\ snapshot' = snapshot
        /\ index' = [index EXCEPT ![InodeNum[k]] = NoINode]
    BY <1>4 DEF DeleteSegment, FetchSegmentExpired, AppendToActiveRegion, diskVars
  <2>2. \A i \in Inums : index'[i] \in {index[i], NoINode}
    BY <2>1 DEF Shape, TypeOK, Index
  <2> QED BY <2>1, <2>2, BackedShrinks
<1>5. CASE Tick
  BY <1>5 DEF Tick, diskVars, memoryVars, IndexBacked
<1>6. CASE CloseFS \/ ExportInterrupted \/ Crash
  BY <1>6, ExitBacked
<1>7. CASE OpenFS
  BY <1>7, OpenFSBacked
<1>8. CASE OpenFSFails
  BY <1>8 DEF OpenFSFails, memoryVars, IndexBacked
<1>9. CASE UNCHANGED vars
  BY <1>9 DEF vars, diskVars, memoryVars, IndexBacked
<1> QED BY <1>1, <1>2, <1>3, <1>4, <1>5, <1>6, <1>7, <1>8, <1>9 DEF Next

\* Nothing is indexed, in memory or in the index file, that was not written
\* before, whatever the disk refuses and however the process ends.
THEOREM OnlyWrittenIsIndexed == Spec => []IndexBacked
<1>1. Init => IndexBacked
  BY StoreAssumption DEF Init, IndexBacked, Backed, EmptyIndex
<1> QED BY <1>1, SpecShape, NextBacked, PTL DEF Spec

-----------------------------------------------------------------------------

\* Under what use of the store an index is rebuilt as it was: the process always
\* ends by CloseFS, or it always crashes and nothing is put with a time to live.
OneKindOfExit ==
    \/ Exits \subseteq {"close"}
    \/ Exits \subseteq {"crash"} /\ Ttls \subseteq {0}

NothingExpires == \A e \in disk : e.seg.expired = 0

\* LatestWins with what the next start of the process relies on.
Recoverable ==
    /\ running => Latest(disk, index, clock)
    /\ ~ running /\ snapshot \in Index => Latest(disk, snapshot, clock)
    /\ ~ running /\ snapshot = NoSnapshot => NothingExpires
    /\ "crash" \in Exits => snapshot = NoSnapshot /\ NothingExpires

\* A scan of records none of which expires decides by the last ones.
LEMMA ScanLatest ==
    ASSUME Shape, NothingExpires
    PROVE  Latest(disk, CrashRecoveryAllIndex(disk, clock), clock)
<1> DEFINE R(i) == RecordsOf(disk, i)
           Live(i) == \E e \in R(i) : IsLast(e, R(i)) /\ ~ IsTombstone(e.seg)
           Last(i) == CHOOSE e \in R(i) : IsLast(e, R(i))
<1>1. ASSUME NEW i \in Inums
      PROVE  Replayed(disk, i, clock) = R(i)
  BY DEF Replayed, NothingExpires, IsExpired, RecordsOf
<1>2. ASSUME NEW i \in Inums
      PROVE  CrashRecoveryAllIndex(disk, clock)[i] =
               IF Live(i)
               THEN INodeFor(Last(i).region, Last(i).pos, Last(i).seg)
               ELSE NoINode
  <2> DEFINE Q == Replayed(disk, i, clock)
  <2>1. CrashRecoveryAllIndex(disk, clock)[i] =
          IF \E e \in Q : IsLast(e, Q) /\ ~ IsTombstone(e.seg)
          THEN LET e == CHOOSE e \in Q : IsLast(e, Q)
               IN  INodeFor(e.region, e.pos, e.seg)
          ELSE NoINode
    BY DEF CrashRecoveryAllIndex
  <2>2. Q = R(i)
    BY <1>1
  <2> HIDE DEF Q, R
  <2> QED BY <2>1, <2>2
<1>3. ASSUME NEW i \in Inums, NEW e \in R(i), NEW f \in R(i),
             IsLast(e, R(i)), IsLast(f, R(i))
      PROVE  e = f
  <2>1. e \in Entry /\ f \in Entry
    BY <1>3 DEF RecordsOf, Shape, TypeOK
  <2>2. e = f \/ (Before(e, f) /\ Before(f, e))
    BY <1>3 DEF IsLast
  <2>3. ~ (Before(e, f) /\ Before(f, e))
    BY <2>1 DEF Before, Entry
  <2> QED BY <2>2, <2>3
<1>4. ASSUME NEW i \in Inums, NEW e \in R(i), IsLast(e, R(i))
      PROVE  Last(i) = e
  BY <1>3, <1>4
<1>5. ASSUME NEW i \in Inums, NEW e \in R(i), IsLast(e, R(i))
      PROVE  IF CrashRecoveryAllIndex(disk, clock)[i] = NoINode
             THEN IsTombstone(e.seg) \/ IsExpired(e.seg.expired, clock)
             ELSE /\ ~ IsTombstone(e.seg)
                  /\ CrashRecoveryAllIndex(disk, clock)[i] =
                       INodeFor(e.region, e.pos, e.seg)
  <2>1. Last(i) = e
    BY <1>4, <1>5
  <2>2. INodeFor(e.region, e.pos, e.seg) # NoINode
    <3>1. e \in Entry
      BY <1>5 DEF RecordsOf, Shape, TypeOK
    <3> QED BY <3>1, INodeForType, RegionsAssumption DEF Entry
  <2>3. Live(i) <=> ~ IsTombstone(e.seg)
    BY <1>3, <1>5
  <2> HIDE DEF Live, Last, R
  <2> QED BY <1>2, <2>1, <2>2, <2>3
<1>6. ASSUME NEW i \in Inums, R(i) = {}
      PROVE  CrashRecoveryAllIndex(disk, clock)[i] = NoINode
  BY <1>2, <1>6
<1> QED BY <1>5, <1>6 DEF Latest

\* A record appended after all others decides, and changes nothing else.
LEMMA AppendLatest ==
    ASSUME NEW D, D \subseteq Entry, NEW rec \in Entry,
           \A f \in D : Before(f, rec),
           NEW idx \in Index, NEW new \in Index, NEW now,
           Latest(D, idx, now),
           new = [idx EXCEPT ![InodeNum[rec.seg.key]] =
                    IF IsTombstone(rec.seg) THEN NoINode
                    ELSE INodeFor(rec.region, rec.pos, rec.seg)]
    PROVE  Latest(D \cup {rec}, new, now)
<1> DEFINE R(i) == RecordsOf(D, i)
           S(i) == RecordsOf(D \cup {rec}, i)
<1>1. ASSUME NEW i \in Inums, i # InodeNum[rec.seg.key]
      PROVE  S(i) = R(i) /\ new[i] = idx[i]
  BY <1>1 DEF RecordsOf, Index
<1>2. ASSUME NEW i \in Inums, i = InodeNum[rec.seg.key]
      PROVE  /\ S(i) = R(i) \cup {rec}
             /\ new[i] = IF IsTombstone(rec.seg) THEN NoINode
                         ELSE INodeFor(rec.region, rec.pos, rec.seg)
  BY <1>2 DEF RecordsOf, Index
<1>3. ASSUME NEW i \in Inums, i = InodeNum[rec.seg.key],
             NEW e \in S(i), IsLast(e, S(i))
      PROVE  e = rec
  <2>1. rec \in S(i) /\ S(i) \subseteq D \cup {rec}
    BY <1>2, <1>3 DEF RecordsOf
  <2>2. e = rec \/ Before(rec, e)
    BY <1>3, <2>1 DEF IsLast
  <2>3. e = rec \/ Before(e, rec)
    BY <1>3, <2>1
  <2>4. e \in Entry
    BY <1>3, <2>1
  <2>5. ~ (Before(e, rec) /\ Before(rec, e))
    BY <2>4 DEF Before, Entry
  <2> QED BY <2>2, <2>3, <2>5
<1>4. INodeFor(rec.region, rec.pos, rec.seg) # NoINode
  BY INodeForType, RegionsAssumption DEF Entry
<1> HIDE DEF R, S
<1> SUFFICES ASSUME NEW i \in Inums
             PROVE  /\ S(i) = {} => new[i] = NoINode
                    /\ \A e \in S(i) : IsLast(e, S(i)) =>
                         IF new[i] = NoINode
                         THEN IsTombstone(e.seg) \/ IsExpired(e.seg.expired, now)
                         ELSE /\ ~ IsTombstone(e.seg)
                              /\ new[i] = INodeFor(e.region, e.pos, e.seg)
  BY DEF Latest, S
<1>5. CASE i = InodeNum[rec.seg.key]
  BY <1>2, <1>3, <1>4, <1>5
<1>6. CASE i # InodeNum[rec.seg.key]
  BY <1>1, <1>6 DEF Latest, R
<1> QED BY <1>5, <1>6

\* What has expired stays expired.
LEMMA LatestAges ==
    ASSUME NEW D, D \subseteq Entry, NEW idx, NEW now \in Nat,
           Latest(D, idx, now)
    PROVE  Latest(D, idx, now + 1)
<1>1. ASSUME NEW i \in Inums, NEW e \in RecordsOf(D, i),
             IsExpired(e.seg.expired, now)
      PROVE  IsExpired(e.seg.expired, now + 1)
  <2>1. e.seg.expired \in Nat
    BY <1>1 DEF RecordsOf, Entry, Segment
  <2> QED BY <1>1, <2>1 DEF IsExpired
<1> QED BY <1>1 DEF Latest

\* A record appended at lfs.offset comes after all others.
LEMMA LastAppended ==
    ASSUME Sound, running, NEW rec \in Entry,
           rec.region = regionID, rec.pos = offset
    PROVE  \A f \in disk : Before(f, rec)
<1> SUFFICES ASSUME NEW f \in disk
             PROVE  Before(f, rec)
  OBVIOUS
<1>1. /\ f.region \in files
      /\ EndOf(f) <= fsize[f.region]
      /\ f \in Entry
  BY DEF Sound, InFiles, Shape, TypeOK
<1>2. /\ active = regionID
      /\ offset = fsize[active]
      /\ f.region <= active
  BY <1>1 DEF Sound, OffsetIsEnd
<1>3. /\ f.pos \in Nat /\ f.region \in Nat
      /\ Size(f.seg) \in Nat \ {0}
  <2>1. f.seg \in Segment /\ f.pos \in Nat /\ f.region \in Nat
    BY <1>1 DEF Entry
  <2>2. Size(f.seg) \in Nat \ {0}
    BY <2>1, SizePositive
  <2> QED BY <2>1, <2>2
<1>4. active \in Nat /\ offset \in Nat
  BY DEF Sound, Shape, TypeOK
<1>5. CASE f.region = active
  BY <1>1, <1>2, <1>3, <1>4, <1>5 DEF EndOf, Before
<1>6. CASE f.region # active
  BY <1>2, <1>3, <1>4, <1>6 DEF Before
<1> QED BY <1>5, <1>6

LEMMA PutSegmentRecoverable ==
    ASSUME Faults = {}, OneKindOfExit, Sound, Recoverable,
           NEW k \in Keys, NEW v \in Values, NEW ttl \in Ttls,
           PutSegment(k, v, ttl)
    PROVE  Recoverable'
<1> DEFINE seg == NewSegment(k, v, ttl, clock)
           rec == Record(regionID, offset, seg)
<1>1. seg \in Segment
  BY NewSegmentType, StoreAssumption DEF Sound, Shape, TypeOK
<1>2. /\ running /\ Room /\ running' = running /\ clock' = clock
      /\ AppendToActiveRegion(seg)
      /\ index' = [index EXCEPT ![InodeNum[k]] = INodeFor(regionID, offset, seg)]
      /\ \/ CreateActiveRegion(fsize[active] + Size(seg))
         \/ KeepActiveRegion(fsize[active] + Size(seg), offset + Size(seg))
  BY DEF PutSegment, CreateActiveRegionFails
<1>3. /\ seg.key = k
      /\ ~ IsTombstone(seg)
  BY RegionsAssumption DEF NewSegment, IsTombstone
<1>4. "crash" \in Exits => ttl = 0
  BY DEF OneKindOfExit
<1>5. ttl = 0 => seg.expired = 0
  BY DEF NewSegment
<1> HIDE DEF seg
<1>6. disk' = disk \cup {rec} /\ snapshot' = snapshot
  BY <1>1, <1>2, AppendSound
<1>7. /\ rec.region = regionID
      /\ rec.pos = offset
      /\ rec.seg = seg
      /\ rec \in Entry
  BY <1>1 DEF Record, Entry, Sound, Shape, TypeOK
<1>8. \A f \in disk : Before(f, rec)
  BY <1>2, <1>7, LastAppended
<1>9. index' \in Index /\ index \in Index /\ disk \subseteq Entry
  BY PutSegmentShape DEF Sound, Shape, TypeOK
<1> HIDE DEF rec
<1>10. index' = [index EXCEPT ![InodeNum[rec.seg.key]] =
                   IF IsTombstone(rec.seg) THEN NoINode
                   ELSE INodeFor(rec.region, rec.pos, rec.seg)]
  BY <1>2, <1>3, <1>7
<1>11. Latest(disk', index', clock')
  BY <1>2, <1>6, <1>7, <1>8, <1>9, <1>10, AppendLatest DEF Recoverable
<1>12. "crash" \in Exits => snapshot' = NoSnapshot /\ NothingExpires'
  BY <1>4, <1>5, <1>6, <1>7 DEF Recoverable, NothingExpires
<1> QED BY <1>2, <1>6, <1>11, <1>12 DEF Recoverable

LEMMA DeleteSegmentRecoverable ==
    ASSUME Sound, Recoverable, NEW k \in Keys, DeleteSegment(k)
    PROVE  Recoverable'
<1> DEFINE seg == NewTombstoneSegment(k, clock)
           rec == Record(regionID, offset, seg)
<1>1. seg \in Segment
  BY NewTombstoneSegmentType DEF Sound, Shape, TypeOK
<1>2. /\ running /\ Room /\ running' = running /\ clock' = clock
      /\ AppendToActiveRegion(seg)
      /\ index' = [index EXCEPT ![InodeNum[k]] = NoINode]
      /\ KeepActiveRegion(fsize[active] + Size(seg), offset + Size(seg))
  BY DEF DeleteSegment
<1>3. /\ seg.key = k
      /\ IsTombstone(seg)
      /\ seg.expired = 0
  BY DEF NewTombstoneSegment, IsTombstone
<1> HIDE DEF seg
<1>4. disk' = disk \cup {rec} /\ snapshot' = snapshot
  BY <1>1, <1>2, AppendSound
<1>5. /\ rec.region = regionID
      /\ rec.pos = offset
      /\ rec.seg = seg
      /\ rec \in Entry
  BY <1>1 DEF Record, Entry, Sound, Shape, TypeOK
<1>6. \A f \in disk : Before(f, rec)
  BY <1>2, <1>5, LastAppended
<1>7. index' \in Index /\ index \in Index /\ disk \subseteq Entry
  BY DeleteSegmentShape DEF Sound, Shape, TypeOK
<1> HIDE DEF rec
<1>8. index' = [index EXCEPT ![InodeNum[rec.seg.key]] =
                  IF IsTombstone(rec.seg) THEN NoINode
                  ELSE INodeFor(rec.region, rec.pos, rec.seg)]
  BY <1>2, <1>3, <1>5
<1>9. Latest(disk', index', clock')
  BY <1>2, <1>4, <1>5, <1>6, <1>7, <1>8, AppendLatest DEF Recoverable
<1>10. "crash" \in Exits => snapshot' = NoSnapshot /\ NothingExpires'
  BY <1>3, <1>4, <1>5 DEF Recoverable, NothingExpires
<1> QED BY <1>2, <1>4, <1>9, <1>10 DEF Recoverable

LEMMA FetchSegmentRecoverable ==
    ASSUME Sound, Recoverable, NEW k \in Keys, FetchSegmentExpired(k)
    PROVE  Recoverable'
<1> DEFINE n == InodeNum[k]
<1>1. /\ running /\ running' = running
      /\ UNCHANGED <<disk, snapshot, clock>>
      /\ index[n] # NoINode
      /\ IsExpired(index[n].expired, clock)
      /\ index' = [index EXCEPT ![n] = NoINode]
  BY DEF FetchSegmentExpired, diskVars
<1>2. index \in Index
  BY DEF Sound, Shape, TypeOK
<1>3. Latest(disk, index, clock)
  BY <1>1 DEF Recoverable
<1> HIDE DEF n
<1>4. ASSUME NEW i \in Inums
      PROVE  /\ RecordsOf(disk, i) = {} => index'[i] = NoINode
             /\ \A e \in RecordsOf(disk, i) : IsLast(e, RecordsOf(disk, i)) =>
                  IF index'[i] = NoINode
                  THEN IsTombstone(e.seg) \/ IsExpired(e.seg.expired, clock)
                  ELSE /\ ~ IsTombstone(e.seg)
                       /\ index'[i] = INodeFor(e.region, e.pos, e.seg)
  <2>1. CASE i = n
    <3>1. index'[i] = NoINode
      BY <1>1, <1>2, <2>1 DEF Index
    <3>2. ASSUME NEW e \in RecordsOf(disk, i), IsLast(e, RecordsOf(disk, i))
          PROVE  IsExpired(e.seg.expired, clock)
      <4>1. index[i] = INodeFor(e.region, e.pos, e.seg)
        BY <1>1, <1>3, <2>1, <3>2 DEF Latest
      <4> QED BY <1>1, <2>1, <4>1 DEF INodeFor
    <3> QED BY <3>1, <3>2
  <2>2. CASE i # n
    <3>1. index'[i] = index[i]
      BY <1>1, <1>2, <2>2 DEF Index
    <3> QED BY <1>3, <3>1 DEF Latest
  <2> QED BY <2>1, <2>2
<1>5. Latest(disk', index', clock')
  BY <1>1, <1>4 DEF Latest
<1> QED BY <1>1, <1>5 DEF Recoverable, NothingExpires

LEMMA TickRecoverable ==
    ASSUME Sound, Recoverable, Tick
    PROVE  Recoverable'
<1>1. clock' = clock + 1 /\ UNCHANGED <<disk, snapshot, running, index>>
  BY DEF Tick, diskVars, memoryVars
<1>2. disk \subseteq Entry /\ clock \in Nat
  BY DEF Sound, Shape, TypeOK
<1> QED BY <1>1, <1>2, LatestAges DEF Recoverable, NothingExpires

LEMMA ExitRecoverable ==
    ASSUME OneKindOfExit, Sound, Recoverable,
           CloseFS \/ ExportInterrupted \/ Crash
    PROVE  Recoverable'
<1>1. /\ ~ running'
      /\ running
      /\ UNCHANGED <<disk, clock>>
  BY DEF CloseFS, ExportInterrupted, Crash, MemoryLost, diskVars
<1>2. CASE CloseFS
  <2>1. "crash" \notin Exits
    BY <1>2 DEF CloseFS, OneKindOfExit
  <2>2. snapshot' = index /\ index \in Index
    BY <1>2 DEF CloseFS, Sound, Shape, TypeOK
  <2> QED BY <1>1, <2>1, <2>2, StoreAssumption DEF Recoverable
<1>3. CASE ExportInterrupted
  BY <1>3 DEF ExportInterrupted, OneKindOfExit
<1>4. CASE Crash
  <2>1. "crash" \in Exits /\ snapshot' = snapshot
    BY <1>4 DEF Crash, diskVars
  <2> QED BY <1>1, <2>1, StoreAssumption DEF Recoverable, NothingExpires
<1> QED BY <1>2, <1>3, <1>4

LEMMA OpenFSRecoverable ==
    ASSUME Sound, Recoverable, OpenFS
    PROVE  Recoverable'
<1>1. /\ ~ running /\ CanOpen
      /\ running' = TRUE
      /\ index' = RecoveredIndex
      /\ UNCHANGED <<disk, snapshot, clock>>
  BY DEF OpenFS
<1>2. Latest(disk, RecoveredIndex, clock)
  <2>1. CASE snapshot # NoSnapshot
    <3>1. snapshot \in Index
      BY <1>1, <2>1 DEF CanOpen, Sound, Shape, TypeOK
    <3> QED BY <1>1, <2>1, <3>1 DEF RecoveredIndex, Recoverable
  <2>2. CASE snapshot = NoSnapshot
    BY <1>1, <2>2, ScanLatest DEF RecoveredIndex, Recoverable, Sound
  <2> QED BY <2>1, <2>2
<1> QED BY <1>1, <1>2 DEF Recoverable, NothingExpires

LEMMA NextRecoverable ==
    ASSUME Faults = {}, OneKindOfExit
    PROVE  Sound /\ Recoverable /\ [Next]_vars => Recoverable'
<1> SUFFICES ASSUME Sound, Recoverable, [Next]_vars
             PROVE  Recoverable'
  OBVIOUS
<1>1. ASSUME NEW k \in Keys, NEW v \in Values, NEW ttl \in Ttls,
             PutSegment(k, v, ttl) \/ PutSegmentFails(k, v, ttl)
      PROVE  Recoverable'
  BY <1>1, PutSegmentRecoverable DEF PutSegmentFails, AppendFails
<1>2. ASSUME NEW k \in Keys, DeleteSegment(k) \/ DeleteSegmentFails(k)
      PROVE  Recoverable'
  BY <1>2, DeleteSegmentRecoverable DEF DeleteSegmentFails, AppendFails
<1>3. ASSUME NEW k \in Keys, FetchSegmentExpired(k)
      PROVE  Recoverable'
  BY <1>3, FetchSegmentRecoverable
<1>4. CASE Tick
  BY <1>4, TickRecoverable
<1>5. CASE CloseFS \/ ExportInterrupted \/ Crash
  BY <1>5, ExitRecoverable
<1>6. CASE OpenFS
  BY <1>6, OpenFSRecoverable
<1>7. CASE OpenFSFails
  BY <1>7 DEF OpenFSFails, memoryVars, Recoverable, NothingExpires
<1>8. CASE UNCHANGED vars
  BY <1>8 DEF vars, diskVars, memoryVars, Recoverable, NothingExpires
<1> QED BY <1>1, <1>2, <1>3, <1>4, <1>5, <1>6, <1>7, <1>8 DEF Next

LEMMA InitRecoverable == Init => Recoverable
BY StoreAssumption DEF Init, Recoverable, NothingExpires

\* No acknowledged put or delete is lost or undone, in a session or by the
\* start of the next one, on a disk that refuses nothing, when the process
\* always ends by CloseFS, or always crashes and nothing has a time to live.
THEOREM LastWriteIsServed ==
    ASSUME Faults = {}, OneKindOfExit
    PROVE  Spec => []LatestWins
<1>1. Spec => []Sound
  BY SpecSound
<1>2. Sound /\ Recoverable /\ [Next]_vars => Recoverable'
  BY NextRecoverable
<1>3. Recoverable => LatestWins
  BY DEF Recoverable, LatestWins
<1> QED BY <1>1, <1>2, <1>3, InitRecoverable, PTL DEF Spec

=============================================================================
