------------------------------- MODULE Store -------------------------------
(***************************************************************************)
(* LogStructuredFS (vfs/lfs.go) as one goroutine drives it: put, delete,   *)
(* fetch, rotation of the active region, the normal exit that exports the  *)
(* index, the exits that do not, and OpenFS, which rebuilds the memory     *)
(* state from the files.  An operation is one step here; module LFS splits *)
(* the same operations at the points where goroutines interleave.          *)
(***************************************************************************)
EXTENDS Regions, FiniteSets

CONSTANTS
    Ttls,        \* times to live of a put; 0 is "no expiry"
    Exits,       \* how the process may end: "close", "export", "crash"
    Faults,      \* what the disk may refuse: "append", "create"
    NoSnapshot,  \* there is no index file
    BadSnapshot, \* an index file the reader refuses: its end or its header is cut short
    MaxRecords,  \* records a behaviour may append (bound)
    MaxClock     \* last instant of a behaviour (bound)

ASSUME StoreAssumption ==
    /\ Ttls \subseteq Nat
    /\ Exits \subseteq {"close", "export", "crash"}
    /\ Faults \subseteq {"append", "create"}
    /\ NoSnapshot \notin Index
    /\ BadSnapshot \notin Index \cup {NoSnapshot}
    /\ MaxRecords \in Nat
    /\ MaxClock \in Nat

VARIABLES
    \* on disk
    files,      \* ids of the region files that exist
    fsize,      \* their sizes
    disk,       \* the whole records they hold
    snapshot,   \* content of index.wdb, or NoSnapshot or BadSnapshot
    \* in memory, meaningless while the process is down
    running,
    index,
    regions,    \* ids the map of open regions has
    regionID,
    active,     \* id of the file behind lfs.active
    offset,
    \* environment
    clock

diskVars   == <<files, fsize, disk, snapshot>>
memoryVars == <<running, index, regions, regionID, active, offset>>
vars       == <<diskVars, memoryVars, clock>>

EmptyIndex == [i \in Inums |-> NoINode]

Init ==
    /\ files = {}
    /\ fsize = [r \in RegionIds |-> 0]
    /\ disk = {}
    /\ snapshot = NoSnapshot
    /\ running = FALSE
    /\ index = EmptyIndex
    /\ regions = {}
    /\ regionID = 0
    /\ active = 0
    /\ offset = Header
    /\ clock = 1

-----------------------------------------------------------------------------

\* Bound: there is room for another record and for a rotation after it.
Room == Cardinality(disk) < MaxRecords /\ regionID < MaxRegion

\* appendToActiveRegion: the write lands at the end of the active file, which
\* need not be where lfs.offset points.
AppendToActiveRegion(seg) ==
    /\ disk' = disk \cup {Record(active, fsize[active], seg)}
    /\ UNCHANGED snapshot

\* Mutant: the id is advanced by the caller too.
SkippedRegion(id) == id + 2

NextRegion(id) == id + 1

\* Mutant: the offset of the file left behind is kept.
CreateActiveRegionKeepsOffset(size) ==
    LET id == NextRegion(regionID)
    IN  /\ regionID' = id
        /\ files' = files \cup {id}
        /\ fsize' = [fsize EXCEPT ![active] = size, ![id] = Header]
        /\ active' = id
        /\ offset' = offset
        /\ regions' = regions \cup {id}

\* Mutant: the header of the new file is not written.
CreateActiveRegionNoHeader(size) ==
    LET id == NextRegion(regionID)
    IN  /\ regionID' = id
        /\ files' = files \cup {id}
        /\ fsize' = [fsize EXCEPT ![active] = size, ![id] = 0]
        /\ active' = id
        /\ offset' = Header
        /\ regions' = regions \cup {id}

\* createActiveRegion, entered with the given size of the file active so far.
CreateActiveRegion(size) ==
    LET id == NextRegion(regionID)
    IN  /\ regionID' = id
        /\ files' = files \cup {id}
        /\ fsize' = [fsize EXCEPT ![active] = size, ![id] = Header]
        /\ active' = id
        /\ offset' = Header
        /\ regions' = regions \cup {id}

\* The active region goes on being written.
KeepActiveRegion(size, newOffset) ==
    /\ fsize' = [fsize EXCEPT ![active] = size]
    /\ offset' = newOffset
    /\ UNCHANGED <<files, regionID, active, regions>>

\* createActiveRegion fails after it took the next id: the file cannot be
\* opened, or is left without its header.  The old file stays active.
CreateActiveRegionFails(size, newOffset) ==
    LET id == NextRegion(regionID)
    IN  /\ "create" \in Faults
        /\ regionID' = id
        /\ files' \in {files, files \cup {id}}
        /\ fsize' = [fsize EXCEPT ![active] = size]
        /\ offset' = newOffset
        /\ UNCHANGED <<active, regions>>

PutSegment(k, v, ttl) ==
    LET seg  == NewSegment(k, v, ttl, clock)
        size == fsize[active] + Size(seg)
        next == offset + Size(seg)
    IN  /\ running /\ Room
        /\ AppendToActiveRegion(seg)
        /\ index' = [index EXCEPT ![InodeNum[k]] =
                        INodeFor(regionID, offset, seg)]
        /\ IF next >= RegionThreshold
           THEN CreateActiveRegion(size) \/ CreateActiveRegionFails(size, next)
           ELSE KeepActiveRegion(size, next)
        /\ UNCHANGED <<running, clock>>

\* Mutant: no tombstone is written.
DeleteSegmentUnlogged(k) ==
    /\ running /\ Room
    /\ index' = [index EXCEPT ![InodeNum[k]] = NoINode]
    /\ UNCHANGED <<running, regions, regionID, active, offset>>
    /\ UNCHANGED <<diskVars, clock>>

\* DeleteSegment never rotates the region it appends to.
DeleteSegment(k) ==
    LET seg == NewTombstoneSegment(k, clock)
    IN  /\ running /\ Room
        /\ AppendToActiveRegion(seg)
        /\ index' = [index EXCEPT ![InodeNum[k]] = NoINode]
        /\ KeepActiveRegion(fsize[active] + Size(seg), offset + Size(seg))
        /\ UNCHANGED <<running, clock>>

\* Mutant: the entry is set before the append, and stays when it fails.
AppendFailsIndexed(seg) ==
    /\ "append" \in Faults
    /\ running /\ Room
    /\ index' = [index EXCEPT ![InodeNum[seg.key]] =
                    INodeFor(regionID, offset, seg)]
    /\ UNCHANGED <<running, regions, regionID, active, offset>>
    /\ UNCHANGED <<diskVars, clock>>

\* The append of a put or of a delete is refused after n bytes; the caller
\* gets an error and nothing but the file has changed.
AppendFails(seg) ==
    /\ "append" \in Faults
    /\ running /\ Room
    /\ fsize[active] < RegionThreshold   \* bound
    /\ \E n \in 0 .. Size(seg) - 1 :
          fsize' = [fsize EXCEPT ![active] = @ + n]
    /\ UNCHANGED <<files, disk, snapshot, memoryVars, clock>>

PutSegmentFails(k, v, ttl) == AppendFails(NewSegment(k, v, ttl, clock))

DeleteSegmentFails(k) == AppendFails(NewTombstoneSegment(k, clock))

\* What FetchSegment(k) hands out: the records it can read, none on an error.
Fetched(k) ==
    LET inode == index[InodeNum[k]]
    IN  IF inode = NoINode \/ inode.region \notin regions THEN {}
        ELSE ReadSegment(disk, inode.region, inode.pos)

\* FetchSegment changes something only when it meets an expired entry.
FetchSegmentExpired(k) ==
    LET i == InodeNum[k]
    IN  /\ running
        /\ index[i] # NoINode
        /\ IsExpired(index[i].expired, clock)
        /\ index' = [index EXCEPT ![i] = NoINode]
        /\ UNCHANGED <<running, regions, regionID, active, offset>>
        /\ UNCHANGED <<diskVars, clock>>

Tick ==
    /\ clock < MaxClock
    /\ clock' = clock + 1
    /\ UNCHANGED <<diskVars, memoryVars>>

-----------------------------------------------------------------------------

\* The process is gone and its memory with it.
MemoryLost ==
    /\ running' = FALSE
    /\ index' = EmptyIndex
    /\ regions' = {}
    /\ regionID' = 0
    /\ active' = 0
    /\ offset' = Header

\* CloseFS, the normal exit: every file is flushed, the index is exported.
CloseFS ==
    /\ "close" \in Exits
    /\ running
    /\ snapshot' = index
    /\ MemoryLost
    /\ UNCHANGED <<files, fsize, disk, clock>>

\* The process ends inside ExportSnapshotIndex, which truncates the index file,
\* writes its header and then one entry at a time; the write that is under way
\* may leave a part of the header or of an entry.
ExportInterrupted ==
    /\ "export" \in Exits
    /\ running
    /\ \/ snapshot' = BadSnapshot
       \/ \E S \in SUBSET Inums :
             snapshot' = [i \in Inums |-> IF i \in S THEN index[i] ELSE NoINode]
    /\ MemoryLost
    /\ UNCHANGED <<files, fsize, disk, clock>>

Crash ==
    /\ "crash" \in Exits
    /\ running
    /\ MemoryLost
    /\ UNCHANGED <<diskVars, clock>>

\* The index OpenFS starts with: the index file whenever there is one.
RecoveredIndex ==
    IF snapshot # NoSnapshot THEN snapshot
    ELSE CrashRecoveryAllIndex(disk, clock)

\* OpenFS gives up on a file without a header, on an index file that
\* recoveryIndex reports an error for (module IndexReader), and, when it has to
\* scan, on a region file that does not parse.
CanOpen ==
    /\ snapshot # BadSnapshot
    /\ \A r \in files : fsize[r] >= Header
    /\ snapshot = NoSnapshot => \A r \in files : Parses(disk, r, fsize[r])

\* Mutant: the regions are sorted the other way round.
OldestFile == CHOOSE r \in files : \A q \in files : r <= q

NewestFile == CHOOSE r \in files : \A q \in files : q <= r

\* The newest file can be written on.
Continues == files # {} /\ fsize[NewestFile] < RegionThreshold

FreshRegion == NextRegion(IF files = {} THEN 0 ELSE NewestFile)

OpenFS ==
    /\ ~ running
    /\ CanOpen
    /\ running' = TRUE
    /\ index' = RecoveredIndex
    /\ IF Continues
       THEN /\ regions' = files
            /\ regionID' = NewestFile
            /\ active' = NewestFile
            /\ offset' = fsize[NewestFile]
            /\ UNCHANGED <<files, fsize>>
       ELSE /\ FreshRegion \in RegionIds
            /\ regions' = files \cup {FreshRegion}
            /\ files' = files \cup {FreshRegion}
            /\ fsize' = [fsize EXCEPT ![FreshRegion] = Header]
            /\ regionID' = FreshRegion
            /\ active' = FreshRegion
            /\ offset' = Header
    /\ UNCHANGED <<disk, snapshot, clock>>

\* The regions are recovered before the index: OpenFS leaves a new file behind
\* when it then fails on the index, or one without a header when it fails on
\* the file itself.
OpenFSFails ==
    /\ ~ running
    /\ \A r \in files : fsize[r] >= Header
    /\ ~ Continues
    /\ FreshRegion \in RegionIds
    /\ files' = files \cup {FreshRegion}
    /\ \/ /\ ~ CanOpen
          /\ fsize' = [fsize EXCEPT ![FreshRegion] = Header]
       \/ /\ "create" \in Faults
          /\ UNCHANGED fsize
    /\ UNCHANGED <<disk, snapshot, memoryVars, clock>>

-----------------------------------------------------------------------------

Next ==
    \/ \E k \in Keys, v \in Values, ttl \in Ttls :
          PutSegment(k, v, ttl) \/ PutSegmentFails(k, v, ttl)
    \/ \E k \in Keys :
          DeleteSegment(k) \/ DeleteSegmentFails(k) \/ FetchSegmentExpired(k)
    \/ Tick
    \/ CloseFS
    \/ ExportInterrupted
    \/ Crash
    \/ OpenFS
    \/ OpenFSFails

Spec == Init /\ [][Next]_vars

\* A start of the process is attempted again until it succeeds.
FairSpec == Spec /\ WF_vars(OpenFS)

-----------------------------------------------------------------------------
(***************************************************************************)
(* Properties.                                                             *)
(***************************************************************************)

\* Every variable has its type; positions and ids are naturals.
TypeOK ==
    /\ files \subseteq RegionIds
    /\ fsize \in [RegionIds -> Nat]
    /\ disk \subseteq Entry
    /\ snapshot \in Index \cup {NoSnapshot, BadSnapshot}
    /\ running \in BOOLEAN
    /\ index \in Index
    /\ regions \subseteq RegionIds
    /\ regionID \in Nat
    /\ active \in Nat
    /\ offset \in Nat
    /\ clock \in Nat \ {0}

\* Every entry of the index, and of the index file, reads back a live record
\* of its own inode number from an open region, however old the index file is
\* and in whatever way earlier processes ended.
IndexSound ==
    /\ Leads(disk, index, regions)
    /\ snapshot \in Index => Leads(disk, snapshot, files)

\* The index agrees with the last record of each inode number, so no put or
\* delete that was acknowledged is lost or undone, in a session or by the
\* recovery that starts the next one.
LatestWins == running => Latest(disk, index, clock)

\* lfs.offset, from which PutSegment takes the position of a record, is the end
\* of the active file, and the active file is the newest one.
OffsetIsEnd ==
    running =>
        /\ active = regionID
        /\ active \in files
        /\ offset = fsize[active]
        /\ \A r \in files : r <= active

\* The entries of idx carry the times of live records of their inode numbers.
Backed(D, idx) ==
    \A i \in Inums : idx[i] # NoINode =>
        \E e \in RecordsOf(D, i) :
            /\ ~ IsTombstone(e.seg)
            /\ idx[i].created = e.seg.created
            /\ idx[i].expired = e.seg.expired

\* Whatever the disk refuses, nothing is indexed, in memory or in the index
\* file, that was not written to a region file before.
IndexBacked ==
    /\ Backed(disk, index)
    /\ snapshot \in Index => Backed(disk, snapshot)

\* A process that ended is followed by one that gets through OpenFS.
Reopens == ~ running ~> running

=============================================================================
