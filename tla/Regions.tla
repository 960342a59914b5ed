------------------------------ MODULE Regions ------------------------------
(***************************************************************************)
(* The data files of the store (vfs/lfs.go, vfs/segment.go) as values: the *)
(* records they hold, where each one starts, what reading at a position    *)
(* returns, and what index a scan of all files rebuilds.                   *)
(*                                                                         *)
(* Bytes are kept only as far as positions need them: a record has a size, *)
(* a file has a size, and a record starts where the file ended when it was *)
(* appended.  The content of a record is its key and an opaque value.      *)
(***************************************************************************)
EXTENDS Naturals

CONSTANTS
    Keys,            \* keys a client may use
    Values,          \* payloads of a live record
    Tombstone,       \* payload of the record DeleteSegment appends
    NoINode,         \* "no entry" in the index map
    InodeNum,        \* hash of a key; it need not be injective
    SegSize,         \* bytes a record of a key and a payload takes
    Header,          \* bytes of dataFileMetadata at the start of a file
    RegionThreshold, \* size from which a region is no longer written
    MaxRegion        \* last region id a behaviour may reach (bound)

Payloads == Values \cup {Tombstone}

Inums == {InodeNum[k] : k \in Keys}

RegionIds == 1 .. MaxRegion

Segment == [key : Keys, value : Payloads, created : Nat, expired : Nat]

\* A record in a data file: the region it is in and the byte it starts at.
Entry == [region : Nat, pos : Nat, seg : Segment]

INode == [region : Nat, pos : Nat, created : Nat, expired : Nat]

Index == [Inums -> INode \cup {NoINode}]

ASSUME RegionsAssumption ==
    /\ Tombstone \notin Values
    /\ NoINode \notin INode
    /\ SegSize \in [Keys \X Payloads -> Nat \ {0}]
    /\ Header \in Nat \ {0}
    /\ RegionThreshold \in Nat
    /\ Header < RegionThreshold
    /\ MaxRegion \in Nat \ {0}

-----------------------------------------------------------------------------

NewSegment(k, v, ttl, now) ==
    [key |-> k, value |-> v, created |-> now,
     expired |-> IF ttl > 0 THEN now + ttl ELSE 0]

NewTombstoneSegment(k, now) ==
    [key |-> k, value |-> Tombstone, created |-> now, expired |-> 0]

IsTombstone(seg) == seg.value = Tombstone

Size(seg) == SegSize[<<seg.key, seg.value>>]

\* The expiry test of FetchSegment and of the recovery scan.
IsExpired(t, now) == t # 0 /\ t <= now

EndOf(e) == e.pos + Size(e.seg)

Record(region, pos, seg) == [region |-> region, pos |-> pos, seg |-> seg]

INodeFor(region, pos, seg) ==
    [region |-> region, pos |-> pos,
     created |-> seg.created, expired |-> seg.expired]

\* The records a read at (region, pos) can return: the one that starts there,
\* or none.  A read that lands inside a record or beyond the end of the file
\* fails on its sizes or on its checksum.
ReadSegment(disk, region, pos) ==
    {e \in disk : e.region = region /\ e.pos = pos}

-----------------------------------------------------------------------------

\* e is replayed before f: files are scanned by region id, records in order.
Before(e, f) ==
    \/ e.region < f.region
    \/ e.region = f.region /\ e.pos < f.pos

IsLast(e, S) == e \in S /\ \A f \in S : f = e \/ Before(f, e)

RecordsOf(disk, i) == {e \in disk : InodeNum[e.seg.key] = i}

\* Mutant: the scan passes over tombstones.
ReplayedLive(disk, i, now) ==
    {e \in RecordsOf(disk, i) :
        ~ IsTombstone(e.seg) /\ ~ IsExpired(e.seg.expired, now)}

\* The records of inode number i that the scan acts on: it deletes the entry
\* for a tombstone, sets it for a live record, and passes over an expired one.
Replayed(disk, i, now) ==
    {e \in RecordsOf(disk, i) :
        IsTombstone(e.seg) \/ ~ IsExpired(e.seg.expired, now)}

\* The index a scan of all the files rebuilds: the last replayed record of an
\* inode number decides its entry.
CrashRecoveryAllIndex(disk, now) ==
    [i \in Inums |->
        IF \E e \in Replayed(disk, i, now) :
              IsLast(e, Replayed(disk, i, now)) /\ ~ IsTombstone(e.seg)
        THEN LET e == CHOOSE e \in Replayed(disk, i, now) :
                        IsLast(e, Replayed(disk, i, now))
             IN  INodeFor(e.region, e.pos, e.seg)
        ELSE NoINode]

\* The scan parses a file when its records follow one another from the header
\* to the end: each position it stops at is the end or the start of a record.
Parses(disk, region, size) ==
    \A p \in {Header} \cup {EndOf(e) : e \in {f \in disk : f.region = region}} :
        p # size => ReadSegment(disk, region, p) # {}

-----------------------------------------------------------------------------
(***************************************************************************)
(* What properties say of an index and the records on disk.                *)
(***************************************************************************)

\* The inode leads to a live record of inode number i with the inode's times.
ReadsBack(D, i, inode) ==
    \E e \in ReadSegment(D, inode.region, inode.pos) :
        /\ InodeNum[e.seg.key] = i
        /\ ~ IsTombstone(e.seg)
        /\ inode = INodeFor(e.region, e.pos, e.seg)

\* The entries of idx read back from the regions ids.
Leads(D, idx, ids) ==
    \A i \in Inums : idx[i] # NoINode =>
        ReadsBack(D, i, idx[i]) /\ idx[i].region \in ids

\* The last record of each inode number decides what idx says of it: the entry
\* names that record, or there is none and the record is a tombstone or has
\* expired.
Latest(D, idx, now) ==
    \A i \in Inums :
        LET R == RecordsOf(D, i)
        IN  /\ R = {} => idx[i] = NoINode
            /\ \A e \in R : IsLast(e, R) =>
                  IF idx[i] = NoINode
                  THEN IsTombstone(e.seg) \/ IsExpired(e.seg.expired, now)
                  ELSE /\ ~ IsTombstone(e.seg)
                       /\ idx[i] = INodeFor(e.region, e.pos, e.seg)

=============================================================================
