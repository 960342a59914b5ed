------------------------------ MODULE StoreKV ------------------------------
(***************************************************************************)
(* The store implements the map of module KV.  The item of an inode number *)
(* is what a fetch would read through the index; while the process is down *)
(* it is what the index of the next start would lead to.                   *)
(***************************************************************************)
EXTENDS Store

VisibleIndex == IF running THEN index ELSE RecoveredIndex

ItemAt(inode) ==
    IF inode = NoINode THEN NoINode
    ELSE LET e == CHOOSE e \in ReadSegment(disk, inode.region, inode.pos) : TRUE
         IN  [value |-> e.seg.value, expired |-> inode.expired]

KVView ==
    INSTANCE KV WITH
        KVInums <- Inums, KVValues <- Values, KVTtls <- Ttls,
        NoItem <- NoINode,
        kv <- [i \in Inums |-> ItemAt(VisibleIndex[i])]

\* Only a put, a delete or an expiry changes what clients can read: rotation,
\* the end of the process and the start of the next one do not, and an item
\* disappears by itself only from its instant on (PutSegment, DeleteSegment,
\* FetchSegment, CloseFS and OpenFS of vfs/lfs.go).
ImplementsKV == KVView!Spec

=============================================================================
