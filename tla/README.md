# WireDB: TLA+ models, checks and proofs

WireDB (this repository) is a key-value server over `LogStructuredFS`, an
append-only store: values go to the end of region files, an in-memory index says
where the last record of every key is, and a restart rebuilds that index from an
index file or by scanning the regions. This directory models the store, the server
around it and the way from the command line to a server that serves, checks
the models with TLC on small instances and proves the most important properties
with TLAPS for every instance.

Paths below are relative to the repository. `lfs.go` is `src/vfs/lfs.go`.

## 1. The system

| Component | State | Operations | Interacts through |
|---|---|---|---|
| `LogStructuredFS` (`lfs.go`) | region files, `index.wdb`; in memory `indexs`, `regions`, `regionID`, `active`, `offset` | `PutSegment`, `DeleteSegment`, `FetchSegment`, `UpdateSegmentWithCAS`, `BatchFetchSegments`, `KeysCount`, `createActiveRegion`, `CloseFS`, `OpenFS`, `ExportSnapshotIndex` | called by every HTTP handler goroutine; `lfs.mu` guards appends and rotations, a lock per shard guards the index, `offset` and the fields of an `INode` are atomics |
| Recovery (`lfs.go` 337-430, 590-770) | none of its own | `recoverRegions`, `scanAndRecoverIndexs`, `recoveryIndex`, `crashRecoveryAllIndex` | called by `OpenFS`; `recoveryIndex` runs two goroutines and two channels |
| Region collector (`lfs.go` 440-500, 1064-1160) | `gcstate`, `gcdone` | `StartRegionGC`, `StopRegionGC`, `cleanupDirtyRegion` | a goroutine with a ticker; takes `lfs.mu`, reads index and regions |
| Records (`src/vfs/segment.go`) | none | `NewSegment`, `NewTombstoneSegment`, sizes, expiry, `To...` conversions | values passed to the store |
| Transformer (`src/vfs/transformer.go`) | one global, its flags and key set once | compress, encrypt, and back | called on every record, by the scan of `OpenFS` before it is configured |
| Controllers (`src/server/db_service.go`, `api.go`) | none | get, put, delete for each of six types, health, authentication | each is one call of the store |
| Server (`src/server/server.go`, `src/cmd/process.go` 120-190) | the open store, the listener | `OpenFS`, `SetCompressor`, `SetEncryptor`, `Startup`, signals, `Shutdown` | `Shutdown` waits for the handlers, then `CloseFS` |
| Start-up (`src/cmd/process.go`, `src/conf`, `src/utils/str.go`) | `conf.Settings` | flags, configuration file, validators, `runAsDaemon` | a daemon is a child process with the arguments its parent hands on |
| Value types (`src/types`) | the value | set, zset, list, text, table, number | decoded from and encoded to payloads |
| Logging, files (`src/clog`, `src/utils`) | none | output, paths | straight-line |

What is hard to get right, component by component, and what "right" means:

* **Store, one call at a time.** Positions are computed from `lfs.offset`, the
  record lands at the end of the file: the two have to be equal. A put that
  fills a region is indexed before the rotation. Deletes never rotate. Right
  means: the last acknowledged write of a key is what a fetch finds
  (`LatestWins`), and every index entry leads to a live record of its own key
  (`IndexSound`).
* **Restarts.** A process may end by `CloseFS`, inside the export of the index,
  or in a crash, and many processes follow one another on the same files. Right
  means the same two properties, over all of them, and that `OpenFS` succeeds
  (`Reopens`).
* **A disk that fails.** Most error paths leave some state changed, and later calls go on from there.
  `IndexBacked` and, for calls that overlap, `IndexWritten` hold whatever happens.
* **Concurrent calls.** Fetches take no lock for the fields of an `INode`,
  updates change it in place without one, deletes leave `lfs.mu` before they have
  finished. Right means: an entry always reads back (`EntriesReadBack`,
  `FetchSucceeds`), the order of the log is the order of the index
  (`QuietLatest`), every call is as if it had happened in one step between its begin and
  its end (`Linearizable`), a version is granted once (`OneWinnerPerVersion`,
  `NoLostUpdate`), every call returns (`Returns`).
* **The collectors.** They must end each cleanup, let writers through, and stop when
  told to (`CleanupEnds`, `EmptyCleanupEnds`, `OthersGetThrough`, `DoneEnds`), and
  nobody closes a file under them (`NotClosedDuringCleanup`).
* **The index reader.** Two goroutines, two bounded channels, an error that must
  not get lost (`AllOrError`, `NeverWaits`, `Returns`).
* **The server.** Handlers, signals and the end of the process interleave; a write is
  acknowledged only with its record there (`HonestAnswers`), the drain comes before the
  export of the index (`ServesKV`), a shutdown ends and loses no answer
  (`ShutdownEnds`, `Answered`). One process may be configured differently from the last
  (`ReadsAsWritten`, `SameConfigReads`, `Reopens`).
* **Start-up.** Built-in values, file and flags are overlaid (`CommandLineWins`), validators
  stand in for error checks made elsewhere (`ServesValidated`), and a daemon starts
  itself again with other arguments (`DaemonKeepsTheRest`, `DaemonChainEnds`).

`PROJECT.json` has the hazards one by one with their lines.

## 2. The modules

| Module | Models | Relation to the others |
|---|---|---|
| `Regions` | region files as values: records, positions, `ReadSegment`, `CrashRecoveryAllIndex`; `Leads` and `Latest`, which say what an index is worth | extended by `Store` and `LFS` |
| `KV` | abstract specification: a map from inode numbers to the value put last and its expiry instant | instantiated by `StoreKV` and `KVCalls` |
| `KVCalls` | abstract specification: that map, without expiry, as clients see it, whose calls begin, take effect once and end | composes `KV`; instantiated by `ServerKV` and `LFSKV` |
| `Store` | the store, one call at a time, over any number of processes on the same files, with disk faults | |
| `StoreKV` | the refinement mapping, `Store` implements `KV` | extends `Store` |
| `StoreProofs` | theorems about `Store` | extends `Store` |
| `StoreKVProofs` | the theorem that `Store` implements `KV` | extends `StoreKV` and `StoreProofs` |
| `LFS` | the store as goroutines drive it, an action for every access that others can get in between, with appends and rotations that fail | |
| `LFSProofs` | theorems about `LFS`, whatever its clients do | extends `LFS` |
| `LFSKV` | the refinement mapping, `LFS` with careful clients implements `KVCalls` | extends `LFS` |
| `LFSKVProofs` | theorems about `LFS` with careful clients, among them the refinement | extends `LFSKV` and `LFSProofs` |
| `RegionGC` | the collector goroutines, their channels, `lfs.mu`, writers and `CloseFS` | |
| `RegionGCProofs` | theorems about `RegionGC` | extends `RegionGC` |
| `IndexReader` | `recoveryIndex`: producer, consumer, `nqueue` and `equeue` | its result is `CanOpen` and `RecoveredIndex` of `Store` |
| `IndexReaderProofs` | theorems about `IndexReader` | extends `IndexReader` |
| `Codec` | `Encode` and `Decode` of the transformer, the `To...` conversions | extended by `Server` |
| `Server` | the process from start to exit, signals, drain, controllers, and one process after another with configurations of their own | composes `Codec` with the store at the grain of whole calls |
| `ServerKV` | the refinement mapping, `Server` implements `KVCalls` | extends `Server` |
| `ServerProofs` | theorems about `Codec`, `Server` and the refinement | extends `ServerKV` |
| `CommandLine` | flags, configuration file, validators, the chain of daemon processes | its result is what `Server` starts with |
| `CommandLineProofs` | theorems about `CommandLine` | extends `CommandLine` |
| `MCStore`, `MCStoreExits`, `MCLFS`, `MCRegionGC`, `MCIndexReader`, `MCServer`, `MCCommandLine` | values of the constants for TLC | |

### State and code

`Regions`/`Store`: `files`, `fsize`, `disk` are the `*.wdb` region files, their
sizes and the whole records in them, a record being its region, its first byte
and its segment. `snapshot` is `index.wdb`: `NoSnapshot` when there is none,
`BadSnapshot` when the reader refuses it, otherwise the index it holds. `index`,
`regions`, `regionID`, `active`, `offset` are the fields of `LogStructuredFS`, an
index entry is an `INode`. `clock` is the time.

Bytes matter only for positions: `SegSize` gives the size of a record for its key
and payload, `Header` the four bytes of metadata. Reading at a position where no
record starts fails (sizes or checksum), so `ReadSegment` returns the record
there or nothing. `InodeNum` is the hash of a key and is not assumed to be
injective: the properties speak of inode numbers, as the index does.

Every public operation is one action of `Store`, with the whole of what it does:
the put with append, entry, offset and rotation; the delete with its tombstone;
`OpenFS` with region recovery, the new region if the newest is full, and the index
from the file or the scan. The error returns are actions too: an append that
stores only some bytes (`AppendFails`), a rotation that has already taken the next
id (`CreateActiveRegionFails`), a start that fails after it has made a region
(`OpenFSFails`).

`LFS` has the same fields, and for each goroutine a program counter, its call, the
`INode` pointer it looked up (`ptr`, into `heap`, so that an `INode` that has left
the index can still be written to) and the value it loaded last. `won` and `got`
are history: the updates past the version check and what a fetch handed out. A refused
append or rotation (`AppendFails`, `RotationFails`) returns the error from where the code
does, with everything done before it done.

`CarefulSpec` of `LFS` is the same system with clients that keep some calls apart (`Careful`):
while a delete or an update is under way there is no other put, delete or update, and no fetch
of the inode number that is updated. Puts overlap with puts and fetches, deletes with
fetches, updates with fetches of other inode numbers, and whoever rotates with everything. Nothing in
the code enforces this; section 3 shows what happens without it. `LFSKV` says when a call
of such clients takes effect: a put where it enters its `INode` in the index, a delete
where it removes the entry, an update with its append, a fetch with its lookup. So a fetch has its result long
before it reads, and must read just that, though puts, deletes and rotations go on meanwhile.

`RegionGC` keeps of every dirty region the kind of its first record only: the scan
reaches the second record only after a migration, and none completes. Collectors and
channels are numbered by the call of `StartRegionGC` that made them, because a second call before
the first tick gets through; `lfs.gcdone` is the newest channel, and a select
listens to the one that was `lfs.gcdone` when it was entered (`listens`).

`Server` has the regions as one sequence `log`, a position in it standing for region and
offset; `index` and `indexFile` map keys to positions. `phase` is how far `runServer` has come,
`config` what `conf.Settings` asks for and `transformer` the global of package `vfs`,
which differs from `config` until `SetCompressor` and `SetEncryptor`. A request is received,
called and done; a call of the store is one step, for what overlapping calls do
to each other is in `LFS` and what files go through in `Store`. The eighteen
controllers do the same for six types, so `Get`, `Put` and `Delete` take the type as `kind`.

Of a failing disk `Server` has the case that leaves nothing behind: `write` takes no byte of the
record (`"refuse"`), and `lfs.offset`, file and index stay as they are. A record cut short
(`lfs.go:1190`) and a rotation that fails after `regionID += 1` (`lfs.go:301`) make later entries lead elsewhere or nowhere,
also after `CloseFS` and the next start: a put is then answered 201 and a get of it 404. One log of records cannot
show that. `ServerAssumption` rules both out, and every property and theorem of `Server` is about
servers that have met neither; `Store` and `LFS` have both faults with what follows from them (section 3).

`Codec`: bytes are terms that remember what made them, so that only the inverse of
the outermost conversion gives back the inner one. `Decrypt` of bytes it did not make
panics or yields garbage, and panics on the empty value of a tombstone, which
is why it matters that the scan of `OpenFS` runs with the transformer of `NewTransformer`.

`CommandLine`: an argument is the sequence of its pieces between "=" signs; `Parse` is the
contract of Go's package `flag`, `SplitArgs` and `TrimDaemon` the code of `src/utils/str.go`,
`Load` an overlay of the fields the file mentions. The stages of one process are `init`, `runAsDaemon` or
`runServer`; the child continues the behaviour with `args` as handed on.

## 3. What the runs show

Passing runs:

| Run | Question | Answer |
|---|---|---|
| `store_exits` | processes that all end by `CloseFS`, times to live included, or that all crash with nothing that expires: is an acknowledged write ever lost, does the store open again? | nothing is lost (`LatestWins`), entries lead to live records (`IndexSound`, `OffsetIsEnd`), `Store` implements `KV` (`ImplementsKV`), every start gets through (`Reopens`) |
| `store_faults` | appends cut short, rotations and starts refused, exits of all kinds in any order, the export cut short at any point included | nothing is indexed that was not written (`IndexBacked`) |
| `lfs_careful` | three goroutines with all four operations, whose clients are careful | entries read back at every instant, fetches succeed, the last append wins, a region is left only when full, and `LFS` implements `KVCalls` (`Linearizable`) |
| `lfs_all` | puts, deletes, fetches and updates, appends and rotations refused | `lfs.mu` excludes, no nil `INode`, no entry ahead of the log, one winner per version, every call returns |
| `region_gc` | two collectors, a writer, `CloseFS`, dirty regions of every kind | `lfs.mu` and `gcstate` say where the collectors are, the files are not closed while one scans; where no record can be looked up (`NothingToLookUp`) cleanups end, others get through, a stop that was sent is obeyed |
| `index_reader` | every file of up to five entries, damaged anywhere | success exactly when every entry is indexed; no goroutine is left waiting |
| `server_shutdown` | two clients, processes that end by a signal, writes the disk takes no byte of | no answer promises a write that was not made; drain and index file carry every write to the next process (`ServesKV`); accepted requests are answered, a shutdown ends |
| `server_config` | processes with different compressors and encryptors on one log, that end in every way but by a caught signal | a read hands out what was put or fails; what the present configuration wrote can be read; the store opens |
| `cli` | every command line of up to three arguments, with configuration files of all kinds | what is validated can be served, each setting comes from its flag, the file or the built-in settings by the rules of `init` (`CommandLineWins`), the chain of daemons ends, a child reads what its parent was given but for one argument, and hands on fewer |

Runs that end in a counterexample. Each contradicts something a comment or a test
of the repository says; the quotations are in `PROJECT.json`.

| Run | What happens |
|---|---|
| `store_stale_snapshot` | exit, start, delete, crash, start: the index file of the first exit is still there and is believed, the delete is undone (`lfs.go:409`) |
| `lfs_lost_update` | two updates computed from the same record both pass the version check (`lfs.go:208`) |
| `gc_live` | a collection that meets a live record waits for the `lfs.mu` it holds (`lfs.go:1129`) |

The properties of the passing runs hold under the constants of these runs, and
the constants are where they have to be. Changing one of them shows what else
the code does (`-deadlock`: the region bound stops the process there, so TLC runs without
its deadlock check):

| Take | Change | Violated | What happens |
|---|---|---|---|
| `store_exits` | in `Keeps`, drop the last conjunct | `LatestWins`, `ImplementsKV` | a value is overwritten by one with a time to live, which runs out; the scan passes over the expired record and brings the old value back (`lfs.go:728`) |
| `store_exits`, `-deadlock` | `Faults = {"append"}` | `OffsetIsEnd`, `IndexSound` | an append is cut short; `offset` and file end differ from then on (`lfs.go:1190`) |
| `store_exits`, `-deadlock` | `Faults = {"create"}` | `OffsetIsEnd`, `IndexSound` | a rotation fails after taking the next id; later entries name a region that does not exist (`lfs.go:301`) |
| `store_exits`, `-deadlock` | `Faults = {"append"}`, `Reopens` only | `Reopens` | a record cut short, then a crash: the scan fails at every start (`lfs.go:716`) |
| `lfs_careful` | `SPECIFICATION Spec`, `Ops = {"put", "delete"}` | `EntriesReadBack`, `QuietLatest`, `Linearizable` | a put between the append of a delete and its late offset or index update gets the tombstone's position, or is removed from the index (`lfs.go:160`, `169`) |
| `lfs_careful` | `Ttls = {0, 1}` | `QuietLatest` | a put between the expiry check and the eviction of a fetch is removed from the index (`lfs.go:189`) |
| `lfs_careful` | `SPECIFICATION Spec`, `Ops = {"fetch", "update"}`, `MaxCalls = 5` | `FetchSucceeds` | a fetch meets an `INode` an update has half rewritten and fails (`lfs.go:256`), where a test expects overlapping fetches and updates to succeed (`lfs_test.go:337`) |
| `lfs_careful` | `SPECIFICATION Spec`, `Ops = {"fetch", "update"}`, `MaxCalls = 5` | `RegionsFull` | two updates rotate for one full region (`lfs.go:266`) |
| `lfs_careful` | `Faults = {"append"}` or `{"create"}` | `EntriesReadBack`, `QuietLatest`, `FetchSucceeds` | as in `store_exits`, with fetches that then fail |
| `gc_live` | `Heads = {"stale"}` | `CleanupEnds` | an outdated record is read for ever, with `lfs.mu` held (`lfs.go:1148`) |
| `server_shutdown` | `Ends = {"signal", "early"}` | `ServesKV` | a process exits by a signal; the next one takes a write and a signal in its first half second, which is not caught yet: the write is gone (`process.go:174`) |
| `server_shutdown` | `Ends = {"signal", "collector"}` | `ServesKV` | the same, the second process ending by a tombstone that the collector's goroutine tries to decrypt (`transformer.go:190`) |
| `cli` | `Tail` left out of `DaemonKeepsTheRest` | `DaemonKeepsTheRest` | `-debug -daemon` starts a child without `-debug` (`str.go:31`) |

Visible in the actions themselves:

* `FetchRegion` of `LFS` can be enabled together with `PublishActiveRegion`, a lookup in a Go map
  during a write to it (`lfs.go:197`, `323`).
* `StopRegionGC` changes nothing while `gcstate` is `INIT`, so a stop before the first
  tick is lost (`lfs.go:485`).
* `Delete` of `Server` answers an error with 500 and then 204; the client sees the
  first.
* `RotationFails` of `LFS`, `CreateActiveRegionFails` of `Store`: a put whose rotation fails returns the error, which the
  controller answers with 500 (`db_service.go:54`), although the value is stored and indexed.
* `Overridden` of `CommandLine` replaces the password of a configuration file with a random one
  whenever no `-auth` is given (`process.go:72-77`), although `src/README.md:75-81` documents `auth` in `config.yaml` as
  the secret of the server; and it takes a flag with the built-in value for one not given, so that `-port=2668`
  does not win over a file with another port. `CommandLineWins` states both as the code has them.
* `Split` makes two arguments of `--debug=false`, which turns debug on in the child and ends its
  parsing; a value with two "=" is dropped.
* `GCPanics`: an interval of zero passes the validators and `time.NewTicker` panics.

### Bounds, and why they are enough

* `Store`: two keys with different inode numbers, three record sizes (tombstone 1,
  `v1` 2, `v2` 3), `Header` 1, `RegionThreshold` 4, up to three regions,
  `MaxRecords` two to four, `MaxClock` 2. A region fills with one long or two short
  records, so a behaviour sees puts that fit, that fill exactly and that overshoot,
  deletes that leave a region over the threshold at an exit, a rotation, and a
  record in a region before the active one. Exits and starts are not bounded: each
  run covers any number of processes. Two payloads and three records are enough for
  "old value, new value, delete". The theorems of section 4 drop these bounds
  for all properties of these runs except `Reopens`.
* `LFS`: two goroutines are enough for every race the code has between two calls;
  `lfs_careful` has three, so that a rotation and two other calls overlap, and three calls, each of them able to
  fill a region because one record is there from the start. In `lfs_all` calls
  are bounded by `MaxCalls` (4): two fetches and the two updates that use them, or a put, a
  delete, a fetch and an update. In `lfs_all` everything put or updated expires two calls later, so a
  fetch may come in time or have to evict, and the value stored first never expires. `MaxRegion`
  is above what these calls can reach, so it never cuts off a behaviour.
  Symmetry permutes goroutines, which no action tells apart; `lfs_all`, which checks a
  liveness property, does without it. The theorems drop these bounds (`MaxRegion` and
  `MaxCalls` may be any number) for all but `Returns`.
* `RegionGC`: five regions, the least the collector acts on; the heads of the four oldest
  are those of `SomeHeads`: each kind first, after empty regions and out of reach behind
  one that ends the scan (`missing` takes the steps of `stale`). Two collectors are
  all that two calls of `StartRegionGC` before the first tick can start; one writer in `region_gc`, two in `gc_live`.
* `IndexReader`: files of at most five entries. The capacity of `nqueue` is the
  number of entries the size of the file allows for, so nothing depends on the
  number; the theorems cover every number.
* `Server`: one key, because requests for different keys share nothing but the log; two
  clients in `server_shutdown`, enough for a request before, in and after every step of another
  and of the shutdown; three records, enough for a value, its successor and a delete, over
  any number of processes. `server_config` has one client and two records, for what
  configurations do does not depend on overlap, but all six types, five configurations and four
  ways to end. The theorems drop all of it, but the liveness properties.
* `CommandLine`: three arguments allow for a flag, its value and one more, `-daemon` or one that ends the parsing,
  in every order. The arguments have every flag alone, with "=", with an empty value, with a value
  that contains "=", an unknown flag and plain words; the files, every combination of settings a validator or `runServer` looks at.

Runs whose cfg has `CHECK_DEADLOCK FALSE`: with a damaged index file, a headerless
region file or a record cut short the store does not open again (`store_faults`), the
collectors stop for good when told to, or wait for their own lock (`region_gc`,
`gc_live`), and a chain of processes ends in an exit or a server (`cli`).

### Fairness

* `MCStoreExits!MCSpec`: weak fairness of `OpenFS`. The process is started again by
  whoever runs it; nothing else is assumed, in particular not that clients call.
* `LFS!FairSpec`: weak fairness of each goroutine's `Step`. A goroutine in a call
  is runnable until it waits for `lfs.mu`, and Go's scheduler runs every runnable
  goroutine. Weak fairness of a wait for a mutex holds while the number of calls is
  finite, and `sync.Mutex` also hands over to a goroutine that has waited for a millisecond.
* `RegionGC!Fairness`: the same for the collectors, each writer and `CloseFS`, stated
  action by action in the module; nobody is assumed to call `StartRegionGC`, `StopRegionGC` or
  `CloseFS`.
* `IndexReader!FairSpec`: some step of the two goroutines or of their caller is taken as long as
  one can be; which one, is left open.
* `Server!FairSpec`: the main goroutine goes on (`OpenFS` to `Notify`, and `CloseFS` once the
  drain is over), each handler goes on, and a server that is down is launched again. No signal, no
  request and no end of a process is assumed to happen.
* `CommandLine!FairSpec`: a process that runs goes on.

## 4. What is proved

All proofs are checked by TLAPS with Z3, Zenon and LS4, for every value of the
constants that the named assumptions (`RegionsAssumption`, `StoreAssumption`, `RegionGCAssumption`,
`CodecAssumption`, `ServerAssumption`, `CommandLineAssumption`, the assumption of `IndexReader`) allow.

| Module | Theorem | Property | Further hypothesis |
|---|---|---|---|
| `StoreProofs` | `TypeCorrect` | `TypeOK` | none |
| | `IndexIsSound` | `IndexSound` | the disk refuses nothing: `Faults = {}` |
| | `OffsetFollowsFile` | `OffsetIsEnd` | `Faults = {}` |
| | `OnlyWrittenIsIndexed` | `IndexBacked` | none |
| | `LastWriteIsServed` | `LatestWins` | `Faults = {}` and one kind of exit: always `CloseFS`, or always a crash with nothing that expires |
| `StoreKVProofs` | `ImplementsMap` | `ImplementsKV`: `Store` implements `KV` | the same |
| `IndexReaderProofs` | `TypeCorrect`, `AllIndexedOrError`, `ReaderNeverWaits` | `TypeOK`, `AllOrError`, `NeverWaits` | none |
| `LFSProofs` | `TypeCorrect` | `TypeOK` | none |
| | `OneWinner` | `OneWinnerPerVersion` | none |
| | `IndexIsWritten` | `IndexWritten` | none |
| `LFSKVProofs` | `EntriesAreRead`, `FetchesSucceed`, `NoRegionLeftEarly` | `EntriesReadBack`, `FetchSucceeds`, `RegionsFull` | careful clients (`CarefulSpec`), `Faults = {}` |
| | `IndexIsLatest` | `QuietLatest` | the same, and no times to live |
| | `LFSIsMap` | `Linearizable`: `LFS` implements `KVCalls` | the same, and no times to live |
| | `PutsAndFetchesAreCareful` | `Spec => CarefulSpec` | goroutines only put and fetch |
| `RegionGCProofs` | `TypeCorrect` | `TypeOK` | none |
| | `NeverClosedUnderCollector` | `NotClosedDuringCleanup` | none |
| `ServerProofs` | `TypeCorrect` | `TypeOK` | the disk takes a record whole or not at all, rotations succeed (`ServerAssumption`, on `Faults`) |
| | `AnswersAreHonest` | `HonestAnswers` | the same |
| | `ReadsAreAsWritten` | `ReadsAsWritten` | the same |
| | `OwnRecordsAreRead` | `SameConfigReads` | the same |
| | `ServesTheMap` | `ServesKV`: `Server` implements `KVCalls` | the same, and processes always end by a caught signal, or never do |
| `CommandLineProofs` | `TypeCorrect` | `TypeOK` | none |
| | `ValidatedIsServed`, `FlagsWin` | `ServesValidated`, `CommandLineWins` | none |
| | `ChildReadsTheRest`, `ChainGetsShorter` | `DaemonKeepsTheRest`, `ChainShrinks` | none |

No set of hypotheses can be dropped: section 3 has violations without them.

**Store.** `IndexSound` is not inductive: a put could index a position where
another record starts, and `OpenFS` could rebuild an index over overlapping
records. What makes it so is the shape of the files (`Shape`): records of a region
neither overlap nor pass the end of the file, no file that is not there holds one,
while the process runs the active file is the newest and `offset` its end. `Shape` is preserved
because a put appends at the end, and because a rotation or a start takes an id no
file has. `Sound` adds that the entries of both indexes lead to records; a
record, once written, stays, so entries go on reading back, and the scan builds
entries from records it has read. For `LatestWins` a third part (`Recoverable`)
says what the files alone are worth while the process is down: the index file, if that
is what the next start will use, or the scan of the regions, agrees with the last
record of every inode number. That part is what fails when exits are mixed.
Lemmas about `IsLast`, `Replayed` and `CrashRecoveryAllIndex` say that the record
just appended is the last one in the order of replay, and that a scan where
nothing has expired ends at the last record.

`ImplementsMap` maps each step of `Store` to one of `KV`. A put or a delete changes the
item of one inode number (`AppendMaps`): its record starts where no other does, so the
other entries go on leading to what they led to. A rotation, an exit and a start have
to leave the map as it is. After `CloseFS` the next start would read the index that was
in memory; after a crash it would scan, and the scan gives the same index because both
agree with the last record of every inode number (`LatestIsOne`). That there is such a
record (`HasLast`) is one more invariant. While the process is down time passes without
the scan giving another index (`ScanIgnoresClock`), because nothing expires where it crashes.

**Index reader.** Files of any size, with the invariant `IInv`: `TypeOK`, `InOrder` (entries
read = entries in the channel + entries indexed), `Undamaged` (what was read is not the
damaged entry), `Reader` (how much the producer has sent at each of its steps) and `Ends`
(which goroutine has closed or sent what, so an error is seen before success can be reported).

**Concurrent calls.** `Typed` is `TypeOK` with what makes it inductive: an update has a pointer
also between its dereferences, and a goroutine that judges a version has fetched.
`OneWinnerPerVersion` needs `WinsBehind`: the version of an `INode` is beyond every version that
won on it, which the compare-and-swap keeps and no other store disturbs. `IndexWritten`
holds because an `INode` is the entry of one inode number (`OneEntryEach`), an update stores
through the entry of its own key (`OwnEntry`), and what it stores comes from a
record already appended (`CarriesRecord`); it needs no hypothesis, for files only grow.

For careful clients the inductive invariant is `CarefulOK`. In it `LogOK` says that one goroutine at a time is
between its append and the last it has to do with `lfs.offset` or the index (`OneBusy`; a put is kept from it by
`lfs.mu`, a delete and an update, which have released the lock, by the clients), and relates `lfs.offset` and the end of
the active file at each of these labels (`OffsetKnown`), with the record just appended as the last of
all. `EntriesOK` says where every `INode` in use leads: an entry of the index (`EntriesLead`), the pointer of a fetch,
in the index or no longer (`ReadersLead`), and field by field the `INode` an update is storing into, which
is the entry of its inode number and of no fetch (`UpdatersOwn`, `ReadersOwn`, `UpdateIsAlone`). That no put
changes an `INode` that is there, and that records stay where they are, keeps what the others hold.
Without times to live no fetch evicts (`LiveForEver`), and `LatestOK` says that an entry names the
last record of its inode number unless a call is between append and index.

`LFSIsMap` maps each step of `LFS` to one of `KVCalls` or to a stutter. `ItemAt`, what reading at an `INode` returns,
stays the same while files grow, because no two records start at one place (`ItemAtStays`); so the calls of the other
goroutines stay what they are (`OthersCalls`), and so does the map but for the one inode
number a step is about (`MapItemKept`, `OneServed`). What is left is one lemma per step: the lookup of a fetch is `GetNow`
and its read finds what the lookup promised (`FetchShown`), the entry of a put and the append of an update are
`PutNow` (`PutIndexShown`, `AppendsShown`), the removal of an entry is `DeleteNow`, and the field-by-field stores of an
update leave the map alone (`UpdateINodeShown`): until the last of them it has the
record that was appended, after it the `INode` leads there.

**Collectors.** `TypeOK` is inductive: it says who holds `lfs.mu` from where the collectors and the
writers are, for any number of both, and `NotClosedDuringCleanup` follows from it, because `CloseFS` takes the
lock.

**Server.** The invariant `IInv` has four parts. `ProcessInv`: from `SetEncryptor` on the transformer is the
configured one. `LogInv`: a record that is no tombstone is the encoding of its contents under
some configuration. `IndexInv`: index and index file lead to records of their keys.
`RequestInv`: a call that has its answer agrees with the log (`Truthful`), which stays true as
the log grows. The codec comes in by two lemmas, `DecodeInvertsEncode` and
`DecodedIsEncoded`: a document that comes out of `Decode` is the one that went into `Encode`,
whatever the two configurations were; the second is what rules out that a wrong key yields another value.
For the refinement a further invariant (`Kept`) says that
what the next process will start from, the index file or else a scan of the log, is the index.
A scan after a write finds what the write set (`ReplayAppended`), so `Kept` fails only when an index file
is out of date: that is the hypothesis `EndsOneWay`. Each step of `Server` is then mapped:
steps of the process to a stutter or to `Stop`, a request to `Begin`, a call of the store to
`PutNow`, `DeleteNow`, `GetNow` or `Fail`, an answer to `End`.

**Start-up.** `Settled` (of `CommandLineProofs`) says that from `init` to the server the settings are those that file and flags
give, validated, and that the server was given them. How flags are parsed does not matter for
that: `ValidatedIsServed` and `FlagsWin` hold whatever `Parse` returns, and rest on what validators, `New` and
`SetEncryptor` accept and on the order of the overlays (`OverriddenIs`). `FlagsWin` says of every setting where it comes
from: its flag, else the file, else the built-in value; for the password the flag, else a random one; for debug the file or the switch.

The other three are about what `TrimDaemon`, `SplitArgs` and `Parse` compute, for argument lists of any length.
These are recursive functions, so their values are known only once a function with the
recursion's equation is shown to exist (`Recursion`, `TrimDaemonType`, `SplitFromIs`, `ParseIs`), which takes induction.
The library's induction theorems have a predicate as a parameter, which the provers cannot
instantiate; `NatSet` says the same of a set of numbers and follows from `LeastNat`, that is from
the well-foundedness of `<`. `SplitParsesAlike` then goes through the arguments from the last to the first: at the place
where the pieces of an argument begin (`Kept`: what the loop has appended stays there) the
parser finds in the child's list what it finds at the argument in the parent's, because
`-option=value` and `-option` followed by `value` set the same flag and are used up together.
`ChainGetsShorter` needs `TypeCorrect`: no argument of a child has "=", so splitting adds none to
the one that is dropped (`SplitShorter`). It is the safety half of `DaemonChainEnds`.

Only model-checked: liveness (`Returns`, `Answered`, `ShutdownEnds`, `DaemonChainEnds`, `Reopens`, the
liveness of `RegionGC`), which needs `ENABLED` and fairness. Every safety property of a passing run has
its theorem.

## 5. What is not modelled

* A crash is the end of the process: what `write` accepted is in the file. What an
  operating system loses when it crashes itself, and `fsync`, are left out.
* What the Go runtime does after a data race on the map of regions: the lookup is
  taken to come before or after the write.
* `BatchFetchSegments` and `KeysCount`: they change no state.
* Two keys with one hash as a disagreement between keys: properties of the store are about
  inode numbers, and `Server` takes keys for inode numbers. A fetch does not compare the key
  of the record it reads.
* A second `StopRegionGC` before the collector has reset the state, which panics: excluded by
  the guard of the action. Everything after the lock in a migration: it is never reached.
* The width of integers: positions are 64 bits wide in a file of at most a few
  gigabytes; the overflow of a time to live (`src/vfs/segment.go:49`) is listed as a
  hazard.
* `Server` has no times to live, no rotation apart from the put it belongs to, no record cut short, no rotation that fails
  and no overlapping calls of the store: `Store` and `LFS`
  have. That garbage from a wrong key is a valid document by chance is left out.
* The string matching of the white list, the bodies of answers, JSON and YAML syntax, saving
  and reloading of a configuration (the server does neither).
* Value types: the server encodes and decodes them and calls none of their methods.
  Logging and file helpers: output and paths.

## 6. Plan

Done: `Regions`, `KV`, `Store`, `StoreKV`, `StoreProofs`, `LFS`, `RegionGC`,
`IndexReader`, `IndexReaderProofs`, then disk faults in `LFS`, several collectors in `RegionGC`,
`LFSProofs`, `StoreKVProofs`, `RegionGCProofs`, `Codec`, `Server`, `KVCalls`, `ServerKV`, `ServerProofs`, `CommandLine`, `CommandLineProofs`,
`LFSKV`, `LFSKVProofs`: the map the
store promises, its files and restarts first, then calls that overlap, then the
goroutines beside them, then the server around the store.

Next: the value types: the sorted list of `ZSet`, the bounds of `List`, numbers; times to live as 64-bit numbers.
To prove: `QuietLatest` and `Linearizable` with times to live, for clients whose fetches
do not evict an entry while another call on its inode number is under way.
