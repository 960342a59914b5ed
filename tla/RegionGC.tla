------------------------------ MODULE RegionGC ------------------------------
(***************************************************************************)
(* The garbage collector of the regions (vfs/lfs.go): the goroutines that  *)
(* StartRegionGC starts, cleanupDirtyRegion, StopRegionGC, and what else   *)
(* takes lfs.mu meanwhile, goroutines that put or delete and CloseFS.      *)
(*                                                                         *)
(* StartRegionGC looks at gcstate alone, and may be called again before    *)
(* the first collection: collectors are numbered, and so are the channels, *)
(* of which lfs.gcdone is always the newest.                               *)
(*                                                                         *)
(* Of a dirty region only the first record matters: the scan goes on to    *)
(* the next one only after it has migrated this one, and it does not get   *)
(* through a migration, which locks the lfs.mu it already holds.  The      *)
(* statements after that Lock are therefore not modelled.                  *)
(***************************************************************************)
EXTENDS Naturals

CONSTANTS
    Writers,     \* goroutines that append to the active region
    Closer,      \* the goroutine that calls CloseFS
    NoOne,       \* lfs.mu is free
    NumRegions,  \* len(lfs.regions)
    Heads,       \* kinds of first record the dirty regions may have
    MaxStarts    \* collectors ever started (bound)

Collectors == 1 .. MaxStarts

ASSUME RegionGCAssumption ==
    /\ NumRegions \in Nat
    /\ Heads \subseteq {"none", "unreadable", "missing", "stale", "live"}
    /\ MaxStarts \in Nat
    /\ Closer \notin Collectors
    /\ Writers \cap (Collectors \cup {Closer}) = {}
    /\ NoOne \notin Writers \cup Collectors \cup {Closer}

\* "none": the region holds no record; "unreadable": readSegment fails on it;
\* "missing": its inode number has no entry; "stale": it is a tombstone or not
\* the record the entry was made for; "live": isValid holds of it.
VARIABLES
    head,     \* the first record of each of the four oldest regions
    gcstate,
    starts,   \* StartRegionGC got through so often; number of lfs.gcdone
    sent,     \* the channels that hold a value and are closed
    gc,       \* where each collector is
    listens,  \* the channel its select was entered with
    dirty,    \* the dirty region it scans
    mu,       \* holder of lfs.mu
    writer,   \* where each writer is
    closer    \* where CloseFS is

collectorVars == <<gc, listens, dirty>>
others == <<writer, closer>>
vars == <<head, gcstate, starts, sent, collectorVars, mu, others>>

Dirty == 1 .. 4

Init ==
    /\ head \in [Dirty -> Heads]
    /\ gcstate = "INIT"
    /\ starts = 0
    /\ sent = {}
    /\ gc = [n \in Collectors |-> "none"]
    /\ listens = [n \in Collectors |-> 0]
    /\ dirty = [n \in Collectors |-> 1]
    /\ mu = NoOne
    /\ writer = [w \in Writers |-> "idle"]
    /\ closer = "open"

Goto(n, label) == gc' = [gc EXCEPT ![n] = label]

-----------------------------------------------------------------------------

StartRegionGC ==
    /\ gcstate = "INIT"
    /\ closer = "open"
    /\ starts < MaxStarts
    /\ starts' = starts + 1
    /\ Goto(starts + 1, "loop")
    /\ UNCHANGED <<head, gcstate, sent, listens, dirty, mu, others>>

\* It does nothing in state INIT.  A second call before the collector has reset
\* the state would send on the closed channel and panic; that is left out.
StopRegionGC ==
    /\ gcstate # "INIT"
    /\ starts \notin sent
    /\ sent' = sent \cup {starts}
    /\ UNCHANGED <<head, gcstate, starts, collectorVars, mu, others>>

\* The select reads lfs.gcdone when it is entered.
Select(n) ==
    /\ gc[n] = "loop"
    /\ listens' = [listens EXCEPT ![n] = starts]
    /\ Goto(n, "select")
    /\ UNCHANGED <<head, gcstate, starts, sent, dirty, mu, others>>

\* Mutant: a goroutine that is told to stop goes on.
ReceiveDoneIgnored(n) ==
    /\ gc[n] = "select" /\ listens[n] \in sent
    /\ Goto(n, "loop")
    /\ UNCHANGED <<head, gcstate, starts, sent, listens, dirty, mu, others>>

\* The value, or what a closed channel yields.
ReceiveDone(n) ==
    /\ gc[n] = "select" /\ listens[n] \in sent
    /\ Goto(n, "wait")
    /\ UNCHANGED <<head, gcstate, starts, sent, listens, dirty, mu, others>>

\* The goroutine waits for another one's collection and then ends.
SeesInactive(n) ==
    /\ gc[n] = "wait" /\ gcstate # "ACTIVE"
    /\ Goto(n, "reset")
    /\ UNCHANGED <<head, gcstate, starts, sent, listens, dirty, mu, others>>

Reset(n) ==
    /\ gc[n] = "reset"
    /\ gcstate' = "INIT"
    /\ Goto(n, "done")
    /\ UNCHANGED <<head, starts, sent, listens, dirty, mu, others>>

\* The ticker fires; the cycle is skipped while another goroutine collects.
Tick(n) ==
    /\ gc[n] = "select"
    /\ Goto(n, IF gcstate = "ACTIVE" THEN "loop" ELSE "lock")
    /\ UNCHANGED <<head, gcstate, starts, sent, listens, dirty, mu, others>>

\* Mutant: an early return keeps the lock.
ReturnFromCleanupLocked(n) ==
    /\ Goto(n, "returned")
    /\ UNCHANGED <<dirty, mu>>

\* cleanupDirtyRegion returns: lfs.mu is released.
ReturnFromCleanup(n) ==
    /\ Goto(n, "returned")
    /\ mu' = NoOne
    /\ UNCHANGED dirty

\* Mutant: the cleanup does not lock lfs.mu.
BeginCleanupUnlocked(n) ==
    /\ gc[n] = "lock" /\ NumRegions >= 5
    /\ gcstate' = "ACTIVE"
    /\ Goto(n, "read") /\ dirty' = [dirty EXCEPT ![n] = 1]
    /\ UNCHANGED <<head, starts, sent, listens, mu, others>>

\* cleanupDirtyRegion: fewer than five regions are left alone.
BeginCleanup(n) ==
    /\ gc[n] = "lock" /\ mu = NoOne
    /\ gcstate' = "ACTIVE"
    /\ IF NumRegions >= 5
       THEN mu' = n /\ Goto(n, "read") /\ dirty' = [dirty EXCEPT ![n] = 1]
       ELSE Goto(n, "returned") /\ UNCHANGED <<mu, dirty>>
    /\ UNCHANGED <<head, starts, sent, listens, others>>

\* Mutant: an empty region is read again.
NextDirtyRegionStuck(n) ==
    /\ Goto(n, "lookup")
    /\ UNCHANGED <<dirty, mu>>

NextDirtyRegion(n) ==
    IF dirty[n] = 4 THEN ReturnFromCleanup(n)
    ELSE dirty' = [dirty EXCEPT ![n] = @ + 1] /\ UNCHANGED <<gc, mu>>

\* readSegment of the first record; the files are closed once CloseFS is through.
ReadRecord(n) ==
    /\ gc[n] = "read"
    /\ LET first == IF closer = "closed" THEN "unreadable" ELSE head[dirty[n]]
       IN  \/ first = "none" /\ NextDirtyRegion(n)
           \/ first = "unreadable" /\ ReturnFromCleanup(n)
           \/ /\ first \in {"missing", "stale", "live"}
              /\ Goto(n, "lookup")
              /\ UNCHANGED <<dirty, mu>>
    /\ UNCHANGED <<head, gcstate, starts, sent, listens, others>>

\* A record that is not live is skipped without advancing the read offset; to
\* migrate a live one the collector waits for lfs.mu, which it holds.
LookupRecord(n) ==
    /\ gc[n] = "lookup"
    /\ Goto(n, IF head[dirty[n]] = "live" THEN "relock" ELSE "read")
    /\ UNCHANGED <<head, gcstate, starts, sent, listens, dirty, mu, others>>

EndCleanup(n) ==
    /\ gc[n] = "returned"
    /\ gcstate' = "INACTIVE"
    /\ Goto(n, "loop")
    /\ UNCHANGED <<head, starts, sent, listens, dirty, mu, others>>

-----------------------------------------------------------------------------

WriterCalls(w) ==
    /\ writer[w] = "idle" /\ closer = "open"
    /\ writer' = [writer EXCEPT ![w] = "waiting"]
    /\ UNCHANGED <<head, gcstate, starts, sent, collectorVars, mu, closer>>

WriterLocks(w) ==
    /\ writer[w] = "waiting" /\ mu = NoOne
    /\ mu' = w
    /\ writer' = [writer EXCEPT ![w] = "writing"]
    /\ UNCHANGED <<head, gcstate, starts, sent, collectorVars, closer>>

WriterReturns(w) ==
    /\ writer[w] = "writing"
    /\ mu' = NoOne
    /\ writer' = [writer EXCEPT ![w] = "idle"]
    /\ UNCHANGED <<head, gcstate, starts, sent, collectorVars, closer>>

\* HttpServer.Shutdown calls CloseFS when no request is left.
CloseFSCalled ==
    /\ closer = "open"
    /\ \A w \in Writers : writer[w] = "idle"
    /\ closer' = "waiting"
    /\ UNCHANGED <<head, gcstate, starts, sent, collectorVars, mu, writer>>

\* Mutant: the files are closed without lfs.mu.
CloseFSUnlocked ==
    /\ closer = "waiting"
    /\ closer' = "closed"
    /\ UNCHANGED <<head, gcstate, starts, sent, collectorVars, mu, writer>>

\* Nothing else looks at what CloseFS does under lfs.mu.
CloseFS ==
    /\ closer = "waiting" /\ mu = NoOne
    /\ closer' = "closed"
    /\ UNCHANGED <<head, gcstate, starts, sent, collectorVars, mu, writer>>

-----------------------------------------------------------------------------

\* What a collector does without waiting for anyone.
GoesOn(n) ==
    \/ Select(n) \/ Reset(n) \/ ReadRecord(n) \/ LookupRecord(n) \/ EndCleanup(n)

Collect(n) ==
    \/ GoesOn(n) \/ ReceiveDone(n) \/ SeesInactive(n) \/ Tick(n) \/ BeginCleanup(n)

Next ==
    \/ StartRegionGC \/ StopRegionGC
    \/ \E n \in Collectors : Collect(n)
    \/ \E w \in Writers : WriterCalls(w) \/ WriterLocks(w) \/ WriterReturns(w)
    \/ CloseFSCalled \/ CloseFS

Spec == Init /\ [][Next]_vars

\* The ticker goes on; a goroutine that can go on does; a select does not pass
\* over a ready channel for ever, nor a mutex over a waiter; one that looks again
\* and again whether the state is ACTIVE hits an instant when it is not.
Fairness ==
    /\ \A n \in Collectors :
          /\ WF_vars(GoesOn(n)) /\ WF_vars(Tick(n))
          /\ SF_vars(ReceiveDone(n)) /\ SF_vars(SeesInactive(n)) /\ SF_vars(BeginCleanup(n))
    /\ \A w \in Writers : SF_vars(WriterLocks(w)) /\ WF_vars(WriterReturns(w))
    /\ SF_vars(CloseFS)

FairSpec == Spec /\ Fairness

-----------------------------------------------------------------------------
(***************************************************************************)
(* Properties.                                                             *)
(***************************************************************************)

\* Where a collector holds lfs.mu.
Scanning == {"read", "lookup", "relock"}

\* Every variable has its type; lfs.mu is held by whoever is where it is needed,
\* one collector at a time, and GCState reports ACTIVE exactly while a cleanup is
\* under way as long as there is one collector.
TypeOK ==
    /\ head \in [Dirty -> Heads] /\ dirty \in [Collectors -> Dirty]
    /\ gcstate \in {"INIT", "ACTIVE", "INACTIVE"}
    /\ starts \in 0 .. MaxStarts /\ sent \subseteq 0 .. MaxStarts
    /\ gc \in [Collectors ->
                {"none", "loop", "select", "wait", "reset", "done", "lock", "returned"} \cup Scanning]
    /\ writer \in [Writers -> {"idle", "waiting", "writing"}]
    /\ listens \in [Collectors -> 0 .. MaxStarts]
    /\ closer \in {"open", "waiting", "closed"}
    /\ \A n \in Collectors : gc[n] # "none" <=> n <= starts
    /\ \A w \in Writers : writer[w] = "writing" <=> mu = w
    /\ \A n \in Collectors : mu = n <=> gc[n] \in Scanning
    /\ starts = 1 => (gcstate = "ACTIVE" <=> gc[1] \in Scanning \cup {"returned"})

\* The files are never closed in the middle of a cleanup (the comment of CloseFS
\* asks for it; lfs.mu provides it).
NotClosedDuringCleanup ==
    [][closer' = "closed" /\ closer # "closed"
          => \A n \in Collectors : gc[n] \notin Scanning]_vars

Cleaning(n) == gc[n] \in Scanning \cup {"returned"}

\* A cleanup that has begun ends.
CleanupEnds == \A n \in Collectors : Cleaning(n) ~> ~ Cleaning(n)

\* The collectors meet no record they can look up: before each region with one
\* there is a region that makes them return.
NothingToLookUp ==
    \A d \in Dirty : head[d] \in {"missing", "stale", "live"} =>
        \E c \in Dirty : c < d /\ head[c] = "unreadable"

\* A cleanup that meets no record it can look up ends.
EmptyCleanupEnds ==
    \A n \in Collectors : NothingToLookUp /\ Cleaning(n) ~> ~ Cleaning(n)

\* With such regions a put or delete that waits for lfs.mu gets through, and so
\* does CloseFS, however often collections run.
OthersGetThrough ==
    /\ \A w \in Writers :
          NothingToLookUp /\ writer[w] = "waiting" ~> writer[w] = "idle"
    /\ NothingToLookUp /\ closer = "waiting" ~> closer = "closed"

\* With such regions one StopRegionGC ends all collectors, the one that was
\* started by mistake and listens to an older channel too, unless another one is
\* started meanwhile.
DoneEnds ==
    \A c \in Collectors :
        NothingToLookUp /\ c \in sent
            ~> starts > c \/ \A n \in Collectors : gc[n] \in {"none", "done"}

=============================================================================
