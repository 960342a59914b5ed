--------------------------- MODULE RegionGCProofs ---------------------------
(***************************************************************************)
(* The safety properties of RegionGC, for any number of writers and of     *)
(* collectors: TypeOK, which says who holds lfs.mu, is inductive.          *)
(***************************************************************************)
EXTENDS RegionGC, TLAPS

LEMMA InitTypeOK == Init => TypeOK
<1> SUFFICES ASSUME Init PROVE TypeOK
  OBVIOUS
<1>1. MaxStarts \in Nat /\ \A n \in Collectors : n > 0 /\ NoOne # n
  BY RegionGCAssumption DEF Collectors
<1>2. \A w \in Writers : NoOne # w
  BY RegionGCAssumption
<1> QED
  BY <1>1, <1>2 DEF Init, TypeOK, Collectors, Scanning, Dirty

\* A collector moves from one label to another, and takes or returns lfs.mu.
LEMMA CollectTypeOK ==
    ASSUME TypeOK, NEW n \in Collectors, Collect(n)
    PROVE  TypeOK'
<1>1. /\ MaxStarts \in Nat /\ n \in Nat /\ n >= 1
      /\ n \notin Writers /\ n # NoOne
  BY RegionGCAssumption DEF Collectors
<1>2. \A w \in Writers : w # NoOne /\ w \notin Collectors
  BY RegionGCAssumption
<1>3. \A m \in Collectors : m # NoOne
  BY RegionGCAssumption
<1> USE <1>1, <1>2, <1>3
<1>a. gc[n] # "none" => n <= starts
  BY DEF TypeOK
<1>4. CASE Select(n)
  BY <1>4, <1>a DEF TypeOK, Select, Goto, Scanning, Collectors, Dirty, others
<1>5. CASE Reset(n)
  BY <1>5, <1>a DEF TypeOK, Reset, Goto, Scanning, Collectors, Dirty, others
<1>6. CASE ReadRecord(n)
  <2>1. CASE NextDirtyRegion(n)
    <3>1. CASE ReturnFromCleanup(n)
      BY <1>6, <2>1, <3>1, <1>a DEF TypeOK, ReadRecord, ReturnFromCleanup, Goto, Scanning, others
    <3>2. CASE dirty[n] # 4 /\ dirty' = [dirty EXCEPT ![n] = @ + 1] /\ UNCHANGED <<gc, mu>>
      <4>1. dirty' \in [Collectors -> Dirty]
        BY <3>2 DEF TypeOK, Dirty
      <4> QED BY <1>6, <3>2, <4>1 DEF TypeOK, ReadRecord, Scanning, others
    <3> QED BY <2>1, <3>1, <3>2 DEF NextDirtyRegion
  <2>2. CASE ReturnFromCleanup(n)
    BY <1>6, <2>2, <1>a DEF TypeOK, ReadRecord, ReturnFromCleanup, Goto, Scanning, others
  <2>3. CASE Goto(n, "lookup") /\ UNCHANGED <<dirty, mu>>
    BY <1>6, <2>3, <1>a DEF TypeOK, ReadRecord, Goto, Scanning, others
  <2> QED BY <1>6, <2>1, <2>2, <2>3 DEF ReadRecord
<1>7. CASE LookupRecord(n)
  BY <1>7, <1>a DEF TypeOK, LookupRecord, Goto, Scanning, others
<1>8. CASE EndCleanup(n)
  BY <1>8, <1>a DEF TypeOK, EndCleanup, Goto, Scanning, Collectors, others
<1>9. CASE ReceiveDone(n)
  BY <1>9, <1>a DEF TypeOK, ReceiveDone, Goto, Scanning, others
<1>10. CASE SeesInactive(n)
  BY <1>10, <1>a DEF TypeOK, SeesInactive, Goto, Scanning, others
<1>11. CASE Tick(n)
  BY <1>11, <1>a DEF TypeOK, Tick, Goto, Scanning, others
<1>12. CASE BeginCleanup(n)
  <2>1. CASE mu' = n /\ Goto(n, "read") /\ dirty' = [dirty EXCEPT ![n] = 1]
    <3>1. dirty' \in [Collectors -> Dirty]
      BY <2>1 DEF TypeOK, Dirty
    <3> QED BY <1>12, <2>1, <3>1, <1>a DEF TypeOK, BeginCleanup, Goto, Scanning, Collectors, others
  <2>2. CASE Goto(n, "returned") /\ UNCHANGED <<mu, dirty>>
    BY <1>12, <2>2, <1>a DEF TypeOK, BeginCleanup, Goto, Scanning, Collectors, others
  <2> QED BY <1>12, <2>1, <2>2 DEF BeginCleanup
<1> QED
  BY <1>4, <1>5, <1>6, <1>7, <1>8, <1>9, <1>10, <1>11, <1>12 DEF Collect, GoesOn

LEMMA WriterTypeOK ==
    ASSUME TypeOK, NEW w \in Writers, WriterCalls(w) \/ WriterLocks(w) \/ WriterReturns(w)
    PROVE  TypeOK'
<1>1. w # NoOne /\ w \notin Collectors /\ \A n \in Collectors : n # NoOne
  BY RegionGCAssumption
<1>2. \A v \in Writers : v # NoOne
  BY RegionGCAssumption
<1>3. CASE WriterCalls(w)
  BY <1>1, <1>3 DEF TypeOK, WriterCalls, collectorVars
<1>4. CASE WriterLocks(w)
  BY <1>1, <1>2, <1>4 DEF TypeOK, WriterLocks, collectorVars
<1>5. CASE WriterReturns(w)
  BY <1>1, <1>2, <1>5 DEF TypeOK, WriterReturns, collectorVars
<1> QED BY <1>3, <1>4, <1>5

LEMMA StepTypeOK == TypeOK /\ [Next]_vars => TypeOK'
<1> SUFFICES ASSUME TypeOK, [Next]_vars PROVE TypeOK'
  OBVIOUS
<1>0. MaxStarts \in Nat
  BY RegionGCAssumption
<1>1. CASE StartRegionGC
  <2>1. starts' \in Collectors /\ starts' \in 0 .. MaxStarts /\ starts' = starts + 1
    BY <1>0, <1>1 DEF TypeOK, StartRegionGC, Collectors
  <2>2. gc[starts'] = "none" /\ gc' = [gc EXCEPT ![starts'] = "loop"]
    BY <1>1, <2>1 DEF TypeOK, StartRegionGC, Goto, Collectors
  <2>3. \A n \in Collectors : gc'[n] # "none" <=> n <= starts'
    BY <1>0, <2>1, <2>2 DEF TypeOK, Collectors
  <2>4. \A n \in Collectors : mu = n <=> gc'[n] \in Scanning
    BY <2>2 DEF TypeOK, Scanning
  <2>5. starts' = 1 => gc'[1] = "loop" /\ gcstate = "INIT"
    BY <1>1, <2>1, <2>2 DEF StartRegionGC, TypeOK
  <2>6. gc' \in [Collectors ->
                {"none", "loop", "select", "wait", "reset", "done", "lock", "returned"} \cup Scanning]
    BY <2>2 DEF TypeOK
  <2> QED
    BY <1>1, <2>1, <2>3, <2>4, <2>5, <2>6 DEF TypeOK, StartRegionGC, Scanning, others
<1>2. CASE StopRegionGC
  BY <1>2 DEF TypeOK, StopRegionGC, collectorVars, others
<1>3. ASSUME NEW n \in Collectors, Collect(n) PROVE TypeOK'
  BY <1>3, CollectTypeOK
<1>4. ASSUME NEW w \in Writers, WriterCalls(w) \/ WriterLocks(w) \/ WriterReturns(w)
      PROVE  TypeOK'
  BY <1>4, WriterTypeOK
<1>5. CASE CloseFSCalled
  BY <1>5 DEF TypeOK, CloseFSCalled, collectorVars
<1>6. CASE CloseFS
  BY <1>6 DEF TypeOK, CloseFS, collectorVars
<1>7. CASE UNCHANGED vars
  BY <1>7 DEF TypeOK, vars, collectorVars, others
<1> QED BY <1>1, <1>2, <1>3, <1>4, <1>5, <1>6, <1>7 DEF Next

\* lfs.mu has one holder, which is where it is needed, and GCState is right while
\* there is one collector, for any number of writers and regions.
THEOREM TypeCorrect == Spec => []TypeOK
<1> QED BY InitTypeOK, StepTypeOK, PTL DEF Spec

\* CloseFS closes no file under a collector, however many collectors there are.
THEOREM NeverClosedUnderCollector == Spec => NotClosedDuringCleanup
<1>1. TypeOK /\ [Next]_vars
        => [closer' = "closed" /\ closer # "closed"
              => \A n \in Collectors : gc[n] \notin Scanning]_vars
  <2> SUFFICES ASSUME TypeOK, [Next]_vars, closer' = "closed", closer # "closed",
                      NEW n \in Collectors
               PROVE  gc[n] \notin Scanning
    OBVIOUS
  <2>1. CloseFS
    BY DEF Next, vars, StartRegionGC, StopRegionGC, Collect, GoesOn, Select, Reset,
           ReadRecord, LookupRecord, EndCleanup, ReceiveDone, SeesInactive, Tick,
           BeginCleanup, WriterCalls, WriterLocks, WriterReturns, CloseFSCalled, others
  <2>2. mu # n
    BY <2>1, RegionGCAssumption DEF CloseFS
  <2> QED BY <2>2 DEF TypeOK
<1> QED BY <1>1, TypeCorrect, PTL DEF Spec, NotClosedDuringCleanup

=============================================================================
