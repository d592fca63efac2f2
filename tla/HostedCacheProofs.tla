------------------------- MODULE HostedCacheProofs -------------------------
(* Theorems about HostedCache, for every number of cycles, products, hours, *)
(* processes and requests: first what a process finds when it reads, and    *)
(* that the results refine ResultStore; then that the two newest complete   *)
(* cycles are safe and three cycles at most are on the disk.                *)
EXTENDS HostedCache, TLAPS, FiniteSetTheorems

-----------------------------------------------------------------------------
(* Type correctness.                                                        *)

\* Each result has two data files, which are different.
LEMMA FileNames ==
  ASSUME NEW r \in Requests
  PROVE  Grib(r) \in Files /\ Part(r) \in Files
  BY DEF Grib, Part, Files

\* Writing, touching, emptying or renaming a file leaves an order of files.
LEMMA TimesTyped ==
  ASSUME mtimes \subseteq Files \X Files, NEW f \in Files, NEW g \in Files
  PROVE  /\ Others(f) \subseteq Files \X Files
         /\ Stamped(f) \subseteq Files \X Files
         /\ Renamed(f, g) \subseteq Files \X Files
<1>1. Others(f) \subseteq Files \X Files /\ Others(g) \subseteq Files \X Files
  BY DEF Others
<1>2. Filled \subseteq Files
  BY DEF Filled
<1>3. Stamped(f) \subseteq Files \X Files
  BY <1>1, <1>2 DEF Stamped
<1>4. Renamed(f, g) \subseteq Files \X Files
  BY <1>1 DEF Renamed
<1> QED
  BY <1>1, <1>3, <1>4

\* Every operation of the ingester starts and ends in a typed state.
LEMMA LeaveType ==
  ASSUME TypeOK, NEW i \in Ingesters, NEW how \in {"ok", "problem", "error"},
         Leave(i, how)
  PROVE  /\ ing' \in [Ingesters -> IngesterType]
         /\ pass' \in PassType
<1>1. Idle \in IngesterType
  BY CacheAssumption DEF Idle, IngesterType, IngesterPC, Cycles
<1>2. NoPass \in PassType
  BY CacheAssumption DEF NoPass, Asleep, Cycles, PassType
<1>3. ing' \in [Ingesters -> IngesterType]
  BY <1>1 DEF TypeOK, Leave, IngesterType
<1>4. pass' \in PassType
  BY <1>2 DEF TypeOK, Leave, PassType
<1> QED
  BY <1>3, <1>4

LEMMA BeginType ==
  ASSUME TypeOK, NEW i \in Ingesters, NEW c \in Cycles,
         NEW m \in {"ingest", "advance"}, Begin(i, c, m)
  PROVE  ing' \in [Ingesters -> IngesterType]
<1> DEFINE new == [pc |-> "prune", cycle |-> c, mode |-> m,
                   todo |-> runs \ (Newest2(marker) \cup {c}),
                   plan |-> {}, last |-> FALSE]
<1>1. new \in IngesterType
  BY DEF TypeOK, IngesterType, IngesterPC
<1> QED
  BY <1>1 DEF TypeOK, Begin

\* One field of one process changes and the table keeps its type.
LEMMA IngesterPcType ==
  ASSUME NEW tbl \in [Ingesters -> IngesterType], NEW i \in Ingesters,
         NEW p \in IngesterPC
  PROVE  [tbl EXCEPT ![i].pc = p] \in [Ingesters -> IngesterType]
<1>1. [tbl[i] EXCEPT !.pc = p] \in IngesterType
  BY DEF IngesterType
<1> QED
  BY <1>1

LEMMA IngesterTodoType ==
  ASSUME NEW tbl \in [Ingesters -> IngesterType], NEW i \in Ingesters,
         NEW t \in SUBSET Cycles
  PROVE  [tbl EXCEPT ![i].todo = t] \in [Ingesters -> IngesterType]
<1>1. [tbl[i] EXCEPT !.todo = t] \in IngesterType
  BY DEF IngesterType
<1> QED
  BY <1>1

LEMMA IngesterPlanType ==
  ASSUME NEW tbl \in [Ingesters -> IngesterType], NEW i \in Ingesters,
         NEW f \in SUBSET Grid
  PROVE  [tbl EXCEPT ![i].plan = f] \in [Ingesters -> IngesterType]
<1>1. [tbl[i] EXCEPT !.plan = f] \in IngesterType
  BY DEF IngesterType
<1> QED
  BY <1>1

LEMMA JobPcType ==
  ASSUME NEW tbl \in [Workers -> JobType], NEW w \in Workers, NEW p \in WorkerPC
  PROVE  [tbl EXCEPT ![w].pc = p] \in [Workers -> JobType]
<1>1. [tbl[w] EXCEPT !.pc = p] \in JobType
  BY DEF JobType
<1> QED
  BY <1>1

LEMMA NoJobType == NoJob \in JobType
  BY CacheAssumption DEF NoJob, JobType, WorkerPC

\* Nothing the ingester, the workers or a crash do leaves the state space.
LEMMA InitType == Init => TypeOK
<1> SUFFICES ASSUME Init PROVE TypeOK
  OBVIOUS
<1>1. 1 \in Cycles
  BY CacheAssumption DEF Cycles
<1>2. ing \in [Ingesters -> IngesterType]
  BY <1>1 DEF Init, Idle, IngesterType, IngesterPC
<1>3. pass \in PassType
  BY <1>1 DEF Init, NoPass, Asleep, PassType
<1>4. job \in [Workers -> JobType]
  BY NoJobType DEF Init
<1>5. sweeper \in SweeperType
  BY DEF Init, NoSweep, SweeperType
<1> QED
  BY <1>1, <1>2, <1>3, <1>4, <1>5 DEF Init, TypeOK

\* Every step of Next stays in the state space.
LEMMA NextType == TypeOK /\ [Next]_vars => TypeOK'
<1> SUFFICES ASSUME TypeOK, [Next]_vars PROVE TypeOK'
  OBVIOUS
<1>1. CASE UNCHANGED vars
  BY <1>1 DEF TypeOK, vars, disk, results
<1>2. CASE Tick
  BY <1>2, CacheAssumption DEF Tick, TypeOK, Cycles, disk, results
<1>3. CASE WatchWake
  <2>1. ing' \in [Ingesters -> IngesterType]
    BY <1>3, BeginType, CacheAssumption DEF WatchWake, TypeOK
  <2>2. pass' \in PassType
    BY <1>3 DEF WatchWake, TypeOK, PassType, Asleep
  <2> QED
    BY <1>3, <2>1, <2>2 DEF WatchWake, TypeOK, disk, results
<1>4. CASE WatchCandidate
  <2>1. ing' \in [Ingesters -> IngesterType]
    BY <1>4, BeginType, CacheAssumption DEF WatchCandidate, TypeOK
  <2>2. NoPass \in PassType
    BY CacheAssumption DEF NoPass, PassType, Cycles, Asleep
  <2>3. pass' \in PassType
    <3>1. CASE pass' = NoPass
      BY <2>2, <3>1
    <3>2. CASE pass' = [pass EXCEPT !.next = pass.next + 1] /\ pass.next < Asleep
      <4>1. pass.next + 1 \in 0..Asleep
        BY <3>2 DEF TypeOK, PassType, Asleep
      <4> QED
        BY <3>2, <4>1 DEF TypeOK, PassType
    <3> QED
      BY <1>4, <3>1, <3>2 DEF WatchCandidate
  <2> QED
    BY <1>4, <2>1, <2>3 DEF WatchCandidate, TypeOK, disk, results
<1>5. ASSUME NEW i \in Ingesters, OperatorIngest(i) PROVE TypeOK'
  <2>1. PICK c \in 1..clock : Begin(i, c, "ingest")
    BY <1>5 DEF OperatorIngest
  <2>2. c \in Cycles
    BY CacheAssumption DEF TypeOK, Cycles
  <2>3. ing' \in [Ingesters -> IngesterType]
    BY <2>1, <2>2, BeginType
  <2> QED
    BY <1>5, <2>3 DEF OperatorIngest, TypeOK, disk, results
<1>6. ASSUME NEW i \in Ingesters, IngesterStep(i) PROVE TypeOK'
  <2>1. CASE PruneTake(i)
    <3>1. ing' \in [Ingesters -> IngesterType]
      BY <2>1, IngesterPcType DEF PruneTake, TypeOK, IngesterPC
    <3> QED
      BY <2>1, <3>1 DEF PruneTake, TypeOK, disk, results
  <2>2. CASE PruneSkip(i)
    <3>1. ing[i].todo \in SUBSET Cycles
      BY DEF TypeOK, IngesterType
    <3>2. ing' = [ing EXCEPT ![i].todo = ing[i].todo \ {Victim(i)}]
      BY <2>2, Zenon DEF PruneSkip
    <3>3. ing' \in [Ingesters -> IngesterType]
      BY <3>1, <3>2, IngesterTodoType DEF TypeOK
    <3> QED
      BY <2>2, <3>3 DEF PruneSkip, TypeOK, disk, results
  <2>3. CASE RmtreeEntry(i)
    BY <2>3 DEF RmtreeEntry, TypeOK, disk, results
  <2>4. CASE RmtreeDone(i)
    <3> DEFINE mid == [ing EXCEPT ![i].pc = "prune"]
    <3>1. mid \in [Ingesters -> IngesterType]
      BY IngesterPcType DEF TypeOK, IngesterPC
    <3>2. ing' = [mid EXCEPT ![i].todo = ing[i].todo \ {Victim(i)}]
      BY <2>4 DEF RmtreeDone, TypeOK, IngesterType
    <3> HIDE DEF mid
    <3>3. ing' \in [Ingesters -> IngesterType]
      <4>1. ing[i].todo \in SUBSET Cycles
        BY DEF TypeOK, IngesterType
      <4> QED
        BY <3>1, <3>2, <4>1, IngesterTodoType
    <3> QED
      BY <2>4, <3>3 DEF RmtreeDone, TypeOK, disk, results
  <2>5. CASE PruneDone(i)
    <3>1. ing' \in [Ingesters -> IngesterType]
      BY <2>5, IngesterPcType DEF PruneDone, TypeOK, IngesterPC
    <3> QED
      BY <2>5, <3>1 DEF PruneDone, TypeOK, disk, results
  <2>6. CASE Admit(i)
    <3>1. ing[i].cycle \in Cycles
      BY DEF TypeOK, IngesterType
    <3> DEFINE mid == [ing EXCEPT ![i].pc = "fetch"]
    <3>2. mid \in [Ingesters -> IngesterType]
      BY IngesterPcType DEF TypeOK, IngesterPC
    <3>3. CASE Leave(i, "problem") /\ UNCHANGED runs
      BY <2>6, <3>3, LeaveType DEF Admit, TypeOK, disk, results
    <3>4. CASE ~(Leave(i, "problem") /\ UNCHANGED runs)
      <4>1. ing' = [mid EXCEPT ![i].plan = Grid \ source[ing[i].cycle]]
        BY <2>6, <3>4 DEF Admit, TypeOK, IngesterType
      <4> HIDE DEF mid
      <4>2. ing' \in [Ingesters -> IngesterType]
        BY <3>2, <4>1, IngesterPlanType
      <4> QED
        BY <2>6, <3>1, <3>4, <4>2 DEF Admit, TypeOK, disk, results
    <3> QED
      BY <3>3, <3>4
  <2>7. CASE Download(i)
    <3>1. ing' \in [Ingesters -> IngesterType]
      <4>1. PICK k \in Grid : ing' = [ing EXCEPT ![i].plan = ing[i].plan \ {k}]
        BY <2>7 DEF Download
      <4>2. ing[i].plan \ {k} \in SUBSET Grid
        BY DEF TypeOK, IngesterType
      <4> QED
        BY <4>1, <4>2, IngesterPlanType DEF TypeOK
    <3>2. source' \in [Cycles -> SUBSET Grid]
      BY <2>7 DEF Download, TypeOK, IngesterType
    <3> QED
      BY <2>7, <3>1, <3>2 DEF Download, TypeOK, disk, results
  <2>8. CASE DownloadFails(i)
    <3>1. /\ ing' \in [Ingesters -> IngesterType]
          /\ pass' \in PassType
      <4>1. CASE \E how \in {"problem", "error"} : Leave(i, how)
        BY <4>1, LeaveType
      <4>2. CASE ~\E how \in {"problem", "error"} : Leave(i, how)
        <5>1. PICK k \in Grid :
                /\ ing' = [ing EXCEPT ![i].plan = {f \in ing[i].plan : f[1] # k[1]}]
                /\ pass' = pass
          BY <2>8, <4>2 DEF DownloadFails
        <5>2. {f \in ing[i].plan : f[1] # k[1]} \in SUBSET Grid
          BY DEF TypeOK, IngesterType
        <5> QED
          BY <5>1, <5>2, IngesterPlanType DEF TypeOK
      <4> QED
        BY <4>1, <4>2
    <3> QED
      BY <2>8, <3>1 DEF DownloadFails, TypeOK, disk, results
  <2>9. CASE Finish(i)
    <3>1. marker' \subseteq Cycles
      BY <2>9 DEF Finish, TypeOK, IngesterType
    <3>2. /\ ing' \in [Ingesters -> IngesterType]
          /\ pass' \in PassType
      <4>1. CASE Leave(i, "ok")
        BY <4>1, LeaveType
      <4>2. CASE ~Leave(i, "ok")
        <5> DEFINE mid  == [ing EXCEPT ![i].pc = "prune"]
                   mid2 == [mid EXCEPT ![i].todo = runs \ Newest2(marker')]
        <5>1. /\ ing' = [mid2 EXCEPT ![i].last = TRUE]
              /\ pass' = pass
          BY <2>9, <4>2 DEF Finish, TypeOK, IngesterType
        <5>2. mid \in [Ingesters -> IngesterType]
          BY IngesterPcType DEF TypeOK, IngesterPC
        <5> HIDE DEF mid
        <5>3. mid2 \in [Ingesters -> IngesterType]
          BY <5>2, IngesterTodoType DEF TypeOK
        <5> HIDE DEF mid2
        <5>4. [mid2[i] EXCEPT !.last = TRUE] \in IngesterType
          BY <5>3 DEF IngesterType
        <5> QED
          BY <5>1, <5>3, <5>4 DEF TypeOK
      <4> QED
        BY <4>1, <4>2
    <3> QED
      BY <2>9, <3>1, <3>2 DEF Finish, TypeOK, disk, results
  <2> QED
    BY <1>6, <2>1, <2>2, <2>3, <2>4, <2>5, <2>6, <2>7, <2>8, <2>9
    DEF IngesterStep
<1>7. ASSUME NEW i \in Ingesters, CrashIngester(i) PROVE TypeOK'
  BY <1>7, LeaveType DEF CrashIngester, NoSweep, SweeperType, TypeOK, disk, results
<1>8. ASSUME NEW w \in Workers, Accept(w) PROVE TypeOK'
  BY <1>8 DEF Accept, TypeOK, JobType, WorkerPC, disk, results
<1>9. ASSUME NEW w \in Workers, WorkerStep(w) PROVE TypeOK'
  <2>1. CASE PinCycle(w)
    BY <2>1 DEF PinCycle, TypeOK, JobType, WorkerPC, disk, results
  <2>2. CASE CheckCoverage(w)
    <3>1. job' \in [Workers -> JobType]
      BY <2>2, JobPcType DEF CheckCoverage, TypeOK, WorkerPC
    <3> QED
      BY <2>2, <3>1 DEF CheckCoverage, TypeOK, disk, results
  <2>3. CASE EnterResult(w)
    BY <2>3 DEF EnterResult, TypeOK, JobType, WorkerPC, disk, results
  <2>4. CASE Lookup(w)
    <3>1. job[w].req \in Requests /\ job[w].req.need \subseteq Grid
      BY CacheAssumption DEF TypeOK, JobType
    <3>2. job' \in [Workers -> JobType]
      <4>1. CASE job' = [job EXCEPT ![w].pc = "sweep"]
        BY <4>1, JobPcType DEF TypeOK, WorkerPC
      <4>2. CASE job' = [job EXCEPT ![w].pc = "crop", ![w].todo = job[w].req.need]
        <5> DEFINE mid == [job EXCEPT ![w].pc = "crop"]
        <5>1. mid \in [Workers -> JobType]
          BY JobPcType DEF TypeOK, WorkerPC
        <5>2. job' = [mid EXCEPT ![w].todo = job[w].req.need]
          BY <4>2 DEF TypeOK
        <5> HIDE DEF mid
        <5> QED
          BY <3>1, <5>1, <5>2 DEF JobType
      <4> QED
        BY <2>4, <4>1, <4>2, Zenon DEF Lookup
    <3>3. mtimes' \subseteq Files \X Files /\ part' \in [Requests -> SUBSET Grid]
      BY <2>4, <3>1, FileNames, TimesTyped DEF Lookup, TypeOK
    <3> QED
      BY <2>4, <3>2, <3>3 DEF Lookup, TypeOK, disk, results
  <2>5. CASE Crop(w)
    <3>1. mtimes' \subseteq Files \X Files
      BY <2>5, FileNames, TimesTyped DEF Crop, TypeOK, JobType
    <3> QED
      BY <2>5, <3>1 DEF Crop, TypeOK, JobType, WorkerPC, disk
  <2>6. CASE Publish(w)
    <3>1. mtimes' \subseteq Files \X Files
      BY <2>6, FileNames, TimesTyped DEF Publish, TypeOK, JobType
    <3> QED
      BY <2>6, <3>1 DEF Publish, TypeOK, JobType, WorkerPC, disk
  <2>7. CASE WriteMetadata(w)
    BY <2>7 DEF WriteMetadata, TypeOK, JobType, WorkerPC, disk, results
  <2> QED
    BY <1>9, <2>1, <2>2, <2>3, <2>4, <2>5, <2>6, <2>7 DEF WorkerStep
<1>10. ASSUME NEW w \in Workers, JobFails(w) PROVE TypeOK'
  <2>1. mtimes' \subseteq Files \X Files
    BY <1>10, FileNames, TimesTyped DEF JobFails, TypeOK, JobType
  <2> QED
    BY <1>10, <2>1 DEF JobFails, TypeOK, JobType, WorkerPC, disk
<1>11. CASE CrashService
  BY <1>11, NoJobType DEF CrashService, NoSweep, SweeperType, TypeOK, disk, results
<1>12. ASSUME NEW r \in Readers, ReaderPin(r) \/ ReaderUnpin(r) PROVE TypeOK'
  BY <1>12 DEF ReaderPin, ReaderUnpin, TypeOK, disk, results
<1>13. ASSUME NEW p \in Ingesters \cup Workers, SweepStep(p) PROVE TypeOK'
  <2>1. CASE SweepBegin(p)
    BY <2>1 DEF SweepBegin, SweeperType, TypeOK, disk, results
  <2>2. CASE SweepEnd(p)
    <3>1. ing' \in [Ingesters -> IngesterType] /\ pass' \in PassType
      <4>1. CASE p \in Ingesters /\ ing[p].last
        BY <2>2, <4>1, LeaveType DEF SweepEnd
      <4>2. CASE p \in Ingesters /\ ~ing[p].last
        <5>1. ing' = [ing EXCEPT ![p].pc = "admit"] /\ pass' = pass
          BY <2>2, <4>2, Zenon DEF SweepEnd
        <5>2. ing' \in [Ingesters -> IngesterType]
          BY <5>1, IngesterPcType DEF TypeOK, IngesterPC
        <5> QED
          BY <5>1, <5>2 DEF TypeOK
      <4>3. CASE p \notin Ingesters
        BY <2>2, <4>3 DEF SweepEnd, TypeOK
      <4> QED
        BY <4>1, <4>2, <4>3
    <3>2. job' \in [Workers -> JobType]
      BY <2>2, NoJobType DEF SweepEnd, TypeOK
    <3>3. sweeper' \in SweeperType
      BY <2>2 DEF SweepEnd, NoSweep, SweeperType
    <3> QED
      BY <2>2, <3>1, <3>2, <3>3 DEF SweepEnd, TypeOK, disk, results
  <2> QED
    BY <1>13, <2>1, <2>2 DEF SweepStep
<1>14. CASE EvictResult
  <2>1. PICK r \in Gribs :
          /\ grib' = [grib EXCEPT ![r] = {}]
          /\ mtimes' = Others(Grib(r))
          /\ sweeper' = [sweeper EXCEPT !.json = {r}]
    BY <1>14 DEF EvictResult
  <2>2. r \in Requests /\ mtimes' \subseteq Files \X Files
    BY <2>1, FileNames, TimesTyped DEF Gribs, TypeOK
  <2> QED
    BY <1>14, <2>1, <2>2 DEF EvictResult, SweeperType, TypeOK, disk
<1>15. CASE EvictMetadata
  BY <1>15 DEF EvictMetadata, SweeperType, TypeOK, disk, results
<1> QED
  BY <1>1, <1>2, <1>3, <1>4, <1>5, <1>6, <1>7, <1>8, <1>9, <1>10, <1>11,
     <1>12, <1>13, <1>14, <1>15 DEF Next

\* The cache never leaves its state space, whatever the interleaving of the
\* ingester, the workers, the readers and the crashes of both processes.
THEOREM TypeCorrect == Spec => []TypeOK
<1> QED
  BY InitType, NextType, PTL DEF Spec

-----------------------------------------------------------------------------
(* The inductive invariant behind PinnedRunIntact.                          *)

\* The two kinds of holders of a cycle lock exclude each other.
LocksExclude == \A w \in Workers : InCycleLock(w) => ~BeingRemoved(job[w].req.cycle)

PinInv == TypeOK /\ LocksExclude /\ PinnedRunIntact

-----------------------------------------------------------------------------
(* What a step can change: three frame lemmas.                              *)

\* Only PruneTake(j) puts ingester j into rmtree.
LEMMA RmtreeFrame ==
  ASSUME TypeOK, [Next]_vars, NEW j \in Ingesters,
         ing'[j].pc = "rmtree", ing'[j] # ing[j]
  PROVE  PruneTake(j)
<1> USE DEF TypeOK, IngesterType
<1>1. CASE \E i \in Ingesters : IngesterStep(i)
  <2>1. PICK i \in Ingesters : IngesterStep(i)
    BY <1>1
  <2>2. CASE PruneTake(i)
    BY <2>2 DEF PruneTake
  <2>3. CASE PruneSkip(i) \/ RmtreeEntry(i)
    BY <2>3 DEF PruneSkip, RmtreeEntry
  <2>4. CASE RmtreeDone(i)
    BY <2>4 DEF RmtreeDone
  <2>5. CASE PruneDone(i) \/ Download(i)
    BY <2>5 DEF PruneDone, Download
  <2>6. CASE Admit(i)
    BY <2>6 DEF Admit, Leave, Idle
  <2>7. CASE DownloadFails(i)
    <3>1. \/ ing' = [ing EXCEPT ![i] = Idle]
          \/ \E plan \in SUBSET Grid : ing' = [ing EXCEPT ![i].plan = plan]
      BY <2>7 DEF DownloadFails, Leave
    <3>2. ing[i].pc = "fetch"
      BY <2>7 DEF DownloadFails
    <3> QED
      BY <3>1, <3>2 DEF Idle
  <2>8. CASE Finish(i)
    BY <2>8 DEF Finish, Leave, Idle
  <2> QED
    BY <2>1, <2>2, <2>3, <2>4, <2>5, <2>6, <2>7, <2>8 DEF IngesterStep
<1>2. CASE WatchWake \/ WatchCandidate \/ \E i \in Ingesters : OperatorIngest(i)
  BY <1>2, CacheAssumption DEF WatchWake, WatchCandidate, OperatorIngest, Begin
<1>3. CASE \E i \in Ingesters : CrashIngester(i)
  BY <1>3 DEF CrashIngester, Leave, Idle
<1>4. CASE \E p \in Ingesters \cup Workers : SweepStep(p)
  <2>1. PICK p \in Ingesters \cup Workers : SweepStep(p)
    BY <1>4
  <2>2. CASE SweepBegin(p)
    BY <2>2 DEF SweepBegin
  <2>3. CASE SweepEnd(p)
    BY <2>3 DEF SweepEnd, Leave, Idle
  <2> QED
    BY <2>1, <2>2, <2>3 DEF SweepStep
<1>5. CASE UNCHANGED ing
  BY <1>5
<1>6. CASE \E w \in Workers : Accept(w) \/ WorkerStep(w) \/ JobFails(w)
  BY <1>6 DEF Accept, WorkerStep, JobFails, PinCycle, CheckCoverage,
    EnterResult, Lookup, Crop, Publish, WriteMetadata
<1> QED
  BY <1>1, <1>2, <1>3, <1>4, <1>5, <1>6
  DEF Next, vars, Tick, CrashService, ReaderPin, ReaderUnpin, EvictResult,
    EvictMetadata

\* A source file disappears only from a cycle whose lock is held for rmtree.
LEMMA SourceFrame ==
  ASSUME TypeOK, [Next]_vars, NEW c \in Cycles
  PROVE  source[c] \subseteq source'[c] \/ BeingRemoved(c)
<1>1. CASE \E i \in Ingesters : IngesterStep(i)
  <2>1. PICK i \in Ingesters : IngesterStep(i)
    BY <1>1
  <2>2. CASE RmtreeEntry(i)
    BY <2>2 DEF RmtreeEntry, BeingRemoved, TypeOK
  <2>3. CASE Download(i)
    BY <2>3 DEF Download, TypeOK
  <2> QED
    BY <2>1, <2>2, <2>3
    DEF IngesterStep, PruneTake, PruneSkip, RmtreeDone, PruneDone, Admit,
      DownloadFails, Finish, disk
<1>2. CASE \E w \in Workers : Accept(w) \/ WorkerStep(w) \/ JobFails(w)
  BY <1>2 DEF Accept, WorkerStep, JobFails, PinCycle, CheckCoverage,
    EnterResult, Lookup, Crop, Publish, WriteMetadata, disk
<1> QED
  BY <1>1, <1>2
  DEF Next, vars, disk, Tick, WatchWake, WatchCandidate, OperatorIngest,
    CrashIngester, CrashService, ReaderPin, ReaderUnpin, SweepStep, SweepBegin,
    SweepEnd, EvictResult, EvictMetadata

\* A job moves by its own steps or ends.
LEMMA JobFrame ==
  ASSUME TypeOK, [Next]_vars, NEW w \in Workers, job'[w] # job[w]
  PROVE  Accept(w) \/ WorkerStep(w) \/ JobFails(w) \/ job'[w] = NoJob
<1>1. CASE \E v \in Workers : Accept(v) \/ WorkerStep(v) \/ JobFails(v)
  <2>1. PICK v \in Workers : Accept(v) \/ WorkerStep(v) \/ JobFails(v)
    BY <1>1
  <2>2. job' = [job EXCEPT ![v] = job'[v]]
    BY <2>1 DEF Accept, WorkerStep, JobFails, PinCycle, CheckCoverage,
      EnterResult, Lookup, Crop, Publish, WriteMetadata, TypeOK
  <2> QED
    BY <2>1, <2>2 DEF TypeOK
<1>2. CASE \E i \in Ingesters : IngesterStep(i)
  BY <1>2 DEF IngesterStep, PruneTake, PruneSkip, RmtreeEntry, RmtreeDone,
    PruneDone, Admit, Download, DownloadFails, Finish
<1>3. CASE CrashService
  BY <1>3 DEF CrashService
<1>4. CASE \E p \in Ingesters \cup Workers : SweepStep(p)
  BY <1>4 DEF SweepStep, SweepBegin, SweepEnd, TypeOK
<1> QED
  BY <1>1, <1>2, <1>3, <1>4
  DEF Next, vars, Tick, WatchWake, WatchCandidate, OperatorIngest,
    CrashIngester, ReaderPin, ReaderUnpin, EvictResult, EvictMetadata
-----------------------------------------------------------------------------
(* Forecast files stay on disk while they are cropped.                      *)

\* The two holders of a cycle lock go on excluding each other.
LEMMA LocksExcludeNext ==
  ASSUME TypeOK, LocksExclude, [Next]_vars
  PROVE  LocksExclude'
<1> SUFFICES ASSUME NEW w \in Workers, InCycleLock(w)',
                    NEW j \in Ingesters, ing'[j].pc = "rmtree",
                    Victim(j)' = job'[w].req.cycle
             PROVE  FALSE
  BY DEF LocksExclude, BeingRemoved
<1>1. CASE job'[w] = job[w]
  <2>1. InCycleLock(w)
    BY <1>1 DEF InCycleLock
  <2>2. CASE ing'[j] = ing[j]
    BY <1>1, <2>1, <2>2 DEF LocksExclude, BeingRemoved, Victim
  <2>3. CASE ing'[j] # ing[j]
    <3>1. PruneTake(j)
      BY <2>3, RmtreeFrame
    <3>2. Victim(j)' = Victim(j)
      BY <3>1 DEF PruneTake, Victim, TypeOK, IngesterType
    <3> QED
      BY <1>1, <2>1, <3>1, <3>2 DEF PruneTake, Pinned
  <2> QED
    BY <2>2, <2>3
<1>2. CASE job'[w] # job[w]
  <2>1. job'[w] # NoJob /\ ~Accept(w) /\ ~JobFails(w)
    BY DEF InCycleLock, NoJob, Accept, JobFails, TypeOK, JobType
  <2>2. WorkerStep(w)
    BY <1>2, <2>1, JobFrame
  <2>3. /\ UNCHANGED ing
        /\ job'[w].req = job[w].req
        /\ InCycleLock(w) \/ PinCycle(w)
    BY <2>2 DEF WorkerStep, PinCycle, CheckCoverage, EnterResult, Lookup, Crop,
      Publish, WriteMetadata, InCycleLock, TypeOK, JobType
  <2>4. BeingRemoved(job[w].req.cycle)
    BY <2>3 DEF BeingRemoved, Victim
  <2> QED
    BY <2>3, <2>4 DEF LocksExclude, PinCycle
<1> QED
  BY <1>1, <1>2

\* A covered crop keeps its files in the next state.
LEMMA PinnedNext ==
  ASSUME PinInv, [Next]_vars
  PROVE  PinnedRunIntact'
<1> DEFINE Safe == {"covered", "owner", "crop", "published"}
<1> SUFFICES ASSUME NEW w \in Workers, job'[w].pc \in Safe
             PROVE  job'[w].req.need \subseteq source'[job'[w].req.cycle]
  BY DEF PinnedRunIntact
<1>1. /\ job'[w].req = job[w].req
      /\ job[w].pc \in Safe \/ (job[w].pc = "pinned" /\ Coverage(job[w].req) = {})
  <2>1. CASE job'[w] = job[w]
    BY <2>1
  <2>2. CASE job'[w] # job[w]
    <3>1. job'[w] # NoJob /\ ~Accept(w) /\ ~JobFails(w)
      BY DEF NoJob, Accept, JobFails, PinInv, TypeOK, JobType
    <3>2. WorkerStep(w)
      BY <2>2, <3>1, JobFrame DEF PinInv
    <3> QED
      BY <3>2 DEF WorkerStep, PinCycle, CheckCoverage, EnterResult, Lookup,
        Crop, Publish, WriteMetadata, PinInv, TypeOK, JobType
  <2> QED
    BY <2>1, <2>2
<1>2. job[w].req.need \subseteq source[job[w].req.cycle]
  BY <1>1 DEF PinInv, PinnedRunIntact, Coverage
<1>3. ~BeingRemoved(job[w].req.cycle)
  BY <1>1 DEF PinInv, LocksExclude, InCycleLock
<1>4. job[w].req.cycle \in Cycles
  BY CacheAssumption DEF PinInv, TypeOK, JobType
<1>5. source[job[w].req.cycle] \subseteq source'[job[w].req.cycle]
  BY <1>3, <1>4, SourceFrame DEF PinInv
<1> QED
  BY <1>1, <1>2, <1>5

\* "File locks pin runs used by active crops" (hosted-service/README.md): the
\* files of a covered job are there until it ends, for any number of workers,
\* ingesters, readers and cycles.
THEOREM PinnedRunsStay == Spec => []PinnedRunIntact
<1>1. Init => PinInv
  <2>1. Init => LocksExclude /\ PinnedRunIntact
    BY DEF Init, NoJob, LocksExclude, InCycleLock, PinnedRunIntact
  <2> QED
    BY <2>1, InitType DEF PinInv
<1>2. PinInv /\ [Next]_vars => PinInv'
  BY NextType, LocksExcludeNext, PinnedNext DEF PinInv
<1>3. PinInv => PinnedRunIntact
  BY DEF PinInv
<1> QED
  BY <1>1, <1>2, <1>3, PTL DEF Spec

-----------------------------------------------------------------------------
(* No partial result is ever published: one worker at a time produces a     *)
(* result, and it appears when it is whole.                                 *)

\* "result-<identity>" has one owner.
OneOwner == \A v, w \in Workers :
              Owns(v, job[v].req) /\ Owns(w, job[w].req) /\ job[v].req = job[w].req
                => v = w

\* The part file of a running crop holds the pieces that are done.
PartAccounts == \A w \in Workers :
                  job[w].pc = "crop" =>
                    /\ job[w].todo \subseteq job[w].req.need
                    /\ part[job[w].req] = job[w].req.need \ job[w].todo

\* A .grib2 is whole, even one whose .json is missing.
GribWhole == \A r \in Requests : grib[r] # {} => grib[r] = r.need

ResultInv == TypeOK /\ OneOwner /\ PartAccounts /\ GribWhole

-----------------------------------------------------------------------------
(* What a step can change.                                                  *)

\* The files of results change only in three steps of a worker and in one of
\* prune_results().
LEMMA ResultFrame ==
  ASSUME TypeOK, [Next]_vars
  PROVE  \/ UNCHANGED <<part, grib>>
         \/ /\ UNCHANGED <<part, job>>
            /\ \E r \in Requests : grib' = [grib EXCEPT ![r] = {}]
         \/ \E w \in Workers : Lookup(w) \/ Crop(w) \/ JobFails(w) \/ Publish(w)
<1>1. CASE EvictResult
  BY <1>1 DEF EvictResult, Gribs
<1>2. CASE \E w \in Workers : Accept(w) \/ WorkerStep(w) \/ JobFails(w)
  BY <1>2 DEF Accept, WorkerStep, PinCycle, CheckCoverage, EnterResult,
    WriteMetadata, results
<1>3. CASE \E i \in Ingesters : IngesterStep(i)
  BY <1>3 DEF IngesterStep, PruneTake, PruneSkip, RmtreeEntry, RmtreeDone,
    PruneDone, Admit, Download, DownloadFails, Finish, results
<1> QED
  BY <1>1, <1>2, <1>3
  DEF Next, vars, results, Tick, WatchWake, WatchCandidate, OperatorIngest,
    CrashIngester, CrashService, ReaderPin, ReaderUnpin, SweepStep, SweepBegin,
    SweepEnd, EvictMetadata

\* A job enters the crop through Lookup, and owns its result until it leaves.
LEMMA OwnerFrame ==
  ASSUME TypeOK, [Next]_vars, NEW w \in Workers, job'[w] # job[w]
  PROVE  /\ job'[w].pc = "crop" => Lookup(w) \/ Crop(w)
         /\ job'[w].pc \in {"owner", "crop", "published"} =>
              /\ job'[w].req = job[w].req
              /\ \A v \in Workers \ {w} : job'[v] = job[v]
              /\ Owns(w, job[w].req) \/ EnterResult(w)
<1>1. CASE Accept(w) \/ JobFails(w) \/ job'[w] = NoJob
  BY <1>1 DEF Accept, JobFails, NoJob, TypeOK, JobType
<1>2. CASE PinCycle(w) \/ CheckCoverage(w) \/ EnterResult(w)
  BY <1>2 DEF PinCycle, CheckCoverage, EnterResult, TypeOK, JobType
<1>3. CASE Lookup(w)
  <2>1. job[w].pc = "owner" /\ job \in [Workers -> JobType]
    BY <1>3 DEF Lookup, TypeOK
  <2>2. CASE job' = [job EXCEPT ![w].pc = "sweep"]
    BY <2>1, <2>2 DEF JobType
  <2>3. CASE job' = [job EXCEPT ![w].pc = "crop", ![w].todo = job[w].req.need]
    <3>1. /\ job'[w].req = job[w].req
          /\ \A v \in Workers \ {w} : job'[v] = job[v]
      BY <2>1, <2>3 DEF JobType
    <3> QED
      BY <1>3, <2>1, <3>1 DEF Owns
  <2> QED
    BY <1>3, <2>2, <2>3, Zenon DEF Lookup
<1>4. CASE Crop(w)
  <2>1. PICK k \in job[w].todo : job' = [job EXCEPT ![w].todo = job[w].todo \ {k}]
    BY <1>4, Zenon DEF Crop
  <2>2. job[w].pc = "crop" /\ job \in [Workers -> JobType]
    BY <1>4 DEF Crop, TypeOK
  <2>3. /\ job'[w].req = job[w].req
        /\ \A v \in Workers \ {w} : job'[v] = job[v]
    BY <2>1, <2>2 DEF JobType
  <2> QED
    BY <1>4, <2>2, <2>3 DEF Owns
<1>5. CASE Publish(w) \/ WriteMetadata(w)
  BY <1>5 DEF Publish, WriteMetadata, Owns, TypeOK, JobType
<1> QED
  BY <1>1, <1>2, <1>3, <1>4, <1>5, JobFrame DEF WorkerStep

-----------------------------------------------------------------------------
(* The invariant is inductive.                                              *)

LEMMA OneOwnerNext ==
  ASSUME TypeOK, OneOwner, [Next]_vars
  PROVE  OneOwner'
<1> DEFINE Owning == {"owner", "crop", "published"}
<1> SUFFICES ASSUME NEW v \in Workers, NEW w \in Workers, v # w,
                    job'[v].pc \in Owning, job'[w].pc \in Owning,
                    job'[v].req = job'[w].req
             PROVE  FALSE
  BY DEF OneOwner, Owns
<1>1. CASE job'[v] = job[v] /\ job'[w] = job[w]
  BY <1>1 DEF OneOwner, Owns
<1>2. CASE job'[v] # job[v]
  BY <1>2, OwnerFrame DEF OneOwner, Owns, EnterResult
<1>3. CASE job'[w] # job[w]
  BY <1>3, OwnerFrame DEF OneOwner, Owns, EnterResult
<1> QED
  BY <1>1, <1>2, <1>3

\* The part file of w is changed by w alone.
LEMMA PartNext ==
  ASSUME ResultInv, [Next]_vars
  PROVE  PartAccounts'
<1> USE DEF ResultInv
<1> SUFFICES ASSUME NEW w \in Workers, job'[w].pc = "crop"
             PROVE  /\ job'[w].todo \subseteq job'[w].req.need
                    /\ part'[job'[w].req] = job'[w].req.need \ job'[w].todo
  BY DEF PartAccounts
<1>1. job[w].req \in Requests /\ job[w].req.need \subseteq Grid
  BY CacheAssumption DEF TypeOK, JobType
<1>2. CASE job'[w] # job[w]
  <2>1. CASE Lookup(w)
    BY <1>1, <2>1 DEF Lookup, TypeOK, JobType
  <2>2. CASE Crop(w)
    <3>1. PICK k \in job[w].todo :
            /\ part' = [part EXCEPT ![job[w].req] = @ \cup {k}]
            /\ job' = [job EXCEPT ![w].todo = @ \ {k}]
      BY <2>2 DEF Crop
    <3>2. /\ job[w].pc = "crop"
          /\ job'[w].req = job[w].req /\ job'[w].todo = job[w].todo \ {k}
          /\ part'[job[w].req] = part[job[w].req] \cup {k}
      BY <1>1, <2>2, <3>1 DEF Crop, TypeOK, JobType
    <3> QED
      BY <3>1, <3>2 DEF PartAccounts
  <2> QED
    BY <1>2, <2>1, <2>2, OwnerFrame
<1>3. CASE job'[w] = job[w]
  <2>1. part'[job[w].req] = part[job[w].req]
    <3>1. ASSUME NEW v \in Workers,
                 Lookup(v) \/ Crop(v) \/ JobFails(v) \/ Publish(v)
          PROVE  part'[job[w].req] = part[job[w].req]
      <4>1. Owns(v, job[v].req) /\ Owns(w, job[w].req)
        BY <1>3, <3>1 DEF Lookup, Crop, JobFails, Publish, Owns
      <4>2. CASE v = w
        BY <1>3, <3>1, <4>2 DEF Lookup, Crop, JobFails, Publish, TypeOK, JobType
      <4>3. CASE v # w
        <5>1. job[v].req # job[w].req
          BY <4>1, <4>3 DEF OneOwner
        <5> QED
          BY <1>1, <3>1, <5>1 DEF Lookup, Crop, JobFails, Publish, TypeOK
      <4> QED
        BY <4>2, <4>3
    <3> QED
      BY <3>1, ResultFrame
  <2> QED
    BY <1>3, <2>1 DEF PartAccounts
<1> QED
  BY <1>2, <1>3

\* What Publish renames into place is whole.
LEMMA GribNext ==
  ASSUME ResultInv, [Next]_vars
  PROVE  GribWhole'
<1> USE DEF ResultInv
<1>1. CASE \E w \in Workers : Publish(w)
  <2>1. PICK w \in Workers : Publish(w)
    BY <1>1
  <2>2. part[job[w].req] = job[w].req.need /\ grib' = [grib EXCEPT ![job[w].req] = part[job[w].req]]
    BY <2>1 DEF Publish, PartAccounts
  <2> QED
    BY <2>2 DEF GribWhole, TypeOK
<1>2. CASE \E r \in Requests : grib' = [grib EXCEPT ![r] = {}]
  BY <1>2 DEF GribWhole, TypeOK
<1>3. CASE UNCHANGED grib
  BY <1>3 DEF GribWhole
<1> QED
  BY <1>1, <1>2, <1>3, ResultFrame DEF Lookup, Crop, JobFails

\* A result that a client can be pointed at holds exactly the pieces of its
\* request, for any number of workers, requests, evictions and crashes.
THEOREM ResultsAreWhole == Spec => []ResultWhole
<1>1. Init => ResultInv
  BY InitType DEF Init, NoJob, ResultInv, OneOwner, Owns, PartAccounts, GribWhole
<1>2. ResultInv /\ [Next]_vars => ResultInv'
  BY NextType, OneOwnerNext, PartNext, GribNext DEF ResultInv
<1>3. ResultInv => ResultWhole
  BY DEF ResultInv, GribWhole, ResultWhole, TypeOK
<1> QED
  BY <1>1, <1>2, <1>3, PTL DEF Spec

-----------------------------------------------------------------------------
(* The result directory implements the abstract store.                      *)

\* From the rename of the .grib2 to the write of the .json nothing else moves
\* in results/: no other publisher, no sweep, and the .grib2 stays.
PublishedAlone ==
  \A w \in Workers :
    job[w].pc = "published" =>
      /\ sweeper.by = NoOne
      /\ \A v \in Workers : job[v].pc = "published" => v = w
      /\ grib[job[w].req] # {}

\* Nobody can be pointed at a result that is being produced.
CropsHidden == \A w \in Workers : job[w].pc = "crop" => ~Visible(job[w].req)

\* The .grib2 is gone before its .json, and does not come back in between.
UnlinkedGone == \A r \in sweeper.json : sweeper.by # NoOne /\ grib[r] = {}

StoreInv == ResultInv /\ PublishedAlone /\ CropsHidden /\ UnlinkedGone

-----------------------------------------------------------------------------
(* What becomes of the order of the files.                                  *)

\* A file that is emptied or unlinked leaves the order of the others alone.
LEMMA OthersKept ==
  ASSUME NEW f, NEW x, NEW y, x # f, y # f
  PROVE  <<x, y>> \in Others(f) <=> <<x, y>> \in mtimes
  BY DEF Others

\* A file that is written or touched is later than each file with contents.
LEMMA StampedLast ==
  ASSUME NEW f, NEW x, x # f
  PROVE  /\ \A y : y # f => (<<x, y>> \in Stamped(f) <=> <<x, y>> \in mtimes)
         /\ x \in Filled => <<x, f>> \in Stamped(f)
         /\ \A y : <<f, y>> \notin Stamped(f)
<1>1. ASSUME NEW y, y # f
      PROVE  <<x, y>> \in Stamped(f) <=> <<x, y>> \in mtimes
  BY <1>1 DEF Stamped, Others
<1>2. x \in Filled => <<x, f>> \in Stamped(f)
  BY DEF Stamped
<1>3. ASSUME NEW y PROVE <<f, y>> \notin Stamped(f)
  BY DEF Stamped, Others
<1> QED
  BY <1>1, <1>2, <1>3

\* os.replace() gives a name to a file and leaves the file its time.
LEMMA RenamedKept ==
  ASSUME NEW f, NEW g, f # g, mtimes \subseteq Files \X Files,
         NEW x, NEW y, x # g, y # g
  PROVE  LET name(h) == IF h = f THEN g ELSE h
         IN  <<name(x), name(y)>> \in Renamed(f, g) <=> <<x, y>> \in mtimes
<1> DEFINE name(h) == IF h = f THEN g ELSE h
<1>1. ASSUME <<x, y>> \in mtimes PROVE <<name(x), name(y)>> \in Renamed(f, g)
  <2>1. <<x, y>> \in Others(g)
    BY <1>1, OthersKept
  <2> QED
    BY <2>1 DEF Renamed
<1>2. ASSUME <<name(x), name(y)>> \in Renamed(f, g) PROVE <<x, y>> \in mtimes
  <2>1. PICK p \in Others(g) : <<name(x), name(y)>> = <<name(p[1]), name(p[2])>>
    BY <1>2 DEF Renamed
  <2>2. p \in mtimes /\ p = <<p[1], p[2]>> /\ p[1] # g /\ p[2] # g
    BY <2>1 DEF Others
  <2>3. p[1] = x /\ p[2] = y
    BY <2>1, <2>2
  <2> QED
    BY <2>2, <2>3
<1> QED
  BY <1>1, <1>2

\* The names of the files of two results, or of one, differ.
LEMMA NamesDiffer ==
  ASSUME NEW q \in Requests, NEW r \in Requests
  PROVE  /\ Grib(q) # Part(r) /\ Part(q) # Grib(r)
         /\ q # r => Grib(q) # Grib(r) /\ Part(q) # Part(r)
  BY DEF Grib, Part

-----------------------------------------------------------------------------
(* What a step can change.                                                  *)

\* Five steps of a worker, the two unlinks and a crash change the entries,
\* their order or the work on them.
LEMMA EntryFrame ==
  ASSUME TypeOK, [Next]_vars
  PROVE  \/ /\ UNCHANGED results
            /\ \A w \in Workers :
                 {job[w].pc, job'[w].pc} \cap {"crop", "published"} # {} =>
                   job'[w] = job[w]
         \/ \E w \in Workers : \/ Lookup(w) \/ Crop(w) \/ JobFails(w)
                               \/ Publish(w) \/ WriteMetadata(w)
         \/ EvictResult \/ EvictMetadata \/ CrashService
<1>1. CASE \E i \in Ingesters : IngesterStep(i)
  BY <1>1 DEF IngesterStep, PruneTake, PruneSkip, RmtreeEntry, RmtreeDone,
    PruneDone, Admit, Download, DownloadFails, Finish
<1>2. CASE \E w \in Workers : Accept(w) \/ PinCycle(w) \/ CheckCoverage(w) \/ EnterResult(w)
  BY <1>2 DEF Accept, PinCycle, CheckCoverage, EnterResult, TypeOK, JobType
<1>3. CASE \E p \in Ingesters \cup Workers : SweepStep(p)
  BY <1>3 DEF SweepStep, SweepBegin, SweepEnd, WantsSweep, NoJob, TypeOK, JobType
<1> QED
  BY <1>1, <1>2, <1>3
  DEF Next, WorkerStep, vars, Tick, WatchWake, WatchCandidate, OperatorIngest,
    CrashIngester, ReaderPin, ReaderUnpin

\* A sweep begins while nobody is inside "results", and only an eviction gives
\* it something to unlink.
LEMMA SweeperFrame ==
  ASSUME TypeOK, [Next]_vars
  PROVE  \/ UNCHANGED sweeper
         \/ sweeper' = NoSweep
         \/ \E p \in Ingesters \cup Workers :
              ~ResultsBusy /\ sweeper' = [by |-> p, json |-> {}] /\ UNCHANGED job
         \/ EvictResult \/ EvictMetadata
<1>1. CASE \E i \in Ingesters : IngesterStep(i)
  BY <1>1 DEF IngesterStep, PruneTake, PruneSkip, RmtreeEntry, RmtreeDone,
    PruneDone, Admit, Download, DownloadFails, Finish
<1>2. CASE \E w \in Workers : Accept(w) \/ WorkerStep(w) \/ JobFails(w)
  BY <1>2 DEF Accept, WorkerStep, JobFails, PinCycle, CheckCoverage, EnterResult,
    Lookup, Crop, Publish, WriteMetadata
<1>3. CASE \E p \in Ingesters \cup Workers : SweepStep(p)
  BY <1>3 DEF SweepStep, SweepBegin, SweepEnd
<1> QED
  BY <1>1, <1>2, <1>3
  DEF Next, vars, Tick, WatchWake, WatchCandidate, OperatorIngest,
    CrashIngester, CrashService, ReaderPin, ReaderUnpin

\* A job is published by Publish alone.
LEMMA PublisherFrame ==
  ASSUME TypeOK, [Next]_vars, NEW w \in Workers, job'[w].pc = "published"
  PROVE  job'[w] = job[w] \/ Publish(w)
<1>1. CASE Accept(w) \/ JobFails(w) \/ job'[w] = NoJob
  BY <1>1 DEF Accept, JobFails, NoJob, TypeOK, JobType
<1>2. CASE PinCycle(w) \/ CheckCoverage(w) \/ EnterResult(w) \/ WriteMetadata(w)
  BY <1>2 DEF PinCycle, CheckCoverage, EnterResult, WriteMetadata, TypeOK, JobType
<1>3. CASE Lookup(w)
  BY <1>3 DEF Lookup, TypeOK, JobType
<1>4. CASE Crop(w)
  BY <1>4 DEF Crop, TypeOK, JobType
<1> QED
  BY <1>1, <1>2, <1>3, <1>4, JobFrame DEF WorkerStep

-----------------------------------------------------------------------------
(* The invariant is inductive.                                              *)

\* A publisher is alone until its .json is written.
LEMMA PublishedAloneNext ==
  ASSUME StoreInv, [Next]_vars
  PROVE  PublishedAlone'
<1> USE DEF StoreInv, ResultInv
<1> SUFFICES ASSUME NEW w \in Workers, job'[w].pc = "published"
             PROVE  /\ sweeper'.by = NoOne
                    /\ \A v \in Workers : job'[v].pc = "published" => v = w
                    /\ grib'[job'[w].req] # {}
  BY DEF PublishedAlone
<1>0. grib \in [Requests -> SUBSET Grid] /\ job[w].req \in Requests
  BY DEF TypeOK, JobType
<1>1. CASE Publish(w)
  <2>1. ~ResultsBusy /\ UNCHANGED sweeper
    BY <1>1 DEF Publish
  <2>2. job' = [job EXCEPT ![w].pc = "published"]
    BY <1>1, Zenon DEF Publish
  <2>3. job'[w].req = job[w].req /\ \A v \in Workers \ {w} : job'[v] = job[v]
    BY <2>2 DEF TypeOK, JobType
  <2>4. grib'[job[w].req] # {}
    BY <1>0, <1>1, CacheAssumption DEF Publish, PartAccounts
  <2> QED
    BY <2>1, <2>3, <2>4 DEF ResultsBusy
<1>2. CASE job'[w] = job[w]
  <2>1. job[w].pc = "published" /\ ResultsBusy
    BY <1>2 DEF ResultsBusy
  <2>2. /\ sweeper.by = NoOne /\ grib[job[w].req] # {}
        /\ \A v \in Workers : job[v].pc = "published" => v = w
    BY <2>1 DEF PublishedAlone
  <2>3. \A v \in Workers : job'[v].pc = "published" => v = w
    BY <2>1, <2>2, PublisherFrame DEF Publish
  <2>4. ~EvictResult
    BY <2>2 DEF EvictResult
  <2>5. ~EvictMetadata
    BY <2>2 DEF EvictMetadata, UnlinkedGone
  <2>6. sweeper'.by = NoOne
    BY <2>1, <2>2, <2>4, <2>5, SweeperFrame DEF NoSweep
  <2>7. UNCHANGED grib
    BY <2>1, <2>4, <2>5, EntryFrame
    DEF Lookup, Crop, JobFails, Publish, WriteMetadata, CrashService, results
  <2> QED
    BY <1>2, <2>2, <2>3, <2>6, <2>7
<1> QED
  BY <1>1, <1>2, PublisherFrame

\* What is being produced cannot become visible: publishing it and writing its
\* .json need its lock.
LEMMA CropsHiddenNext ==
  ASSUME StoreInv, [Next]_vars
  PROVE  CropsHidden'
<1> USE DEF StoreInv, ResultInv
<1> DEFINE Hidden(r) == r \notin meta' \/ grib'[r] = {}
<1> SUFFICES ASSUME NEW w \in Workers, job'[w].pc = "crop"
             PROVE  Hidden(job'[w].req)
  BY DEF CropsHidden, Visible
<1>0. job[w].req \in Requests /\ grib \in [Requests -> SUBSET Grid]
  BY DEF TypeOK, JobType
<1>1. CASE Lookup(w)
  <2>1. ~Visible(job[w].req)
    <3>1. CASE Visible(job[w].req)
      <4>1. job' = [job EXCEPT ![w].pc = "sweep"]
        BY <1>1, <3>1, Zenon DEF Lookup, Visible
      <4> QED
        BY <4>1 DEF TypeOK, JobType
    <3> QED
      BY <3>1
  <2>2. job'[w].req = job[w].req
    BY <1>1 DEF Lookup, TypeOK, JobType
  <2> QED
    BY <1>1, <2>1, <2>2 DEF Lookup, Visible
<1>2. CASE Crop(w)
  <2>1. job[w].pc = "crop" /\ job'[w].req = job[w].req
    BY <1>2 DEF Crop, TypeOK, JobType
  <2> QED
    BY <1>2, <2>1 DEF Crop, CropsHidden, Visible
<1>3. CASE job'[w] = job[w]
  <2>1. ~Visible(job[w].req) /\ Owns(w, job[w].req)
    BY <1>3 DEF CropsHidden, Owns
  <2>2. ASSUME NEW v \in Workers, Publish(v) \/ WriteMetadata(v)
        PROVE  job[v].req # job[w].req
    <3>1. v # w
      BY <1>3, <2>2 DEF Publish, WriteMetadata, TypeOK, JobType
    <3> QED
      BY <2>1, <2>2, <3>1 DEF OneOwner, Owns, Publish, WriteMetadata
  <2>3. Hidden(job[w].req)
    <3>1. ASSUME NEW v \in Workers, Publish(v) PROVE Hidden(job[w].req)
      BY <1>0, <2>1, <2>2, <3>1 DEF Publish, Visible
    <3>2. ASSUME NEW v \in Workers, WriteMetadata(v) PROVE Hidden(job[w].req)
      BY <1>0, <2>1, <2>2, <3>2 DEF WriteMetadata, Visible
    <3>3. CASE EvictResult
      BY <1>0, <2>1, <3>3 DEF EvictResult, Gribs, Visible
    <3> QED
      BY <2>1, <3>1, <3>2, <3>3, EntryFrame
      DEF Lookup, Crop, JobFails, EvictMetadata, CrashService, results, Visible
  <2> QED
    BY <1>3, <2>3
<1> QED
  BY <1>1, <1>2, <1>3, OwnerFrame

\* Between the two unlinks of a result nothing is published.
LEMMA UnlinkedGoneNext ==
  ASSUME StoreInv, [Next]_vars
  PROVE  UnlinkedGone'
<1> USE DEF StoreInv, ResultInv
<1>0. grib \in [Requests -> SUBSET Grid] /\ sweeper \in SweeperType
  BY DEF TypeOK
<1>1. CASE EvictResult
  <2>1. PICK r \in Requests : /\ grib' = [grib EXCEPT ![r] = {}]
                              /\ sweeper' = [sweeper EXCEPT !.json = {r}]
    BY <1>1 DEF EvictResult, Gribs
  <2> QED
    BY <1>0, <1>1, <2>1 DEF EvictResult, UnlinkedGone, SweeperType
<1>2. CASE EvictMetadata
  BY <1>0, <1>2 DEF EvictMetadata, UnlinkedGone, SweeperType
<1>3. CASE sweeper'.json = {}
  BY <1>3 DEF UnlinkedGone
<1>4. CASE UNCHANGED sweeper /\ ~EvictResult
  <2>1. CASE UNCHANGED grib
    BY <1>4, <2>1 DEF UnlinkedGone
  <2>2. CASE \E w \in Workers : Publish(w)
    <3>1. sweeper.by = NoOne
      BY <2>2 DEF Publish, ResultsBusy
    <3> QED
      BY <1>4, <3>1 DEF UnlinkedGone
  <2> QED
    BY <1>4, <2>1, <2>2, EntryFrame
    DEF Lookup, Crop, JobFails, WriteMetadata, EvictMetadata, CrashService, results
<1> QED
  BY <1>1, <1>2, <1>3, <1>4, SweeperFrame DEF NoSweep

\* The invariant of the mapping is inductive.
LEMMA StoreInvNext == StoreInv /\ [Next]_vars => StoreInv'
<1> SUFFICES ASSUME StoreInv, [Next]_vars PROVE StoreInv'
  OBVIOUS
<1>1. ResultInv'
  BY NextType, OneOwnerNext, PartNext, GribNext DEF StoreInv, ResultInv
<1> QED
  BY <1>1, PublishedAloneNext, CropsHiddenNext, UnlinkedGoneNext DEF StoreInv

-----------------------------------------------------------------------------
(* The entries of the store and their order.                                *)

\* Only the owner of a result works on it.
LEMMA OwnWork ==
  ASSUME TypeOK, OneOwner, NEW w \in Workers, NEW r \in Requests, Owns(w, r),
         job'[w].req = r, \A v \in Workers \ {w} : job'[v] = job[v]
  PROVE  /\ Cropping(r) <=> job[w].pc = "crop"
         /\ Publishing(r) <=> job[w].pc = "published"
         /\ Cropping(r)' <=> job'[w].pc = "crop"
         /\ Publishing(r)' <=> job'[w].pc = "published"
         /\ \A q \in Requests \ {r} : /\ Cropping(q)' <=> Cropping(q)
                                      /\ Publishing(q)' <=> Publishing(q)
<1>1. job[w].req = r
  BY DEF Owns
<1>2. \A v \in Workers \ {w} : job[v].pc \in {"crop", "published"} => job[v].req # r
  BY <1>1 DEF OneOwner, Owns
<1> QED
  BY <1>1, <1>2 DEF Cropping, Publishing

\* Nothing that has been begun is visible, and the file that gives an entry its
\* place has contents.
LEMMA PlacedFilled ==
  ASSUME StoreInv, NEW q \in Requests
  PROVE  /\ Cropping(q) => ~Visible(q)
         /\ Begun(q) => ~Visible(q)
         /\ Placed(q) => FileOf(q) \in Filled
<1> USE DEF StoreInv
<1>1. Cropping(q) => ~Visible(q) /\ ~Publishing(q)
  BY DEF Cropping, Publishing, CropsHidden, ResultInv, OneOwner, Owns
<1>2. Publishing(q) => grib[q] # {}
  BY DEF Publishing, PublishedAlone
<1>3. grib[q] # {} => Grib(q) \in Filled
  BY FileNames DEF Filled, Grib
<1>4. part[q] # {} => Part(q) \in Filled
  BY FileNames DEF Filled, Part
<1> QED
  BY <1>1, <1>2, <1>3, <1>4 DEF Begun, Placed, FileOf, Visible

\* What the store calls kept is what a client can be pointed at.
LEMMA KeptVisible == \A r \in Requests : /\ r \in Store!Kept <=> Visible(r)
                                         /\ Content[r] # Store!Absent <=> Visible(r)
  BY DEF Store!Kept, Store!Absent, Content, Visible

\* A result whose file was just written or touched is renewed.
LEMMA RenewedOlder ==
  ASSUME NEW r \in Requests, Placed(r)',
         \A q \in Requests \ {r} : Placed(q)' <=> Placed(q),
         \A p, q \in Requests \ {r} : Earlier(p, q)' <=> Earlier(p, q),
         \A q \in Requests \ {r} : Placed(q) => Earlier(q, r)',
         \A q \in Requests : ~Earlier(r, q)'
  PROVE  Older' = Store!Renewed(r)
<1>1. ASSUME NEW p \in Requests, NEW q \in Requests
      PROVE  <<p, q>> \in Older' <=> <<p, q>> \in Store!Renewed(r)
  <2>1. <<p, q>> \in Older' <=> Placed(p)' /\ Placed(q)' /\ Earlier(p, q)'
    BY DEF Older
  <2>2. <<p, q>> \in Older <=> Placed(p) /\ Placed(q) /\ Earlier(p, q)
    BY DEF Older
  <2>3. p \in Store!Kept \cup Making <=> Placed(p)
    BY KeptVisible DEF Making, Placed
  <2>4. <<p, q>> \in Store!Renewed(r) <=>
          \/ <<p, q>> \in Older /\ p # r /\ q # r
          \/ Placed(p) /\ p # r /\ q = r
    BY <2>3 DEF Store!Renewed, Store!Without
  <2> QED
    BY <2>1, <2>2, <2>4
<1>2. Older' \subseteq Requests \X Requests
  BY DEF Older
<1>3. Store!Renewed(r) \subseteq Requests \X Requests
  BY DEF Older, Making, Store!Renewed, Store!Without, Store!Kept
<1> QED
  BY <1>1, <1>2, <1>3

\* Results that leave the store leave the order of the others alone.
LEMMA WithoutOlder ==
  ASSUME NEW S, \A q \in Requests : Placed(q)' <=> Placed(q) /\ q \notin S,
         \A p, q \in Requests : Placed(p)' /\ Placed(q)' =>
                                  (Earlier(p, q)' <=> Earlier(p, q))
  PROVE  Older' = Store!Without(S)
<1>1. ASSUME NEW p \in Requests, NEW q \in Requests
      PROVE  <<p, q>> \in Older' <=> <<p, q>> \in Store!Without(S)
  BY DEF Older, Store!Without
<1>2. Older' \subseteq Requests \X Requests /\ Store!Without(S) \subseteq Requests \X Requests
  BY DEF Older, Store!Without
<1> QED
  BY <1>1, <1>2

\* A step that shows a client nothing new and begins nothing gives up what it
\* has stopped to work on, which may be nothing at all.
LEMMA GiveUpStep ==
  ASSUME StoreInv,
         \A q \in Requests : /\ Visible(q)' <=> Visible(q)
                             /\ Visible(q) => grib'[q] = grib[q]
                             /\ Begun(q)' => Begun(q),
         \A p, q \in Requests : Placed(p)' /\ Placed(q)' =>
                                  (Earlier(p, q)' <=> Earlier(p, q))
  PROVE  Store!Next
<1> DEFINE S == Making \ Making'
<1>1. Content' = Content
  BY DEF Content
<1>2. S \in SUBSET Making /\ Making' = Making \ S
  BY DEF Making
<1>3. \A q \in Requests : Placed(q)' <=> Placed(q) /\ q \notin S
  BY PlacedFilled DEF Placed, Making
<1> HIDE DEF S
<1>4. Older' = Store!Without(S)
  BY <1>3, WithoutOlder
<1>5. Store!GiveUp(S)
  BY <1>1, <1>2, <1>4 DEF Store!GiveUp
<1> QED
  BY <1>2, <1>5 DEF Store!Next

\* A result that becomes visible and whole, and keeps its place, is put.
LEMMA PutStep ==
  ASSUME NEW r \in Requests, Begun(r), ~Begun(r)', Visible(r)', grib'[r] = r.need,
         \A q \in Requests \ {r} : /\ Visible(q)' <=> Visible(q)
                                   /\ Begun(q)' <=> Begun(q)
                                   /\ grib'[q] = grib[q],
         \A p, q \in Requests : Earlier(p, q)' <=> Earlier(p, q)
  PROVE  Store!Next
<1>1. r \in Making /\ Making' = Making \ {r}
  BY DEF Making
<1>2. Content' = [Content EXCEPT ![r] = [q \in Requests |-> q.need][r]]
  BY DEF Content
<1>3. \A q \in Requests : Placed(q)' <=> Placed(q)
  BY DEF Placed
<1>4. Older' = Older
  BY <1>3 DEF Older
<1> QED
  BY <1>1, <1>2, <1>4 DEF Store!Put, Store!Next

-----------------------------------------------------------------------------
(* Each step is a step of the store or none.                                *)

\* A visible result is touched: the store sees a use.  Otherwise the file of a
\* result that has no place is emptied: the store sees nothing.
LEMMA LookupStep ==
  ASSUME StoreInv, NEW w \in Workers, Lookup(w),
         NEW r \in Requests, r = job[w].req
  PROVE  Store!Next
<1> USE DEF StoreInv, ResultInv
<1>0. /\ r \in Requests /\ job \in [Workers -> JobType] /\ Owns(w, r)
      /\ part \in [Requests -> SUBSET Grid] /\ job[w].pc = "owner"
      /\ \A q \in Requests : Grib(q) \in Files /\ Part(q) \in Files
  BY FileNames DEF Lookup, TypeOK, JobType, Owns
<1>1. UNCHANGED <<grib, meta>> /\ \A q \in Requests : Visible(q)' <=> Visible(q)
  BY DEF Lookup, Visible
<1>2. CASE Visible(r)
  <2>1. mtimes' = Stamped(Grib(r)) /\ job' = [job EXCEPT ![w].pc = "sweep"] /\ part' = part
    BY <1>2, Zenon DEF Lookup, Visible
  <2>2. /\ job'[w].req = r /\ job'[w].pc = "sweep"
        /\ \A v \in Workers \ {w} : job'[v] = job[v]
    BY <1>0, <2>1 DEF JobType
  <2>3. \A q \in Requests : /\ Cropping(q)' <=> Cropping(q)
                            /\ Publishing(q)' <=> Publishing(q)
    BY <1>0, <2>2, OwnWork
  <2>4. \A q \in Requests : Begun(q)' <=> Begun(q)
    BY <1>1, <2>1, <2>3 DEF Begun
  <2>5. \A q \in Requests : FileOf(q)' = FileOf(q)
    BY <2>3 DEF FileOf
  <2>6. FileOf(r) = Grib(r)
    BY <1>0, <1>2, PlacedFilled DEF FileOf
  <2>7. \A q \in Requests \ {r} : FileOf(q) # Grib(r)
    BY <1>0, NamesDiffer DEF FileOf
  <2>8. Older' = Store!Renewed(r)
    <3>1. Placed(r)' /\ \A q \in Requests : Placed(q)' <=> Placed(q)
      BY <1>0, <1>1, <1>2, <2>4 DEF Placed
    <3>2. \A p, q \in Requests \ {r} : Earlier(p, q)' <=> Earlier(p, q)
      BY <2>1, <2>5, <2>7, StampedLast DEF Earlier
    <3>3. \A q \in Requests \ {r} : Placed(q) => Earlier(q, r)'
      BY <1>0, <2>1, <2>5, <2>6, <2>7, PlacedFilled, StampedLast DEF Earlier
    <3>4. \A q \in Requests : ~Earlier(r, q)'
      <4>1. \A q \in Requests : <<Grib(r), FileOf(q)>> \notin mtimes'
        BY <2>1 DEF Stamped, Others
      <4> QED
        BY <1>0, <2>5, <2>6, <4>1 DEF Earlier
    <3> QED
      BY <1>0, <3>1, <3>2, <3>3, <3>4, RenewedOlder
  <2>9. Content' = Content /\ Making' = Making
    BY <1>1, <2>4 DEF Content, Making
  <2> QED
    BY <1>0, <1>2, <2>8, <2>9, KeptVisible DEF Store!Use, Store!Next
<1>3. CASE ~Visible(r)
  <2>1. /\ mtimes' = Others(Part(r)) /\ part' = [part EXCEPT ![r] = {}]
        /\ job' = [job EXCEPT ![w].pc = "crop", ![w].todo = r.need]
    BY <1>3, Zenon DEF Lookup, Visible
  <2>2. /\ job'[w].req = r /\ job'[w].pc = "crop"
        /\ \A v \in Workers \ {w} : job'[v] = job[v]
    BY <1>0, <2>1 DEF JobType
  <2>3. /\ Cropping(r)' /\ ~Publishing(r)' 
        /\ \A q \in Requests \ {r} : /\ Cropping(q)' <=> Cropping(q)
                                     /\ Publishing(q)' <=> Publishing(q)
    BY <1>0, <2>2, OwnWork
  <2>4. ~Begun(r)' /\ \A q \in Requests \ {r} : Begun(q)' <=> Begun(q)
    BY <1>0, <1>1, <2>1, <2>3 DEF Begun
  <2>5. \A q \in Requests \ {r} : FileOf(q)' = FileOf(q) /\ FileOf(q) # Part(r)
    BY <1>0, <2>3, NamesDiffer DEF FileOf
  <2>6. \A p, q \in Requests \ {r} : Earlier(p, q)' <=> Earlier(p, q)
    BY <2>1, <2>5, OthersKept DEF Earlier
  <2>7. ~Placed(r)'
    BY <1>0, <1>1, <1>3, <2>4 DEF Placed
  <2> QED
    BY <1>1, <2>4, <2>6, <2>7, GiveUpStep
<1> QED
  BY <1>2, <1>3

\* A crop is appended to the part file: the store sees a piece being made.
LEMMA CropStep ==
  ASSUME StoreInv, NEW w \in Workers, Crop(w),
         NEW r \in Requests, r = job[w].req
  PROVE  Store!Next
<1> USE DEF StoreInv, ResultInv
<1>0. /\ r \in Requests /\ job \in [Workers -> JobType] /\ Owns(w, r)
      /\ part \in [Requests -> SUBSET Grid] /\ job[w].pc = "crop"
  BY DEF Crop, TypeOK, JobType, Owns
<1>1. UNCHANGED <<grib, meta>> /\ \A q \in Requests : Visible(q)' <=> Visible(q)
  BY DEF Crop, Visible
<1>2. PICK k : /\ part' = [part EXCEPT ![r] = part[r] \cup {k}]
               /\ job' = [job EXCEPT ![w].todo = job[w].todo \ {k}]
  BY Zenon DEF Crop
<1>3. mtimes' = Stamped(Part(r))
  BY DEF Crop
<1>4. /\ job'[w].req = r /\ job'[w].pc = "crop"
      /\ \A v \in Workers \ {w} : job'[v] = job[v]
  BY <1>0, <1>2 DEF JobType
<1>5. /\ Cropping(r) /\ Cropping(r)'
      /\ \A q \in Requests : /\ Cropping(q)' <=> Cropping(q)
                             /\ Publishing(q)' <=> Publishing(q)
  BY <1>0, <1>4, OwnWork
<1>6. Begun(r)' /\ \A q \in Requests \ {r} : Begun(q)' <=> Begun(q)
  BY <1>0, <1>1, <1>2, <1>5 DEF Begun
<1>7. /\ FileOf(r)' = Part(r)
      /\ \A q \in Requests \ {r} : FileOf(q)' = FileOf(q) /\ FileOf(q) # Part(r)
  BY <1>0, <1>5, NamesDiffer DEF FileOf
<1>8. Older' = Store!Renewed(r)
  <2>1. Placed(r)' /\ \A q \in Requests \ {r} : Placed(q)' <=> Placed(q)
    BY <1>0, <1>1, <1>6 DEF Placed
  <2>2. \A p, q \in Requests \ {r} : Earlier(p, q)' <=> Earlier(p, q)
    BY <1>3, <1>7, StampedLast DEF Earlier
  <2>3. \A q \in Requests \ {r} : Placed(q) => Earlier(q, r)'
    BY <1>0, <1>3, <1>7, PlacedFilled, StampedLast DEF Earlier
  <2>4. \A q \in Requests : ~Earlier(r, q)'
    <3>1. \A q \in Requests : <<Part(r), FileOf(q)'>> \notin mtimes'
      BY <1>3 DEF Stamped, Others
    <3> QED
      BY <1>0, <1>7, <3>1 DEF Earlier
  <2> QED
    BY <1>0, <2>1, <2>2, <2>3, <2>4, RenewedOlder
<1>9. Content' = Content /\ Making' = Making \cup {r} /\ Content[r] = Store!Absent
  <2>1. ~Visible(r)
    BY <1>0, <1>5, PlacedFilled
  <2> QED
    BY <1>0, <1>1, <1>6, <2>1, KeptVisible DEF Content, Making
<1> QED
  BY <1>0, <1>8, <1>9 DEF Store!Make, Store!Next

\* The part file is unlinked: the store gives up what was begun.
LEMMA JobFailsStep ==
  ASSUME StoreInv, NEW w \in Workers, JobFails(w),
         NEW r \in Requests, r = job[w].req
  PROVE  Store!Next
<1> USE DEF StoreInv, ResultInv
<1>0. /\ r \in Requests /\ job \in [Workers -> JobType] /\ Owns(w, r)
      /\ part \in [Requests -> SUBSET Grid] /\ job[w].pc = "crop"
  BY DEF JobFails, TypeOK, JobType, Owns
<1>1. UNCHANGED <<grib, meta>> /\ \A q \in Requests : Visible(q)' <=> Visible(q)
  BY DEF JobFails, Visible
<1>2. /\ part' = [part EXCEPT ![r] = {}] /\ mtimes' = Others(Part(r))
      /\ job' = [job EXCEPT ![w].pc = "sweep"]
  BY Zenon DEF JobFails
<1>3. /\ job'[w].req = r /\ job'[w].pc = "sweep"
      /\ \A v \in Workers \ {w} : job'[v] = job[v]
  BY <1>0, <1>2 DEF JobType
<1>4. /\ Cropping(r) /\ ~Cropping(r)' /\ ~Publishing(r)'
      /\ \A q \in Requests \ {r} : /\ Cropping(q)' <=> Cropping(q)
                                   /\ Publishing(q)' <=> Publishing(q)
  BY <1>0, <1>3, OwnWork
<1>5. ~Begun(r)' /\ \A q \in Requests \ {r} : Begun(q)' <=> Begun(q)
  BY <1>0, <1>1, <1>2, <1>4 DEF Begun
<1>6. ~Placed(r)'
  BY <1>0, <1>1, <1>4, <1>5, PlacedFilled DEF Placed
<1>7. \A q \in Requests \ {r} : FileOf(q)' = FileOf(q) /\ FileOf(q) # Part(r)
  BY <1>0, <1>4, NamesDiffer DEF FileOf
<1>8. \A p, q \in Requests \ {r} : Earlier(p, q)' <=> Earlier(p, q)
  BY <1>2, <1>7, OthersKept DEF Earlier
<1> QED
  BY <1>1, <1>5, <1>6, <1>8, GiveUpStep

\* The part file becomes the .grib2 and keeps its time.  With the .json of an
\* earlier result in place the store sees a put, without one it sees nothing.
LEMMA PublishStep ==
  ASSUME StoreInv, NEW w \in Workers, Publish(w),
         NEW r \in Requests, r = job[w].req
  PROVE  Store!Next
<1> USE DEF StoreInv, ResultInv
<1>0. /\ r \in Requests /\ job \in [Workers -> JobType] /\ Owns(w, r)
      /\ part \in [Requests -> SUBSET Grid] /\ grib \in [Requests -> SUBSET Grid]
      /\ job[w].pc = "crop" /\ mtimes \subseteq Files \X Files
      /\ part[r] = r.need /\ r.need # {}
  BY CacheAssumption DEF Publish, PartAccounts, TypeOK, JobType, Owns
<1>1. /\ grib' = [grib EXCEPT ![r] = r.need] /\ meta' = meta
      /\ part' = [part EXCEPT ![r] = {}] /\ mtimes' = Renamed(Part(r), Grib(r))
      /\ job' = [job EXCEPT ![w].pc = "published"]
  BY <1>0, Zenon DEF Publish
<1>2. /\ job'[w].req = r /\ job'[w].pc = "published"
      /\ \A v \in Workers \ {w} : job'[v] = job[v]
  BY <1>0, <1>1 DEF JobType
<1>3. /\ Cropping(r) /\ ~Publishing(r) /\ ~Cropping(r)' /\ Publishing(r)'
      /\ \A q \in Requests \ {r} : /\ Cropping(q)' <=> Cropping(q)
                                   /\ Publishing(q)' <=> Publishing(q)
  BY <1>0, <1>2, OwnWork
<1>4. /\ Begun(r) /\ ~Visible(r) /\ (Visible(r)' <=> r \in meta)
      /\ Begun(r)' <=> ~Visible(r)'
      /\ grib'[r] = r.need
  BY <1>0, <1>1, <1>3, PlacedFilled DEF Begun, Visible
<1>5. \A q \in Requests \ {r} : /\ Visible(q)' <=> Visible(q)
                                /\ Begun(q)' <=> Begun(q)
                                /\ grib'[q] = grib[q]
  BY <1>0, <1>1, <1>3 DEF Begun, Visible
<1>6. \A p, q \in Requests : Earlier(p, q)' <=> Earlier(p, q)
  <2> DEFINE name(h) == IF h = Part(r) THEN Grib(r) ELSE h
  <2>1. \A q \in Requests : FileOf(q)' = name(FileOf(q)) /\ FileOf(q) # Grib(r)
    BY <1>0, <1>3, NamesDiffer DEF FileOf
  <2>2. Part(r) # Grib(r) /\ Part(r) \in Files /\ Grib(r) \in Files
    BY <1>0, NamesDiffer, FileNames
  <2>3. \A x, y : x # Grib(r) /\ y # Grib(r) =>
          (<<name(x), name(y)>> \in Renamed(Part(r), Grib(r)) <=> <<x, y>> \in mtimes)
    BY <1>0, <2>2, RenamedKept
  <2> HIDE DEF name
  <2> QED
    BY <1>1, <2>1, <2>3 DEF Earlier
<1>7. CASE r \in meta
  BY <1>0, <1>4, <1>5, <1>6, <1>7, PutStep
<1>8. CASE r \notin meta
  BY <1>4, <1>5, <1>6, <1>8, GiveUpStep
<1> QED
  BY <1>7, <1>8

\* The .json appears, and the store sees a put if it was not there before; or
\* writing it fails, and the store gives up the result.
LEMMA MetadataStep ==
  ASSUME StoreInv, NEW w \in Workers, WriteMetadata(w),
         NEW r \in Requests, r = job[w].req
  PROVE  Store!Next
<1> USE DEF StoreInv, ResultInv
<1>0. /\ r \in Requests /\ job \in [Workers -> JobType] /\ Owns(w, r)
      /\ job[w].pc = "published" /\ grib[r] # {} /\ grib[r] = r.need
  BY DEF WriteMetadata, PublishedAlone, GribWhole, TypeOK, JobType, Owns
<1>1. /\ UNCHANGED <<grib, part, mtimes>> /\ meta' \in {meta, meta \cup {r}}
      /\ job' = [job EXCEPT ![w].pc = "sweep"]
  BY Zenon DEF WriteMetadata
<1>2. /\ job'[w].req = r /\ job'[w].pc = "sweep"
      /\ \A v \in Workers \ {w} : job'[v] = job[v]
  BY <1>0, <1>1 DEF JobType
<1>3. /\ Publishing(r) /\ ~Cropping(r) /\ ~Cropping(r)' /\ ~Publishing(r)'
      /\ \A q \in Requests \ {r} : /\ Cropping(q)' <=> Cropping(q)
                                   /\ Publishing(q)' <=> Publishing(q)
  BY <1>0, <1>2, OwnWork
<1>4. ~Begun(r)' /\ (Begun(r) <=> ~Visible(r))
  BY <1>0, <1>1, <1>3 DEF Begun
<1>5. \A q \in Requests \ {r} : /\ Visible(q)' <=> Visible(q)
                                /\ Begun(q)' <=> Begun(q)
  BY <1>0, <1>1, <1>3 DEF Begun, Visible
<1>6. \A p, q \in Requests : Earlier(p, q)' <=> Earlier(p, q)
  <2>1. \A q \in Requests : FileOf(q)' = FileOf(q)
    BY <1>3 DEF FileOf
  <2> QED
    BY <1>1, <2>1 DEF Earlier
<1>7. CASE Visible(r)' <=> Visible(r)
  BY <1>1, <1>4, <1>5, <1>6, <1>7, GiveUpStep
<1>8. CASE ~(Visible(r)' <=> Visible(r))
  <2>1. ~Visible(r) /\ Visible(r)' /\ grib'[r] = r.need
    BY <1>0, <1>1, <1>8 DEF Visible
  <2> QED
    BY <1>0, <1>1, <1>4, <1>5, <1>6, <2>1, PutStep
<1> QED
  BY <1>7, <1>8

\* The oldest .grib2 is unlinked: the store evicts the result, or sees nothing
\* if it had no .json.
LEMMA EvictStep ==
  ASSUME StoreInv, EvictResult
  PROVE  Store!Next
<1> USE DEF StoreInv, ResultInv
<1>1. PICK r \in Gribs :
        /\ \A q \in Gribs : <<Grib(q), Grib(r)>> \notin mtimes
        /\ grib' = [grib EXCEPT ![r] = {}]
        /\ mtimes' = Others(Grib(r))
  BY DEF EvictResult
<1>2. UNCHANGED <<meta, part, job>>
  BY DEF EvictResult
<1>0. /\ r \in Requests /\ grib \in [Requests -> SUBSET Grid]
      /\ \A q \in Requests : ~Publishing(q)
  BY DEF EvictResult, Gribs, PublishedAlone, Publishing, TypeOK
<1>3. \A q \in Requests : /\ Cropping(q)' <=> Cropping(q)
                          /\ Publishing(q)' <=> Publishing(q)
                          /\ Begun(q)' <=> Begun(q)
                          /\ FileOf(q)' = FileOf(q)
  BY <1>0, <1>2 DEF Cropping, Publishing, Begun, FileOf
<1>4. /\ ~Visible(r)'
      /\ \A q \in Requests \ {r} : (Visible(q)' <=> Visible(q)) /\ grib'[q] = grib[q]
  BY <1>0, <1>1, <1>2 DEF Visible
<1>5. \A q \in Requests : Placed(q)' => FileOf(q) # Grib(r)
  <2>1. \A q \in Requests \ {r} : FileOf(q) # Grib(r)
    BY <1>0, NamesDiffer DEF FileOf
  <2>2. Placed(r)' => FileOf(r) = Part(r)
    BY <1>0, <1>3, <1>4 DEF Placed, Begun, FileOf
  <2> QED
    BY <1>0, <2>1, <2>2, NamesDiffer
<1>6. \A p, q \in Requests : Placed(p)' /\ Placed(q)' => (Earlier(p, q)' <=> Earlier(p, q))
  BY <1>1, <1>3, <1>5, OthersKept DEF Earlier
<1>7. CASE Visible(r)
  <2>1. ASSUME NEW q \in Store!Kept PROVE <<q, r>> \notin Older
    <3>1. q \in Requests /\ Visible(q)
      BY <2>1, KeptVisible DEF Store!Kept
    <3>2. FileOf(q) = Grib(q) /\ FileOf(r) = Grib(r)
      BY <1>0, <1>7, <3>1, PlacedFilled DEF FileOf
    <3>3. q \in Gribs
      BY <3>1 DEF Gribs, Visible
    <3> QED
      BY <1>1, <3>2, <3>3 DEF Older, Earlier
  <2>2. Content' = [Content EXCEPT ![r] = Store!Absent] /\ Making' = Making
    BY <1>0, <1>3, <1>4 DEF Content, Making, Store!Absent
  <2>3. ~Begun(r)
    BY <1>0, <1>7, PlacedFilled
  <2>4. \A q \in Requests : Placed(q)' <=> Placed(q) /\ q \notin {r}
    BY <1>3, <1>4, <2>3 DEF Placed
  <2>5. Older' = Store!Without({r})
    BY <1>6, <2>4, WithoutOlder
  <2> QED
    BY <1>0, <1>7, <2>1, <2>2, <2>5, KeptVisible DEF Store!Evict, Store!Next
<1>8. CASE ~Visible(r)
  BY <1>3, <1>4, <1>6, <1>8, GiveUpStep
<1> QED
  BY <1>7, <1>8

\* The service dies: the store gives up whatever was begun.
LEMMA CrashStep ==
  ASSUME StoreInv, CrashService
  PROVE  Store!Next
<1>1. UNCHANGED results /\ \A w \in Workers : job'[w].pc = "idle"
  BY DEF CrashService, NoJob
<1>2. \A q \in Requests : ~Cropping(q)' /\ ~Publishing(q)' /\ ~Begun(q)'
  BY <1>1 DEF Cropping, Publishing, Begun
<1>3. \A q \in Requests : (Visible(q)' <=> Visible(q)) /\ grib'[q] = grib[q]
  BY <1>1 DEF Visible, results
<1>4. \A q \in Requests : Placed(q)' => FileOf(q)' = FileOf(q)
  BY <1>2, <1>3, PlacedFilled DEF Placed, FileOf
<1>5. \A p, q \in Requests : Placed(p)' /\ Placed(q)' => (Earlier(p, q)' <=> Earlier(p, q))
  BY <1>1, <1>4 DEF Earlier, results
<1> QED
  BY <1>2, <1>3, <1>5, GiveUpStep

\* The refinement mapping, step by step.
LEMMA StoreStep ==
  ASSUME StoreInv, [Next]_vars
  PROVE  Store!Next
<1>0. TypeOK
  BY DEF StoreInv, ResultInv
<1>1. ASSUME NEW w \in Workers,
             \/ Lookup(w) \/ Crop(w) \/ JobFails(w) \/ Publish(w) \/ WriteMetadata(w)
      PROVE  Store!Next
  <2>1. job[w].req \in Requests
    BY <1>0 DEF TypeOK, JobType
  <2> QED
    BY <1>1, <2>1, LookupStep, CropStep, JobFailsStep, PublishStep, MetadataStep
<1>2. CASE EvictMetadata
  <2>1. UNCHANGED <<grib, part, mtimes, job>> /\ meta' = meta \ sweeper.json
    BY <1>2 DEF EvictMetadata
  <2>2. \A q \in Requests : Visible(q)' <=> Visible(q)
    BY <2>1 DEF Visible, StoreInv, UnlinkedGone
  <2>3. \A q \in Requests : (Begun(q)' <=> Begun(q)) /\ FileOf(q)' = FileOf(q)
    BY <2>1, <2>2 DEF Begun, FileOf, Cropping, Publishing
  <2>4. \A p, q \in Requests : Earlier(p, q)' <=> Earlier(p, q)
    BY <2>1, <2>3 DEF Earlier
  <2> QED
    BY <2>1, <2>2, <2>3, <2>4, GiveUpStep
<1>3. CASE /\ UNCHANGED results
           /\ \A w \in Workers :
                {job[w].pc, job'[w].pc} \cap {"crop", "published"} # {} =>
                  job'[w] = job[w]
  <2>1. \A q \in Requests : (Visible(q)' <=> Visible(q)) /\ grib'[q] = grib[q]
    BY <1>3 DEF Visible, results
  <2>2. \A q \in Requests : /\ Cropping(q)' <=> Cropping(q)
                            /\ Publishing(q)' <=> Publishing(q)
    BY <1>3 DEF Cropping, Publishing
  <2>3. \A q \in Requests : (Begun(q)' <=> Begun(q)) /\ FileOf(q)' = FileOf(q)
    BY <1>3, <2>1, <2>2 DEF Begun, FileOf, results
  <2>4. \A p, q \in Requests : Earlier(p, q)' <=> Earlier(p, q)
    BY <1>3, <2>3 DEF Earlier, results
  <2> QED
    BY <2>1, <2>3, <2>4, GiveUpStep
<1> QED
  BY <1>0, <1>1, <1>2, <1>3, EvictStep, CrashStep, EntryFrame

\* The result directory of two processes that crash and exclude each other with
\* file locks is a store of whole results which gives up the one first that was
\* used least recently or, if never used, made least recently, for any number of
\* workers and requests and any quota: each step of Cache.make_result() and of
\* prune_results() is one step of the store or invisible to a client.
THEOREM ResultsFormAStore == Spec => ImplementsStore
<1>1. Init => StoreInv
  BY InitType
  DEF Init, NoJob, NoSweep, StoreInv, ResultInv, OneOwner, Owns, PartAccounts,
    GribWhole, PublishedAlone, CropsHidden, UnlinkedGone
<1>2. Init => Store!Init
  <2>1. Init => \A w \in Workers : job[w].pc = "idle"
    BY DEF Init, NoJob
  <2>2. Init => \A q \in Requests : ~Visible(q)
    BY DEF Init, Visible
  <2>3. Init => \A q \in Requests : ~Begun(q)
    BY <2>1 DEF Begun, Cropping, Publishing
  <2> QED
    BY <2>2, <2>3 DEF Store!Init, Store!Absent, Content, Making, Older, Placed
<1>3. StoreInv /\ [Next]_vars => [Store!Next]_Store!storeVars
  BY StoreStep
<1> QED
  BY <1>1, <1>2, <1>3, StoreInvNext, PTL DEF Spec, ImplementsStore, Store!Spec

-----------------------------------------------------------------------------
(* The inductive invariant.                                                 *)

\* The ingestion lock admits one ingester.
OneIngester == \A i, j \in Ingesters : ing[i].pc # "idle" /\ ing[j].pc # "idle" => i = j

\* prune() never has one of the two newest complete cycles on its list, even
\* after the list was made.
VictimsOld == \A i \in Ingesters :
                ing[i].pc \in {"prune", "rmtree"} => ing[i].todo \cap Newest2(marker) = {}

\* rmtree has a cycle to remove.
RmtreeHasVictim == \A i \in Ingesters : ing[i].pc = "rmtree" => ing[i].todo # {}

\* ingest(), which publishes without looking again, has every file that it no
\* longer plans to download.
FetchAccounts == \A i \in Ingesters :
                   ing[i].pc = "fetch" /\ ing[i].mode = "ingest" =>
                     Grid \ ing[i].plan \subseteq source[ing[i].cycle]

RetentionInv == /\ TypeOK
                /\ OneIngester
                /\ VictimsOld
                /\ RmtreeHasVictim
                /\ FetchAccounts
                /\ NewestTwoGenuine

-----------------------------------------------------------------------------
(* Facts about the oldest and the newest of a set of cycles.                *)

Less == {p \in Nat \X Nat : p[1] < p[2]}

\* A set of cycles that is not empty has an oldest one, so prune() finds its
\* next cycle.
LEMMA HasOldest ==
  ASSUME NEW T \in SUBSET Cycles, T # {}
  PROVE  \E c \in T : \A d \in T : c <= d
<1>1. T \subseteq Nat
  BY DEF Cycles
<1>2. IsWellFoundedOn(Less, Nat)
  BY NatLessThanWellFounded DEF OpToRel, Less
<1>3. \E c \in T : \A d \in T : ~ (<<d, c>> \in Less)
  BY <1>1, <1>2, WFMin
<1>4. PICK c \in T : \A d \in T : ~ (<<d, c>> \in Less)
  BY <1>3
<1>5. ASSUME NEW d \in T PROVE c <= d
  <2>1. ~(d < c)
    BY <1>1, <1>4 DEF Less
  <2> QED
    BY <1>1, <2>1
<1> QED
  BY <1>5

\* The cycle under rmtree is on the list of prune().
LEMMA VictimListed ==
  ASSUME TypeOK, NEW i \in Ingesters, ing[i].todo # {}
  PROVE  Victim(i) \in ing[i].todo
<1>1. ing[i].todo \in SUBSET Cycles
  BY DEF TypeOK, IngesterType
<1>2. \E c \in ing[i].todo : \A d \in ing[i].todo : c <= d
  BY <1>1, HasOldest
<1> QED
  BY <1>2 DEF Victim

\* Removing a cycle that is not one of the newest two changes nothing for them,
\* and a new member can only displace them.
LEMMA NewestAfterRemoval ==
  ASSUME NEW S \in SUBSET Cycles, NEW v, v \notin Newest2(S)
  PROVE  Newest2(S \ {v}) = Newest2(S)
<1>1. CASE v \notin S
  <2>1. S \ {v} = S
    BY <1>1
  <2> QED
    BY <2>1
<1>2. CASE v \in S
  <2>1. PICK d \in S, e \in S : v < d /\ d < e
    BY <1>2 DEF Newest2
  <2>2. ASSUME NEW c \in Newest2(S \ {v}) PROVE c \in Newest2(S)
    <3>1. c \in S /\ S \subseteq Int
      BY DEF Newest2, Cycles
    <3>2. ~(c < d)
      BY <2>1, <3>1 DEF Newest2
    <3> QED
      BY <2>1, <3>1, <3>2 DEF Newest2
  <2>3. Newest2(S) \subseteq Newest2(S \ {v})
    BY DEF Newest2
  <2> QED
    BY <2>2, <2>3
<1> QED
  BY <1>1, <1>2

LEMMA NewestAfterAddition ==
  ASSUME NEW S, NEW c
  PROVE  Newest2(S \cup {c}) \subseteq Newest2(S) \cup {c}
  BY DEF Newest2

-----------------------------------------------------------------------------
(* What a step can change: two more frame lemmas.                           *)

\* A marker disappears under rmtree and appears when a cycle is finished.
LEMMA MarkerFrame ==
  ASSUME TypeOK, [Next]_vars
  PROVE  \/ marker' = marker
         \/ \E i \in Ingesters : /\ ing[i].pc = "rmtree"
                                 /\ marker' = marker \ {Victim(i)}
         \/ \E i \in Ingesters : Finish(i) /\ marker' = marker \cup {ing[i].cycle}
<1>1. CASE \E i \in Ingesters : IngesterStep(i)
  <2>1. PICK i \in Ingesters : IngesterStep(i)
    BY <1>1
  <2>2. CASE RmtreeEntry(i)
    BY <2>2 DEF RmtreeEntry
  <2>3. CASE Finish(i)
    BY <2>3 DEF Finish
  <2> QED
    BY <2>1, <2>2, <2>3
    DEF IngesterStep, PruneTake, PruneSkip, RmtreeDone, PruneDone, Admit,
      Download, DownloadFails, disk
<1>2. CASE \E w \in Workers : Accept(w) \/ WorkerStep(w) \/ JobFails(w)
  BY <1>2 DEF Accept, WorkerStep, JobFails, PinCycle, CheckCoverage,
    EnterResult, Lookup, Crop, Publish, WriteMetadata, disk
<1> QED
  BY <1>1, <1>2
  DEF Next, vars, disk, Tick, WatchWake, WatchCandidate, OperatorIngest,
    CrashIngester, CrashService, ReaderPin, ReaderUnpin, SweepStep, SweepBegin,
    SweepEnd, EvictResult, EvictMetadata

\* One ingester at most moves in a step, and it starts only when all are idle.
LEMMA IngesterFrame ==
  ASSUME TypeOK, [Next]_vars
  PROVE  \/ UNCHANGED ing
         \/ \E i \in Ingesters :
              /\ \A j \in Ingesters \ {i} : ing'[j] = ing[j]
              /\ ing[i].pc = "idle" /\ ing'[i].pc # "idle" => ~Ingesting
<1> DEFINE Moves(i) == /\ \A j \in Ingesters \ {i} : ing'[j] = ing[j]
                       /\ ing[i].pc = "idle" /\ ing'[i].pc # "idle" => ~Ingesting
<1>1. CASE \E i \in Ingesters : IngesterStep(i) \/ CrashIngester(i)
  <2>1. PICK i \in Ingesters : IngesterStep(i) \/ CrashIngester(i)
    BY <1>1
  <2>2. ing[i].pc # "idle"
    BY <2>1 DEF IngesterStep, PruneTake, PruneSkip, RmtreeEntry, RmtreeDone,
      PruneDone, Admit, Download, DownloadFails, Finish, CrashIngester
  <2>3. \A j \in Ingesters \ {i} : ing'[j] = ing[j]
    <3>1. CASE PruneTake(i) \/ PruneSkip(i) \/ RmtreeEntry(i)
      BY <3>1 DEF PruneTake, PruneSkip, RmtreeEntry, TypeOK
    <3>2. CASE RmtreeDone(i) \/ PruneDone(i) \/ Download(i)
      BY <3>2 DEF RmtreeDone, PruneDone, Download, TypeOK
    <3>3. CASE Admit(i) \/ CrashIngester(i)
      BY <3>3 DEF Admit, CrashIngester, Leave, TypeOK
    <3>4. CASE DownloadFails(i) \/ Finish(i)
      BY <3>4 DEF DownloadFails, Finish, Leave, TypeOK
    <3> QED
      BY <2>1, <3>1, <3>2, <3>3, <3>4 DEF IngesterStep
  <2> QED
    BY <2>2, <2>3
<1>2. CASE WatchWake \/ WatchCandidate
  <2>1. UNCHANGED ing \/ \E c, m : Begin(Watcher, c, m)
    BY <1>2 DEF WatchWake, WatchCandidate
  <2>2. UNCHANGED ing \/ Moves(Watcher)
    BY <2>1, CacheAssumption DEF Begin, TypeOK
  <2> QED
    BY <2>2, CacheAssumption
<1>3. CASE \E i \in Ingesters : OperatorIngest(i)
  BY <1>3 DEF OperatorIngest, Begin, TypeOK
<1>4. CASE \E p \in Ingesters \cup Workers : SweepStep(p)
  <2>1. PICK p \in Ingesters \cup Workers : SweepStep(p)
    BY <1>4
  <2>2. CASE SweepBegin(p)
    BY <2>2 DEF SweepBegin
  <2>3. CASE SweepEnd(p)
    <3>1. CASE p \notin Ingesters
      BY <2>3, <3>1 DEF SweepEnd
    <3>2. CASE p \in Ingesters
      <4>1. \A j \in Ingesters \ {p} : ing'[j] = ing[j]
        BY <2>3, <3>2 DEF SweepEnd, Leave, TypeOK
      <4>2. ing[p].pc # "idle"
        BY <2>3, <3>2, CacheAssumption DEF SweepEnd, WantsSweep
      <4> QED
        BY <3>2, <4>1, <4>2
    <3> QED
      BY <3>1, <3>2
  <2> QED
    BY <2>1, <2>2, <2>3 DEF SweepStep
<1>5. CASE \E w \in Workers : Accept(w) \/ WorkerStep(w) \/ JobFails(w)
  BY <1>5 DEF Accept, WorkerStep, JobFails, PinCycle, CheckCoverage,
    EnterResult, Lookup, Crop, Publish, WriteMetadata
<1> QED
  BY <1>1, <1>2, <1>3, <1>4, <1>5
  DEF Next, vars, Tick, CrashService, ReaderPin, ReaderUnpin, EvictResult,
    EvictMetadata

\* The list of prune() is made away from the newest two, and then shrinks.
LEMMA PruneFrame ==
  ASSUME TypeOK, [Next]_vars, NEW i \in Ingesters,
         ing'[i].pc \in {"prune", "rmtree"}, ing'[i] # ing[i]
  PROVE  \/ ing'[i].todo \cap Newest2(marker') = {}
         \/ /\ marker' = marker
            /\ ing[i].pc \in {"prune", "rmtree"}
            /\ ing'[i].todo \subseteq ing[i].todo
<1> DEFINE Fresh == ing'[i].todo \cap Newest2(marker') = {}
           Shrinks == /\ marker' = marker
                      /\ ing[i].pc \in {"prune", "rmtree"}
                      /\ ing'[i].todo \subseteq ing[i].todo
<1>1. CASE \E j \in Ingesters : IngesterStep(j)
  <2>1. PICK j \in Ingesters : IngesterStep(j)
    BY <1>1
  <2>2. CASE PruneTake(j) \/ PruneSkip(j) \/ RmtreeEntry(j)
    BY <2>2 DEF PruneTake, PruneSkip, RmtreeEntry, TypeOK, IngesterType, disk
  <2>3. CASE RmtreeDone(j)
    BY <2>3 DEF RmtreeDone, TypeOK, IngesterType
  <2>4. CASE PruneDone(j) \/ Download(j)
    BY <2>4 DEF PruneDone, Download, TypeOK, IngesterType
  <2>5. CASE Admit(j)
    BY <2>5 DEF Admit, Leave, Idle, TypeOK, IngesterType
  <2>6. CASE DownloadFails(j)
    BY <2>6 DEF DownloadFails, Leave, Idle, TypeOK, IngesterType
  <2>7. CASE Finish(j)
    <3>1. i = j /\ ing'[j].todo = runs \ Newest2(marker')
      BY <2>7 DEF Finish, Leave, Idle, TypeOK, IngesterType
    <3> QED
      BY <3>1
  <2> QED
    BY <2>1, <2>2, <2>3, <2>4, <2>5, <2>6, <2>7 DEF IngesterStep
<1>2. CASE WatchWake \/ WatchCandidate \/ \E j \in Ingesters : OperatorIngest(j)
  <2>1. PICK j \in Ingesters, c \in Cycles \cup 1..clock,
             m \in {"ingest", "advance"} : Begin(j, c, m)
    BY <1>2, CacheAssumption DEF WatchWake, WatchCandidate, OperatorIngest,
      TypeOK
  <2>2. i = j /\ ing'[j].todo = runs \ (Newest2(marker) \cup {c})
    BY <2>1 DEF Begin, TypeOK
  <2>3. marker' = marker
    BY <1>2 DEF WatchWake, WatchCandidate, OperatorIngest, disk
  <2> QED
    BY <2>2, <2>3
<1>3. CASE \E j \in Ingesters : CrashIngester(j)
  BY <1>3 DEF CrashIngester, Leave, Idle, TypeOK
<1>4. CASE \E p \in Ingesters \cup Workers : SweepStep(p)
  BY <1>4 DEF SweepStep, SweepBegin, SweepEnd, Leave, Idle, TypeOK, IngesterType
<1>5. CASE \E w \in Workers : Accept(w) \/ WorkerStep(w) \/ JobFails(w)
  BY <1>5 DEF Accept, WorkerStep, JobFails, PinCycle, CheckCoverage,
    EnterResult, Lookup, Crop, Publish, WriteMetadata
<1> QED
  BY <1>1, <1>2, <1>3, <1>4, <1>5
  DEF Next, vars, Tick, CrashService, ReaderPin, ReaderUnpin, EvictResult,
    EvictMetadata

\* ingest() keeps account of the files it has.
LEMMA FetchFrame ==
  ASSUME TypeOK, FetchAccounts, [Next]_vars, NEW i \in Ingesters,
         ing'[i].pc = "fetch", ing'[i].mode = "ingest", ing'[i] # ing[i]
  PROVE  Grid \ ing'[i].plan \subseteq source'[ing'[i].cycle]
<1>1. CASE \E j \in Ingesters : IngesterStep(j)
  <2>1. PICK j \in Ingesters : IngesterStep(j)
    BY <1>1
  <2>2. CASE PruneTake(j) \/ PruneSkip(j) \/ RmtreeEntry(j)
    BY <2>2 DEF PruneTake, PruneSkip, RmtreeEntry, TypeOK, IngesterType
  <2>3. CASE RmtreeDone(j) \/ PruneDone(j)
    BY <2>3 DEF RmtreeDone, PruneDone, TypeOK, IngesterType
  <2>4. CASE Download(j)
    <3>1. i = j /\ ing[i].pc = "fetch" /\ ing[i].mode = "ingest"
          /\ ing'[i].cycle = ing[i].cycle /\ ing[i].cycle \in Cycles
      BY <2>4 DEF Download, TypeOK, IngesterType
    <3>2. PICK k \in Grid : /\ source' = [source EXCEPT ![ing[i].cycle] = @ \cup {k}]
                            /\ ing' = [ing EXCEPT ![i].plan = @ \ {k}]
      BY <2>4, <3>1 DEF Download
    <3>3. /\ ing'[i].plan = ing[i].plan \ {k}
          /\ source'[ing[i].cycle] = source[ing[i].cycle] \cup {k}
      BY <3>1, <3>2 DEF TypeOK, IngesterType
    <3> QED
      BY <3>1, <3>3 DEF FetchAccounts
  <2>5. CASE Admit(j)
    <3>1. /\ i = j
          /\ source' = source
          /\ ing'[i].cycle = ing[i].cycle
          /\ ing'[i].plan = Grid \ source[ing[i].cycle]
      BY <2>5 DEF Admit, Leave, Idle, TypeOK, IngesterType
    <3> QED
      BY <3>1
  <2>6. CASE DownloadFails(j)
    BY <2>6 DEF DownloadFails, Leave, Idle, TypeOK, IngesterType
  <2>7. CASE Finish(j)
    BY <2>7 DEF Finish, Leave, Idle, TypeOK, IngesterType
  <2> QED
    BY <2>1, <2>2, <2>3, <2>4, <2>5, <2>6, <2>7 DEF IngesterStep
<1>2. CASE WatchWake \/ WatchCandidate \/ \E j \in Ingesters : OperatorIngest(j)
  BY <1>2, CacheAssumption DEF WatchWake, WatchCandidate, OperatorIngest, Begin, TypeOK
<1>3. CASE \E j \in Ingesters : CrashIngester(j)
  BY <1>3 DEF CrashIngester, Leave, Idle, TypeOK
<1>4. CASE \E p \in Ingesters \cup Workers : SweepStep(p)
  BY <1>4 DEF SweepStep, SweepBegin, SweepEnd, Leave, Idle, TypeOK, IngesterType
<1>5. CASE \E w \in Workers : Accept(w) \/ WorkerStep(w) \/ JobFails(w)
  BY <1>5 DEF Accept, WorkerStep, JobFails, PinCycle, CheckCoverage,
    EnterResult, Lookup, Crop, Publish, WriteMetadata
<1> QED
  BY <1>1, <1>2, <1>3, <1>4, <1>5
  DEF Next, vars, Tick, CrashService, ReaderPin, ReaderUnpin, EvictResult,
    EvictMetadata

-----------------------------------------------------------------------------
(* The invariant is inductive.                                              *)

LEMMA OneIngesterNext ==
  ASSUME RetentionInv, [Next]_vars
  PROVE  OneIngester'
<1>1. CASE UNCHANGED ing
  BY <1>1 DEF RetentionInv, OneIngester
<1>2. CASE ~UNCHANGED ing
  <2>1. PICK i \in Ingesters :
          /\ \A j \in Ingesters \ {i} : ing'[j] = ing[j]
          /\ ing[i].pc = "idle" /\ ing'[i].pc # "idle" => ~Ingesting
    BY <1>2, IngesterFrame DEF RetentionInv
  <2> QED
    BY <2>1 DEF RetentionInv, OneIngester, Ingesting
<1> QED
  BY <1>1, <1>2

\* No file of one of the newest two is lost, and a new member is whole.
LEMMA NewestTwoNext ==
  ASSUME RetentionInv, [Next]_vars
  PROVE  /\ \A c \in Newest2(marker) : c \in marker' /\ source[c] \subseteq source'[c]
         /\ NewestTwoGenuine'
<1>1. ASSUME NEW c \in Newest2(marker)
      PROVE  c \in Cycles /\ c \in marker' /\ source[c] \subseteq source'[c]
  <2>1. c \in Cycles /\ c \in marker
    BY DEF RetentionInv, TypeOK, Newest2
  <2>2. ASSUME NEW i \in Ingesters, ing[i].pc = "rmtree" PROVE Victim(i) # c
    BY <2>2, VictimListed DEF RetentionInv, RmtreeHasVictim, VictimsOld
  <2>3. c \in marker'
    BY <2>1, <2>2, MarkerFrame DEF RetentionInv
  <2>4. source[c] \subseteq source'[c]
    BY <2>1, <2>2, SourceFrame DEF RetentionInv, BeingRemoved
  <2> QED
    BY <2>1, <2>3, <2>4
<1>2. source' \in [Cycles -> SUBSET Grid]
  BY NextType DEF RetentionInv, TypeOK
<1>3. ASSUME NEW c \in Newest2(marker') PROVE source'[c] = Grid
  <2>1. CASE c \in Newest2(marker)
    BY <2>1, <1>1, <1>2 DEF RetentionInv, NewestTwoGenuine
  <2>2. CASE c \notin Newest2(marker)
    <3>1. marker \in SUBSET Cycles
      BY DEF RetentionInv, TypeOK
    <3>2. ASSUME NEW i \in Ingesters, ing[i].pc = "rmtree"
          PROVE  Newest2(marker \ {Victim(i)}) = Newest2(marker)
      BY <3>1, <3>2, VictimListed, NewestAfterRemoval
      DEF RetentionInv, RmtreeHasVictim, VictimsOld
    <3>3. PICK i \in Ingesters : Finish(i) /\ marker' = marker \cup {ing[i].cycle}
      BY <2>2, <3>2, MarkerFrame DEF RetentionInv
    <3>4. c = ing[i].cycle /\ c \in Cycles /\ source' = source
      <4>1. c \in Newest2(marker \cup {ing[i].cycle})
        BY <1>3, <3>3
      <4>2. c = ing[i].cycle
        BY <2>2, <4>1, NewestAfterAddition
      <4> QED
        BY <3>3, <4>2 DEF Finish, RetentionInv, TypeOK, IngesterType
    <3>5. c \notin marker
      <4>1. c \in marker => marker' = marker
        BY <3>3, <3>4
      <4> QED
        BY <1>3, <2>2, <4>1
    <3>6. ing[i].plan = {} /\ ing[i].pc = "fetch"
          /\ (ing[i].mode = "ingest" \/ Grid \subseteq source[c])
      BY <3>3, <3>4, <3>5 DEF Finish
    <3>7. Grid \subseteq source[c]
      BY <3>4, <3>6 DEF RetentionInv, FetchAccounts
    <3> QED
      BY <1>2, <3>4, <3>7
  <2> QED
    BY <2>1, <2>2
<1> QED
  BY <1>1, <1>3 DEF NewestTwoGenuine

LEMMA PruneListsNext ==
  ASSUME RetentionInv, [Next]_vars
  PROVE  VictimsOld' /\ RmtreeHasVictim'
<1>1. ASSUME NEW i \in Ingesters, ing[i].pc \in {"prune", "rmtree"},
             marker' = marker \/ ing'[i] = ing[i]
      PROVE  ing[i].todo \cap Newest2(marker') = {}
  <2>1. ing[i].todo \cap Newest2(marker) = {}
    BY <1>1 DEF RetentionInv, VictimsOld
  <2>2. marker \in SUBSET Cycles
    BY DEF RetentionInv, TypeOK
  <2>3. ASSUME NEW k \in Ingesters, ing[k].pc = "rmtree"
        PROVE  Newest2(marker \ {Victim(k)}) = Newest2(marker)
    BY <2>2, <2>3, VictimListed, NewestAfterRemoval
    DEF RetentionInv, RmtreeHasVictim, VictimsOld
  <2>4. ASSUME NEW k \in Ingesters, Finish(k), ing'[i] = ing[i]
        PROVE  FALSE
    <3>1. ing[k].pc = "fetch"
      BY <2>4 DEF Finish
    <3>2. i # k
      BY <1>1, <3>1
    <3> QED
      BY <1>1, <3>1, <3>2 DEF RetentionInv, OneIngester
  <2> QED
    BY <1>1, <2>1, <2>3, <2>4, MarkerFrame DEF RetentionInv
<1>2. VictimsOld'
  <2> SUFFICES ASSUME NEW i \in Ingesters, ing'[i].pc \in {"prune", "rmtree"}
               PROVE  ing'[i].todo \cap Newest2(marker') = {}
    BY DEF VictimsOld, Newest2
  <2>1. CASE ing'[i] = ing[i]
    BY <1>1, <2>1
  <2>2. CASE ing'[i] # ing[i]
    BY <1>1, <2>2, PruneFrame DEF RetentionInv
  <2> QED
    BY <2>1, <2>2
<1>3. RmtreeHasVictim'
  <2> SUFFICES ASSUME NEW i \in Ingesters, ing'[i].pc = "rmtree"
               PROVE  ing'[i].todo # {}
    BY DEF RmtreeHasVictim
  <2>1. CASE ing'[i] = ing[i]
    BY <2>1 DEF RetentionInv, RmtreeHasVictim
  <2>2. CASE ing'[i] # ing[i]
    <3>1. PruneTake(i)
      BY <2>2, RmtreeFrame DEF RetentionInv
    <3> QED
      BY <3>1 DEF PruneTake, RetentionInv, TypeOK, IngesterType
  <2> QED
    BY <2>1, <2>2
<1> QED
  BY <1>2, <1>3

LEMMA FetchNext ==
  ASSUME RetentionInv, [Next]_vars
  PROVE  FetchAccounts'
<1> SUFFICES ASSUME NEW i \in Ingesters, ing'[i].pc = "fetch", ing'[i].mode = "ingest"
             PROVE  Grid \ ing'[i].plan \subseteq source'[ing'[i].cycle]
  BY DEF FetchAccounts
<1>1. CASE ing'[i] # ing[i]
  BY <1>1, FetchFrame DEF RetentionInv
<1>2. CASE ing'[i] = ing[i]
  <2>1. Grid \ ing[i].plan \subseteq source[ing[i].cycle]
    BY <1>2 DEF RetentionInv, FetchAccounts
  <2>2. ~BeingRemoved(ing[i].cycle)
    BY <1>2 DEF BeingRemoved, RetentionInv, OneIngester
  <2>3. source[ing[i].cycle] \subseteq source'[ing[i].cycle]
    BY <2>2, SourceFrame DEF RetentionInv, TypeOK, IngesterType
  <2> QED
    BY <1>2, <2>1, <2>3
<1> QED
  BY <1>1, <1>2

LEMMA RetentionInductive == Spec => []RetentionInv
<1>1. Init => RetentionInv
  BY InitType DEF Init, Idle, RetentionInv, OneIngester, VictimsOld,
    RmtreeHasVictim, FetchAccounts, NewestTwoGenuine, Newest2
<1>2. RetentionInv /\ [Next]_vars => RetentionInv'
  BY NextType, OneIngesterNext, PruneListsNext, FetchNext, NewestTwoNext
  DEF RetentionInv
<1> QED
  BY <1>1, <1>2, PTL DEF Spec

-----------------------------------------------------------------------------
(* The theorems.                                                            *)

\* The two newest cycles with a complete.json have every one of their files,
\* for any number of ingesters, workers and cycles and any crash of either
\* process, one in the middle of rmtree included.
THEOREM NewestTwoAreGenuine == Spec => []NewestTwoGenuine
<1>1. RetentionInv => NewestTwoGenuine
  BY DEF RetentionInv
<1> QED
  BY <1>1, RetentionInductive, PTL

\* "An unfinished upstream cycle keeps both old complete runs intact" (the
\* comment in ingest()): no step takes the marker or a file of the newest two.
THEOREM NewestTwoAreKept == Spec => KeepTwo
<1>1. RetentionInv /\ [Next]_vars =>
        \A c \in Newest2(marker) : c \in marker' /\ source[c] \subseteq source'[c]
  BY NewestTwoNext
<1> QED
  BY <1>1, RetentionInductive, PTL DEF Spec, KeepTwo

\* A step makes at most one directory, and not when three are there.
LEMMA RunsNext ==
  ASSUME TypeOK, RunsBounded, [Next]_vars
  PROVE  RunsBounded'
<1>1. IsFiniteSet(Cycles)
  BY CacheAssumption, FS_Interval DEF Cycles
<1>2. IsFiniteSet(runs) /\ Cardinality(runs) \in Nat
  BY <1>1, FS_Subset, FS_CardinalityType DEF TypeOK
<1>3. CASE runs' \subseteq runs
  BY <1>2, <1>3, FS_Subset, FS_CardinalityType DEF RunsBounded, RunLimit
<1>4. ASSUME NEW i \in Ingesters, Admit(i), ~(runs' \subseteq runs)
      PROVE  RunsBounded'
  <2>1. ~(Cardinality(runs) >= RunLimit) /\ runs' = runs \cup {ing[i].cycle}
    BY <1>4 DEF Admit
  <2>2. Cardinality(runs \cup {ing[i].cycle}) <= Cardinality(runs) + 1
    <3>1. Cardinality(runs \cup {ing[i].cycle}) =
            IF ing[i].cycle \in runs THEN Cardinality(runs) ELSE Cardinality(runs) + 1
      BY <1>2, FS_AddElement, Zenon
    <3> QED
      BY <1>2, <3>1
  <2>3. Cardinality(runs \cup {ing[i].cycle}) \in Nat
    BY <1>2, FS_AddElement, FS_CardinalityType
  <2>4. Cardinality(runs \cup {ing[i].cycle}) <= RunLimit
    <3>1. Cardinality(runs) < 3
      BY <1>2, <2>1 DEF RunLimit
    <3> QED
      BY <1>2, <2>2, <2>3, <3>1 DEF RunLimit
  <2> QED
    BY <2>1, <2>4 DEF RunsBounded
<1>5. runs' \subseteq runs \/ \E i \in Ingesters : Admit(i)
  <2>1. CASE \E i \in Ingesters : IngesterStep(i)
    BY <2>1 DEF IngesterStep, PruneTake, PruneSkip, RmtreeEntry, RmtreeDone,
      PruneDone, Download, DownloadFails, Finish, disk
  <2>2. CASE \E w \in Workers : Accept(w) \/ WorkerStep(w) \/ JobFails(w)
    BY <2>2 DEF Accept, WorkerStep, JobFails, PinCycle, CheckCoverage,
      EnterResult, Lookup, Crop, Publish, WriteMetadata, disk
  <2> QED
    BY <2>1, <2>2
    DEF Next, vars, disk, Tick, WatchWake, WatchCandidate, OperatorIngest,
      CrashIngester, CrashService, ReaderPin, ReaderUnpin, SweepStep,
      SweepBegin, SweepEnd, EvictResult, EvictMetadata
<1> QED
  BY <1>3, <1>4, <1>5

\* The cache never holds more than three cycles, the bound on its disk use
\* ("Every partial cycle is bounded by prune", watch()).
THEOREM RunsStayBounded == Spec => []RunsBounded
<1>1. Init => RunsBounded
  BY FS_EmptySet DEF Init, RunsBounded, RunLimit
<1>2. TypeOK /\ RunsBounded /\ [Next]_vars => RunsBounded'
  BY RunsNext
<1> QED
  BY <1>1, <1>2, TypeCorrect, PTL DEF Spec
=============================================================================
