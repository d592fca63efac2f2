---------------------------- MODULE HostedCache ----------------------------
(***************************************************************************)
(* The forecast cache of the hosted GRIB service: hosted-service/service.py,*)
(* class Cache, and the ingestion loop watch().                            *)
(*                                                                         *)
(* Two operating-system processes share one directory tree and nothing     *)
(* else.  The ingester downloads GFS cycles into runs/<cycle>/, publishes  *)
(* complete.json when a cycle is whole and retires old cycles.  The API    *)
(* process crops regional results out of those files on its worker threads *)
(* and keeps them in results/.  They exclude each other with flock(2) on    *)
(* files in locks/.                                                        *)
(*                                                                         *)
(* A flock is held for exactly the statements inside its "with" block, so  *)
(* the lock table is not a variable: who holds a lock is read off the      *)
(* program points of the processes (Pinned, Owns, ResultsBusy, Ingesting). *)
(*                                                                         *)
(* Operators marked "Fault" are wrong variants of the definition that       *)
(* follows them; nothing uses them except the mutation runs of PROJECT.json *)
(* which show that the properties notice such a mistake.                    *)
(***************************************************************************)
EXTENDS Integers, FiniteSets

CONSTANTS
  MaxCycle,     \* GFS cycles are numbered 1..MaxCycle in time order (bound)
  NumProducts,  \* products are numbered in the order of FIELDS (weather, waves)
  LastHour,     \* forecast hours are 0..LastHour; stands for HOURS (bound)
  Ingesters,    \* processes running ingest() or advance()
  Watcher,      \* the one of them that runs watch()
  Workers,      \* crop worker threads of the API process
  Readers,      \* request threads of the API process reading coverage
  Requests,     \* validated requests: [cycle, need]; one is its own result_id
  ResultQuota   \* results of unit size that result_quota admits

Cycles   == 1..MaxCycle
Products == 1..NumProducts
Hours    == 0..LastHour
Grid     == Products \X Hours      \* the source files of one complete cycle

ASSUME CacheAssumption ==
  /\ MaxCycle \in Nat \ {0}
  /\ LastHour \in Nat
  /\ NumProducts \in Nat \ {0}
  /\ Watcher \in Ingesters
  /\ Ingesters \cap Workers = {}
  /\ Requests # {}
  /\ Requests \subseteq [cycle : Cycles, need : (SUBSET Grid) \ {{}}]
  /\ ResultQuota \in Nat

NoOne  == "none"
ASSUME NoOneAssumption == NoOne \notin Ingesters \cup Workers

RunLimit == 3          \* ingest(): len(self.runs()) >= 3
Asleep   == 4          \* watch() has no candidate left in this pass

VARIABLES
  clock,     \* the newest nominal GFS cycle by the wall clock
  runs,      \* directories in runs/
  source,    \* source[c]: validated files present in runs/<c>
  marker,    \* cycles whose complete.json is present and current
  grib,      \* grib[r]: source files whose crops make up results/<r>.grib2
  meta,      \* requests whose results/<r>.json is present
  part,      \* part[r]: contents of results/<r>.part
  mtimes,    \* the pairs <<f, g>> of files in results/ of which f was last
             \* written or touched before g; no two at the same moment
  ing,       \* ingestion state per ingester
  pass,      \* the local variables of the watcher's current pass
  job,       \* make_result() state per worker
  reader,    \* per reader: the cycle whose lock it shares, or 0
  sweeper    \* prune_results(): who is inside it, holding "results"
             \* exclusively, and the result whose .json it unlinks next

disk == <<runs, source, marker>>
results == <<grib, meta, part, mtimes>>
vars == <<clock, disk, results, ing, pass, job, reader, sweeper>>

\* The names of a result's two data files.
Files   == {"grib2", "part"} \X Requests
Grib(r) == <<"grib2", r>>
Part(r) == <<"part", r>>

IngesterPC == {"idle", "prune", "rmtree", "sweep", "admit", "fetch"}
WorkerPC   == {"idle", "queued", "pinned", "covered", "owner", "crop",
               "published", "sweep"}

IngesterType == [pc : IngesterPC, cycle : Cycles, mode : {"ingest", "advance"},
                 todo : SUBSET Cycles, plan : SUBSET Grid, last : BOOLEAN]
PassType    == [latest : Cycles, known : SUBSET Cycles, next : 0..Asleep]
JobType     == [pc : WorkerPC, req : Requests, todo : SUBSET Grid]
SweeperType == [by : Ingesters \cup Workers \cup {NoOne}, json : SUBSET Requests]

TypeOK ==
  /\ clock \in Cycles
  /\ runs \subseteq Cycles
  /\ source \in [Cycles -> SUBSET Grid]
  /\ marker \subseteq Cycles
  /\ grib \in [Requests -> SUBSET Grid]
  /\ meta \subseteq Requests
  /\ part \in [Requests -> SUBSET Grid]
  /\ mtimes \subseteq Files \X Files
  /\ ing \in [Ingesters -> IngesterType]
  /\ pass \in PassType
  /\ job \in [Workers -> JobType]
  /\ reader \in [Readers -> Cycles \cup {0}]
  /\ sweeper \in SweeperType

-----------------------------------------------------------------------------
(* Which locks are held.                                                   *)

\* Inside "with self.lock(request['cycle'])" of make_result.
InCycleLock(w) == job[w].pc \in {"pinned", "covered", "owner", "crop",
                                 "published"}

\* The cycle lock of c is shared by a crop or by available_coverage().
Pinned(c) == \/ \E w \in Workers : InCycleLock(w) /\ job[w].req.cycle = c
             \/ \E r \in Readers : reader[r] = c

\* The oldest cycle that prune() has not examined yet.
Victim(i) == CHOOSE c \in ing[i].todo : \A d \in ing[i].todo : c <= d

\* The cycle lock of c is held exclusively: prune() is in rmtree.
BeingRemoved(c) == \E i \in Ingesters :
                     ing[i].pc = "rmtree" /\ Victim(i) = c

\* Worker w holds "result-<identity>" of request r.
Owns(w, r) == job[w].pc \in {"owner", "crop", "published"} /\ job[w].req = r

\* Fault: the crop runs inside the block of the shared "results" lock.
ResultsHeldWhileCropping == \/ sweeper.by # NoOne
                            \/ \E w \in Workers : job[w].pc \in {"crop", "published"}

\* "results" is held exclusively, by a publisher or by prune_results().
ResultsBusy == \/ sweeper.by # NoOne
               \/ \E w \in Workers : job[w].pc = "published"

\* The "ingestion" lock is held.
Ingesting == \E i \in Ingesters : ing[i].pc # "idle"

-----------------------------------------------------------------------------
(* Reading the directory tree.                                             *)

\* complete()[-2:]: the members of S with fewer than two newer members.
Newest2(S) == {c \in S : ~ \E d, e \in S : c < d /\ d < e}

\* coverage(request): the requested source files that are not cached.
Coverage(r) == r.need \ source[r.cycle]

\* The order of downloads.  ingest() takes the last hour of every product
\* first and then goes hour by hour; advance() goes product by product.  A file
\* that is present is passed over, so it is never a step.
Before(mode, j, k) ==
  LET turn(f) == IF f[2] = LastHour THEN -1 ELSE f[2] IN
  IF mode = "ingest"
  THEN turn(j) < turn(k) \/ (j[2] = k[2] /\ j[1] < k[1])
  ELSE j[1] < k[1] \/ (j[1] = k[1] /\ j[2] < k[2])

\* k is the file that ingester i downloads now.
Due(i, k) == /\ k \in ing[i].plan
             /\ \A j \in ing[i].plan : ~Before(ing[i].mode, j, k)

-----------------------------------------------------------------------------
Idle == [pc |-> "idle", cycle |-> 1, mode |-> "ingest", todo |-> {},
         plan |-> {}, last |-> FALSE]
NoPass == [latest |-> 1, known |-> {}, next |-> Asleep]
NoJob == [pc |-> "idle", req |-> CHOOSE r \in Requests : TRUE, todo |-> {}]
NoSweep == [by |-> NoOne, json |-> {}]

Init ==
  /\ clock = 1
  /\ runs = {} /\ marker = {}
  /\ source = [c \in Cycles |-> {}]
  /\ grib = [r \in Requests |-> {}]
  /\ meta = {}
  /\ part = [r \in Requests |-> {}]
  /\ mtimes = {}
  /\ ing = [i \in Ingesters |-> Idle]
  /\ pass = NoPass
  /\ job = [w \in Workers |-> NoJob]
  /\ reader = [r \in Readers |-> 0]
  /\ sweeper = NoSweep

\* Wall-clock time reaches the next six-hourly cycle.
Tick ==
  /\ clock < MaxCycle
  /\ clock' = clock + 1
  /\ UNCHANGED <<disk, results, ing, pass, job, reader, sweeper>>

-----------------------------------------------------------------------------
(* Ingestion: ingest(), advance(), prune(), download().                    *)

\* Fault: the ingestion lock is not taken.
BeginUnlocked(i, c, m) ==
  ing' = [ing EXCEPT ![i] =
            [pc |-> "prune", cycle |-> c, mode |-> m,
             todo |-> runs \ (Newest2(marker) \cup {c}),
             plan |-> {}, last |-> FALSE]]

\* Enter ingest() or advance(): take the ingestion lock without blocking and
\* let prune(incoming=c) decide which cycles it will examine.
Begin(i, c, m) ==
  /\ ~Ingesting
  /\ ing' = [ing EXCEPT ![i] =
               [pc |-> "prune", cycle |-> c, mode |-> m,
                todo |-> runs \ (Newest2(marker) \cup {c}),
                plan |-> {}, last |-> FALSE]]

\* Leave ingest() or advance().  A normal return and a Problem let watch() go
\* on to its next candidate; any other exception ends the pass.
Leave(i, how) ==
  /\ ing' = [ing EXCEPT ![i] = Idle]
  /\ IF i # Watcher \/ ing[i].mode = "advance" \/ how = "problem"
     THEN UNCHANGED pass
     ELSE pass' = IF how = "ok" /\ Cardinality(marker) < 2
                  THEN [pass EXCEPT !.known = marker] ELSE NoPass

\* An operator runs "service.py ingest --cycle c".
OperatorIngest(i) ==
  /\ i # Watcher
  /\ ing[i].pc = "idle"
  /\ \E c \in 1..clock : Begin(i, c, "ingest")
  /\ UNCHANGED <<clock, disk, results, pass, job, reader, sweeper>>

\* watch() wakes: with two complete cycles it advances the newest one, else it
\* starts a bootstrap pass over the four newest cycles.
WatchWake ==
  /\ ing[Watcher].pc = "idle"
  /\ pass = NoPass
  /\ IF Cardinality(marker) >= 2
     THEN /\ clock \notin marker
          /\ Begin(Watcher, clock, "advance")
          /\ UNCHANGED pass
     ELSE /\ pass' = [latest |-> clock, known |-> marker, next |-> 0]
          /\ UNCHANGED ing
  /\ UNCHANGED <<clock, disk, results, job, reader, sweeper>>

\* Fault: the list of candidates has no end.
WatchCandidateUnbounded ==
  LET c == pass.latest - pass.next IN
  /\ ing[Watcher].pc = "idle"
  /\ pass # NoPass
  /\ IF c \in Cycles \ pass.known THEN Begin(Watcher, c, "ingest")
                               ELSE UNCHANGED ing
  /\ pass' = [pass EXCEPT !.next = @ + 1]
  /\ UNCHANGED <<clock, disk, results, job, reader, sweeper>>

\* The bootstrap pass takes its next candidate, or has none left.  A busy
\* ingestion lock raises BlockingIOError, which is not a Problem and ends it.
WatchCandidate ==
  LET c == pass.latest - pass.next IN
  /\ ing[Watcher].pc = "idle"
  /\ pass # NoPass
  /\ \/ /\ pass.next < Asleep
        /\ c \notin Cycles \/ c \in pass.known
        /\ pass' = [pass EXCEPT !.next = @ + 1]
        /\ UNCHANGED ing
     \/ /\ pass.next < Asleep
        /\ c \in Cycles \ pass.known
        /\ Begin(Watcher, c, "ingest")
        /\ pass' = [pass EXCEPT !.next = @ + 1]
     \/ /\ pass.next < Asleep
        /\ c \in Cycles \ pass.known
        /\ Ingesting
        /\ pass' = NoPass
        /\ UNCHANGED ing
     \/ /\ pass.next = Asleep
        /\ pass' = NoPass
        /\ UNCHANGED ing
  /\ UNCHANGED <<clock, disk, results, job, reader, sweeper>>

\* prune(): the lock of the next cycle is taken, and rmtree begins.
PruneTake(i) ==
  /\ ing[i].pc = "prune" /\ ing[i].todo # {}
  /\ ~Pinned(Victim(i))
  /\ ing' = [ing EXCEPT ![i].pc = "rmtree"]
  /\ UNCHANGED <<clock, disk, results, pass, job, reader, sweeper>>

\* prune(): BlockingIOError, the cycle is pinned by an active job.
PruneSkip(i) ==
  /\ ing[i].pc = "prune" /\ ing[i].todo # {}
  /\ Pinned(Victim(i))
  /\ ing' = [ing EXCEPT ![i].todo = @ \ {Victim(i)}]
  /\ UNCHANGED <<clock, disk, results, pass, job, reader, sweeper>>

\* rmtree unlinks one entry, in directory order, which is arbitrary.
RmtreeEntry(i) ==
  LET v == Victim(i) IN
  /\ ing[i].pc = "rmtree"
  /\ \/ /\ \E k \in source[v] : source' = [source EXCEPT ![v] = @ \ {k}]
        /\ UNCHANGED marker
     \/ /\ v \in marker
        /\ marker' = marker \ {v}
        /\ UNCHANGED source
  /\ UNCHANGED <<clock, runs, results, ing, pass, job, reader, sweeper>>

\* rmtree removes the empty directory, and the lock is released.
RmtreeDone(i) ==
  LET v == Victim(i) IN
  /\ ing[i].pc = "rmtree"
  /\ source[v] = {} /\ v \notin marker
  /\ runs' = runs \ {v}
  /\ ing' = [ing EXCEPT ![i].pc = "prune", ![i].todo = @ \ {v}]
  /\ UNCHANGED <<clock, source, marker, results, pass, job, reader, sweeper>>

PruneDone(i) ==
  /\ ing[i].pc = "prune" /\ ing[i].todo = {}
  /\ ing' = [ing EXCEPT ![i].pc = "sweep"]
  /\ UNCHANGED <<clock, disk, results, pass, job, reader, sweeper>>

\* Fault: the number of retained runs is not checked.
AdmitAlways(i) ==
  /\ ing[i].pc = "admit"
  /\ runs' = runs \cup {ing[i].cycle}
  /\ ing' = [ing EXCEPT ![i].pc = "fetch",
                        ![i].plan = Grid \ source[ing[i].cycle]]
  /\ UNCHANGED <<clock, source, marker, results, pass, job, reader, sweeper>>

\* After prune: defer if three other cycles are retained, else mkdir and plan.
Admit(i) ==
  LET c == ing[i].cycle IN
  /\ ing[i].pc = "admit"
  /\ IF Cardinality(runs) >= RunLimit /\ c \notin runs
     THEN Leave(i, "problem") /\ UNCHANGED runs
     ELSE /\ runs' = runs \cup {c}
          /\ ing' = [ing EXCEPT ![i].pc = "fetch",
                       ![i].plan = Grid \ source[c]]
          /\ UNCHANGED pass
  /\ UNCHANGED <<clock, source, marker, results, job, reader, sweeper>>

\* download(): the file is fetched, validated and renamed into place.
Download(i) ==
  /\ ing[i].pc = "fetch"
  /\ \E k \in Grid :
       /\ Due(i, k)
       /\ source' = [source EXCEPT ![ing[i].cycle] = @ \cup {k}]
       /\ ing' = [ing EXCEPT ![i].plan = @ \ {k}]
  /\ UNCHANGED <<clock, runs, marker, results, pass, job, reader, sweeper>>

\* download() raises.  advance() gives up the product on 502 and 503; every
\* other case ends the operation, with or without a Problem.
DownloadFails(i) ==
  /\ ing[i].pc = "fetch" /\ ing[i].plan # {}
  /\ \/ /\ ing[i].mode = "advance"
        /\ \E k \in Grid :
             /\ Due(i, k)
             /\ ing' = [ing EXCEPT ![i].plan = {f \in @ : f[1] # k[1]}]
        /\ UNCHANGED pass
     \/ \E how \in {"problem", "error"} : Leave(i, how)
  /\ UNCHANGED <<clock, disk, results, job, reader, sweeper>>

\* Fault: prune() reads complete() before the marker is written.
FinishPruningFirst(i) ==
  LET c == ing[i].cycle IN
  /\ ing[i].pc = "fetch" /\ ing[i].plan = {}
  /\ Grid \subseteq source[c]
  /\ marker' = marker \cup {c}
  /\ ing' = [ing EXCEPT ![i].pc = "prune", ![i].last = TRUE,
                        ![i].todo = runs \ Newest2(marker)]
  /\ UNCHANGED <<clock, runs, source, results, pass, job, reader, sweeper>>

\* All downloads are over.  ingest() has seen each one succeed; advance()
\* looks again for missing files.  complete.json is renamed into place and
\* prune() runs a second time, with nothing incoming.
Finish(i) ==
  LET c == ing[i].cycle IN
  /\ ing[i].pc = "fetch" /\ ing[i].plan = {}
  /\ IF ing[i].mode = "ingest" \/ Grid \subseteq source[c]
     THEN /\ marker' = marker \cup {c}
          /\ ing' = [ing EXCEPT ![i].pc = "prune", ![i].last = TRUE,
                       ![i].todo = runs \ Newest2(marker')]
          /\ UNCHANGED pass
     ELSE Leave(i, "ok") /\ UNCHANGED marker
  /\ UNCHANGED <<clock, runs, source, results, job, reader, sweeper>>

\* The ingester dies and is restarted by its container.
CrashIngester(i) ==
  /\ ing[i].pc # "idle"
  /\ Leave(i, "error")
  /\ sweeper' = IF sweeper.by = i THEN NoSweep ELSE sweeper
  /\ UNCHANGED <<clock, disk, results, job, reader>>

-----------------------------------------------------------------------------
(* Crop jobs: make_result() on a worker thread.                            *)

\* POST /v1/subsets found the coverage complete, with no lock held, and the
\* job waits in the queue of the pool.
Accept(w) ==
  /\ job[w].pc = "idle"
  /\ \E r \in Requests :
       /\ Coverage(r) = {}
       /\ job' = [job EXCEPT ![w] = [pc |-> "queued", req |-> r, todo |-> {}]]
  /\ UNCHANGED <<clock, disk, results, ing, pass, reader, sweeper>>

\* Fault: the crop does not take the lock of its cycle.
PinCycleUnlocked(w) ==
  /\ job[w].pc = "queued"
  /\ job' = [job EXCEPT ![w].pc = "pinned"]
  /\ UNCHANGED <<clock, disk, results, ing, pass, reader, sweeper>>

\* with self.lock(request["cycle"])
PinCycle(w) ==
  /\ job[w].pc = "queued"
  /\ ~BeingRemoved(job[w].req.cycle)
  /\ job' = [job EXCEPT ![w].pc = "pinned"]
  /\ UNCHANGED <<clock, disk, results, ing, pass, reader, sweeper>>

\* Coverage is read again under the lock; "matching forecast not cached".
CheckCoverage(w) ==
  /\ job[w].pc = "pinned"
  /\ job' = [job EXCEPT ![w].pc =
               IF Coverage(job[w].req) = {} THEN "covered" ELSE "sweep"]
  /\ UNCHANGED <<clock, disk, results, ing, pass, reader, sweeper>>

\* Fault: two workers may produce the same result at once.
EnterResultShared(w) ==
  /\ job[w].pc = "covered"
  /\ job' = [job EXCEPT ![w].pc = "owner"]
  /\ UNCHANGED <<clock, disk, results, ing, pass, reader, sweeper>>

\* with self.lock("result-" + identity, exclusive=True)
EnterResult(w) ==
  /\ job[w].pc = "covered"
  /\ \A v \in Workers \ {w} : ~Owns(v, job[w].req)
  /\ job' = [job EXCEPT ![w].pc = "owner"]
  /\ UNCHANGED <<clock, disk, results, ing, pass, reader, sweeper>>

\* The files with contents; the time of an empty one is never looked at.
Filled == {f \in Files : IF f[1] = "part" THEN part[f[2]] # {} ELSE grib[f[2]] # {}}

\* The order of the files other than f.
Others(f) == {p \in mtimes : f \notin {p[1], p[2]}}

\* f is written, or touched, now.
Stamped(f) == Others(f) \cup ((Filled \ {f}) \X {f})

\* f replaces g, and keeps its own time.
Renamed(f, g) ==
  LET name(h) == IF h = f THEN g ELSE h
  IN  {<<name(p[1]), name(p[2])>> : p \in Others(g)}

\* with self.lock("results"): a warm result is touched and returned; otherwise
\* the part file is opened for writing, which truncates it.
Lookup(w) ==
  LET r == job[w].req IN
  /\ job[w].pc = "owner"
  /\ ~ResultsBusy
  /\ IF grib[r] # {} /\ r \in meta
     THEN /\ mtimes' = Stamped(Grib(r))
          /\ job' = [job EXCEPT ![w].pc = "sweep"]
          /\ UNCHANGED part
     ELSE /\ part' = [part EXCEPT ![r] = {}]
          /\ mtimes' = Others(Part(r))
          /\ job' = [job EXCEPT ![w].pc = "crop", ![w].todo = r.need]
  /\ UNCHANGED <<clock, disk, grib, meta, ing, pass, reader, sweeper>>

\* The helper crops one source file and its output is appended to the part.
Crop(w) ==
  LET r == job[w].req IN
  /\ job[w].pc = "crop"
  /\ \E k \in job[w].todo :
       /\ k \in source[r.cycle]
       /\ part' = [part EXCEPT ![r] = @ \cup {k}]
       /\ job' = [job EXCEPT ![w].todo = @ \ {k}]
  /\ mtimes' = Stamped(Part(r))
  /\ UNCHANGED <<clock, disk, grib, meta, ing, pass, reader, sweeper>>

\* A crop fails or exceeds a limit, or the disk budget refuses the result:
\* the finally clause unlinks the part file and all locks are released.
JobFails(w) ==
  /\ job[w].pc = "crop"
  /\ part' = [part EXCEPT ![job[w].req] = {}]
  /\ mtimes' = Others(Part(job[w].req))
  /\ job' = [job EXCEPT ![w].pc = "sweep"]
  /\ UNCHANGED <<clock, disk, grib, meta, ing, pass, reader, sweeper>>

\* with self.lock("results", exclusive=True): os.replace(temp, output).  The
\* result has the time of its last crop; what was touched or cropped since then
\* is newer.
Publish(w) ==
  LET r == job[w].req IN
  /\ job[w].pc = "crop" /\ job[w].todo = {}
  /\ ~ResultsBusy
  /\ grib' = [grib EXCEPT ![r] = part[r]]
  /\ part' = [part EXCEPT ![r] = {}]
  /\ mtimes' = Renamed(Part(r), Grib(r))
  /\ job' = [job EXCEPT ![w].pc = "published"]
  /\ UNCHANGED <<clock, disk, meta, ing, pass, reader, sweeper>>

\* atomic_json(metadata, result), which may fail, and the locks are released.
WriteMetadata(w) ==
  /\ job[w].pc = "published"
  /\ meta' \in {meta, meta \cup {job[w].req}}
  /\ job' = [job EXCEPT ![w].pc = "sweep"]
  /\ UNCHANGED <<clock, disk, grib, part, mtimes, ing, pass, reader, sweeper>>

\* The API process dies: its threads and locks vanish, its files do not.
CrashService ==
  /\ job' = [w \in Workers |-> NoJob]
  /\ reader' = [r \in Readers |-> 0]
  /\ sweeper' = IF sweeper.by \in Workers THEN NoSweep ELSE sweeper
  /\ UNCHANGED <<clock, disk, results, ing, pass>>

-----------------------------------------------------------------------------
(* available_coverage(): a capabilities request shares one cycle lock.     *)

ReaderPin(r) ==
  /\ reader[r] = 0
  /\ \E c \in runs : ~BeingRemoved(c) /\ reader' = [reader EXCEPT ![r] = c]
  /\ UNCHANGED <<clock, disk, results, ing, pass, job, sweeper>>

ReaderUnpin(r) ==
  /\ reader[r] # 0
  /\ reader' = [reader EXCEPT ![r] = 0]
  /\ UNCHANGED <<clock, disk, results, ing, pass, job, sweeper>>

-----------------------------------------------------------------------------
(* prune_results(), run by prune() and after every job.                    *)

WantsSweep(p) == \/ p \in Ingesters /\ ing[p].pc = "sweep"
                 \/ p \in Workers /\ job[p].pc = "sweep"

SweepBegin(p) ==
  /\ WantsSweep(p)
  /\ ~ResultsBusy
  /\ sweeper' = [by |-> p, json |-> {}]
  /\ UNCHANGED <<clock, disk, results, ing, pass, job, reader>>

\* The results that count towards the quota, whether they have a .json or not.
Gribs == {r \in Requests : grib[r] # {}}

\* Fault: the results are sorted the wrong way round.
EvictNewest ==
  /\ sweeper.by # NoOne /\ sweeper.json = {}
  /\ Cardinality(Gribs) > ResultQuota
  /\ \E r \in Gribs :
       /\ \A q \in Gribs : <<Grib(r), Grib(q)>> \notin mtimes
       /\ grib' = [grib EXCEPT ![r] = {}]
       /\ mtimes' = Others(Grib(r))
       /\ sweeper' = [sweeper EXCEPT !.json = {r}]
  /\ UNCHANGED <<clock, disk, meta, part, ing, pass, job, reader>>

\* The oldest result is over the quota: its .grib2 is unlinked ...
EvictResult ==
  /\ sweeper.by # NoOne /\ sweeper.json = {}
  /\ Cardinality(Gribs) > ResultQuota
  /\ \E r \in Gribs :
       /\ \A q \in Gribs : <<Grib(q), Grib(r)>> \notin mtimes
       /\ grib' = [grib EXCEPT ![r] = {}]
       /\ mtimes' = Others(Grib(r))
       /\ sweeper' = [sweeper EXCEPT !.json = {r}]
  /\ UNCHANGED <<clock, disk, meta, part, ing, pass, job, reader>>

\* ... and then its .json.  A crash in between leaves the .json alone.
EvictMetadata ==
  /\ sweeper.json # {}
  /\ meta' = meta \ sweeper.json
  /\ sweeper' = [sweeper EXCEPT !.json = {}]
  /\ UNCHANGED <<clock, disk, grib, part, mtimes, ing, pass, job, reader>>

SweepEnd(p) ==
  /\ WantsSweep(p)
  /\ sweeper.by = p /\ sweeper.json = {}
  /\ Cardinality(Gribs) <= ResultQuota
  /\ sweeper' = NoSweep
  /\ IF p \in Ingesters
     THEN /\ IF ing[p].last
             THEN Leave(p, "ok")
             ELSE ing' = [ing EXCEPT ![p].pc = "admit"] /\ UNCHANGED pass
          /\ UNCHANGED job
     ELSE /\ job' = [job EXCEPT ![p] = NoJob]
          /\ UNCHANGED <<ing, pass>>
  /\ UNCHANGED <<clock, disk, results, reader>>

-----------------------------------------------------------------------------
IngesterStep(i) ==
  \/ PruneTake(i) \/ PruneSkip(i) \/ RmtreeEntry(i) \/ RmtreeDone(i)
  \/ PruneDone(i) \/ Admit(i) \/ Download(i) \/ DownloadFails(i)
  \/ Finish(i)

WorkerStep(w) ==
  \/ PinCycle(w) \/ CheckCoverage(w) \/ EnterResult(w) \/ Lookup(w)
  \/ Crop(w) \/ Publish(w) \/ WriteMetadata(w)

SweepStep(p) == SweepBegin(p) \/ SweepEnd(p)

Next ==
  \/ Tick \/ WatchWake \/ WatchCandidate
  \/ \E i \in Ingesters : OperatorIngest(i) \/ IngesterStep(i) \/ CrashIngester(i)
  \/ \E w \in Workers : Accept(w) \/ WorkerStep(w) \/ JobFails(w)
  \/ CrashService
  \/ \E r \in Readers : ReaderPin(r) \/ ReaderUnpin(r)
  \/ \E p \in Ingesters \cup Workers : SweepStep(p)
  \/ EvictResult \/ EvictMetadata

Spec == Init /\ [][Next]_vars

(***************************************************************************)
(* Fairness.  A thread or process that can run does run.  flock(2) wakes    *)
(* waiters but does not queue them, so a thread waiting for a lock may find *)
(* it taken again; strong fairness says that it is not passed over for      *)
(* ever.  A thread is at one program point at a time, so one condition per  *)
(* thread covers each of its waits.  Nothing is assumed of requests, of the *)
(* upstream server, of the clock or of crashes.                             *)
(***************************************************************************)
Fairness ==
  /\ \A i \in Ingesters : SF_vars(IngesterStep(i) \/ SweepStep(i))
  /\ \A w \in Workers : SF_vars(WorkerStep(w) \/ SweepStep(w))
  /\ WF_vars(EvictResult \/ EvictMetadata)

FairSpec == Spec /\ Fairness

-----------------------------------------------------------------------------
(* Properties.                                                             *)

\* From the moment make_result() has seen the coverage complete until it
\* leaves the cycle lock, every source file it will crop is on disk, although
\* prune() may want that cycle all the while ("File locks pin runs used by
\* active crops", hosted-service/README.md).
PinnedRunIntact ==
  \A w \in Workers :
    job[w].pc \in {"covered", "owner", "crop", "published"} =>
      job[w].req.need \subseteq source[job[w].req.cycle]

\* A result that a client can be pointed at (.grib2 and .json both present)
\* holds exactly the requested pieces: no crop is missing or foreign, after
\* any interleaving of workers, evictions and crashes of the API process.
ResultWhole ==
  \A r \in meta : grib[r] # {} => grib[r] = r.need

\* The two newest complete cycles, which prune() relies on and the service
\* falls back to, really hold every file, even when a crash in the middle of
\* rmtree left a marker beside half of the files of some older cycle.
NewestTwoGenuine == \A c \in Newest2(marker) : source[c] = Grid

\* At most three cycles occupy the disk: two complete ones and one incoming.
RunsBounded == Cardinality(runs) <= RunLimit

\* No step takes a file or the marker away from a cycle that is one of the two
\* newest complete ones, whatever is being ingested and whoever crashes ("an
\* unfinished upstream cycle keeps both old complete runs intact", ingest()).
KeepTwo ==
  [][\A c \in Newest2(marker) : c \in marker' /\ source[c] \subseteq source'[c]]_vars

\* A result that a client can be pointed at: both its files are present.
Visible(r) == r \in meta /\ grib[r] # {}

\* A result that a worker has begun and that is not visible yet.
Cropping(r) == \E w \in Workers : job[w].pc = "crop" /\ job[w].req = r
Publishing(r) == \E w \in Workers : job[w].pc = "published" /\ job[w].req = r
Begun(r) == \/ Cropping(r) /\ part[r] # {}
            \/ Publishing(r) /\ ~Visible(r)

\* The file whose time is the result's place in the order.
FileOf(r) == IF Cropping(r) THEN Part(r) ELSE Grib(r)
Earlier(q, r) == <<FileOf(q), FileOf(r)>> \in mtimes

\* The files of results, read as entries of an abstract store.
Placed(r) == Visible(r) \/ Begun(r)
Content == [r \in Requests |-> IF Visible(r) THEN grib[r] ELSE {}]
Making == {r \in Requests : Begun(r)}
Older == {p \in Requests \X Requests :
            Placed(p[1]) /\ Placed(p[2]) /\ Earlier(p[1], p[2])}
Store == INSTANCE ResultStore WITH
           Whole   <- [r \in Requests |-> r.need],
           content <- Content,
           making  <- Making,
           older   <- Older

\* The two processes, their locks and their crashes implement that store: a
\* result appears whole, at the place that its last crop has given it, is
\* renewed by use, and leaves in that order.
ImplementsStore == Store!Spec

\* Every accepted job comes to an end: it never waits for ever for a lock.
JobsEnd == \A w \in Workers : job[w].pc = "queued" ~> job[w].pc = "idle"

\* Every ingestion ends, so the ingestion lock is never left held.
IngestionEnds == \A i \in Ingesters : ing[i].pc # "idle" ~> ing[i].pc = "idle"

=============================================================================
