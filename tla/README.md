# Formal models of xGRIB

xGRIB is a plugin of the chart plotter OpenCPN that displays GRIB weather files
and can have them produced: by a native generator process, by third-party
servers, or by the hosted forecast service in `src/hosted-service`. The modules
of this directory model the parts whose correctness depends on *order*: what is
done by two processes or threads at once, by callbacks of an event loop, or
across a crash. Every definition follows the source; `PROJECT.json` maps each
one to the lines it stands for.

To check a module:

    tlc -workers 2 -config HostedRetention.cfg MCHostedCache.tla
    tlc -workers 2 -config RequestRuns.cfg RequestDownload.tla
    tlc -workers 2 -config ViewerRuns.cfg MCViewer.tla
    tlapm HostedCacheProofs.tla

## 1. The system

### Components, their state and their operations

| Component | Source | State | Operations |
|---|---|---|---|
| Forecast cache | `hosted-service/service.py`, class `Cache`, `watch()` | `runs/<cycle>/*.grib2`, `complete.json`, `results/*.grib2` and `.json`, lock files | `ingest`, `advance`, `prune`, `download`, `make_result`, `prune_results`, `available_coverage` |
| Job service | `service.py`, classes `App`, `Handler` | job records, the active table, job and download slots, the thread pool | `submit`, `work`, `do_POST`, `do_GET` |
| Budgets | `service.py`, `Admission`, `reserve_download` | request windows per client, `egress-budget.json` | `allow`, `reserve_download` |
| Crop helper | `hosted-service/grib_crop.cpp` | none | crop a GRIB file to a box |
| Generator dialog | `src/EnvironmentalGribDialog.cpp` | the helper process, job and result files, estimate process, time policy, area presets | `OnGenerate`, `StartCommand`, `FinishCommand`, `OnCancel`, `OnProcessTimer`, `QueueEstimate`, ... |
| Request dialog | `src/GribRequestDialog.cpp` | a running download and its flags, the server catalogue | `OnWorldDownload`, `OnDownloadLocal`, `OnXyGribDownloadButton`, `onDLEvent`, `OnClose` |
| Plugin shell | `src/grib_pi.cpp` | the viewer window, toolbar state, shared configuration | `Init`, `DeInit`, `OnToolbarToolCallback`, `SetPluginMessage`, ... |
| Viewer | `src/GribUIDialog.cpp` | the open file, its record set, the list of dates, the time line, the play back timer, the time options | `OpenFile`, `OnPlayStopTimer`, `TimelineChanged`, `OnSettings`, ... |
| GRIB reader | `GribReader.cpp`, `GribRecord.cpp`, `GribV1Record.cpp`, `GribV2Record.cpp`, `GribDecodeLimits.h` | the record map | decoding; rates from accumulations, derived and copied records, one record per field and date (`GRIBFile`) |
| Drawing | `GribOverlayFactory.cpp`, `IsoLine.cpp` | tessellation and bitmap caches | rendering |
| Area presets | `AreaPreset.cpp`, `AreaPresetManagerDialog.cpp` | the list of saved areas | load, save, edit |
| Android | `AndroidGribGenerator.cpp`, `AndroidServerDownload.h`, `AndroidGribSettings.cpp` | a worker thread and the result it posts | generate, poll, cancel |
| Settings, tables, time zones | `GribSettingsDialog.cpp`, `GribTable.cpp`, `TimeZoneDisplay.cpp`, `CursorData.cpp` | form values | edit, format |
| Native generator | `generator/` (a submodule, not part of this tree) | none | runs a job file, writes a GRIB and a result file |

### How they interact

* The *ingester* and the *API server* of the hosted service are two processes
  that share a directory tree and coordinate by `flock` only. Inside the API
  server, request threads hand jobs to a pool of crop threads.
* The *generator dialog* starts the native generator as a child process and is
  told of its end by a wxWidgets process event, by its own 100 ms poll or by
  the user's Cancel. On success it hands the file to the *viewer* through a
  callback; the viewer owns the dialog and shuts it down.
* The *request dialog* runs downloads of wxCurl in nested event loops, so any
  other handler of the dialog can run while a download handler is on the stack.
* The *plugin shell* creates the viewer, and both can be destroyed by the host
  application at any time, also while a dialog has a child process.
* The *viewer* hands pointers into its own data to the drawing: the overlay
  factory keeps the record set it was given last. Timers, messages of other
  plugins and the generator's callback reach the viewer while play back runs or
  a modal dialog is open.

### What is hard

Interleavings of two processes over files (`prune` against `make_result`);
crashes between two file operations that belong together; completion reported
through three racing paths; state overwritten by a handler that runs while
another one is waiting; revisions that tell a stale answer from a current one;
indexes, ranges and labels that outlive the file they were made for.
`PROJECT.json`, "hazards", lists each with its line and the property that
watches it.

### What makes each component correct

* Cache: a run in use is never removed; the two newest complete cycles are
  really complete and never removed; a visible result is whole; disk use is
  bounded; every job and every ingestion ends.
* Job service: one active job per request and client; every slot taken is given
  back; a job never loses or changes its outcome.
* Budgets: the configured numbers are never exceeded, whatever is interrupted.
* Generator dialog: no helper is lost; its object is deleted once; its
  result and its estimate are not taken for another job's; it becomes usable
  again.
* Request dialog: the buttons and flags agree with the running download.
* Viewer: what is drawn belongs to the open file; time line, list of dates and
  labels agree with it; play back moves on.
* GRIB reader: rates are means over the hours before their date, vectors have
  two components, and nothing of the files is lost or hidden.

## 2. The modules

| Module | Models | State and actions |
|---|---|---|
| `HostedCache` | class `Cache` and `watch()` | One program counter per ingester (`ing`) and per worker (`job`); directories as sets (`runs`, `source`, `marker`, `grib`, `meta`, `part`), the modification times in `results/` as the order they sort the files in (`mtimes`). A `flock` is held exactly while a program counter is inside its `with` block, so locks are read off the counters. One action per statement that another process can observe. |
| `ResultStore` | what the result directory promises | An abstract store of whole results: what each holds (`content`), which are being made (`making`), and which was used or worked on before which (`older`, a set of pairs). A result has its place in that order from its making, a use renews it, and the first one in the order is given up first. `HostedCache` implements it (`ImplementsStore`): a result is kept when both its files are there (`Content`), being made while a worker crops it (`Making`), and the order is that of the modification times (`Older`). |
| `HostedJobs` | `App.submit()` and `App.work()` | One program counter per job (`pc`): the request thread up to the hand-over to the pool, the pool's thread afterwards. `record`, `active` and `slots` are the members; `queue` belongs to the pool. Each `with self.lock` block is one action. |
| `DownloadBudget` | `GET /v1/results` and `reserve_download()` | One record per request thread (`thr`), the persistent `budget` file, the download `slots`, and the history variable `spent`. |
| `GeneratorProcess` | helper process of the generator dialog | `dlg` holds the members `m_process...`; `child` the helpers with their exit status and the fate of their `wxProcess`; `names` the tokens of `m_jobPath` and `m_resultPath`. One action per event handler; `modal` says which message box the event loop is nested in. |
| `EstimateHelper` | the estimate of the dialog | `rev`, `runRev`, `issueRev` are the revisions of the code; `timer` is the one-shot or polling timer; `helper` the form in the job of the estimate process. |
| `RequestDownload` | downloads of the request dialog | `stack` is the C++ call stack of download handlers, `flag` the members `m_downloading`, `m_canceled`, `m_bTransferSuccess`, `m_connected`, `dl` the transfers of the download service. An action runs a handler to its next wait loop or yield. |
| `GribFile` | `GribReader`, class `GRIBFile` | Functions only: from the messages of a list of files and the two copy preferences to record sets by date. A record remembers the date its data was forecast for, the hours it adds up and the number it was divided by, so that properties can speak of what a value means. |
| `Viewer` | the control bar, with the parts of the plugin shell and the settings dialog that act on it | `bar` holds the members, `factory` the record set that the overlay factory draws, `stored` the configuration, `modal` the open settings dialog. Each event is one action, because it runs to its end on the main thread; the functions it calls are operators from members to members. Loading a file is `GribFile`'s `GRIBFile`. |

`MC...` modules give the model values; each `.cfg` is one run.
Definitions marked "Fault" are wrong variants used only by the mutation runs in
`PROJECT.json`: each shows that a property fails when the code has that bug.

The modules of the hosted service meet at named places and are checked apart,
because their state is disjoint but for the result files. What a crop does is
`HostedCache`'s (`Accept` up to the end of the job); `HostedJobs` assumes of it
only that it ends, which is `JobsEnd` there. `DownloadBudget` sees a result
file that is replaced or removed at any moment (`Replace`), which is more than
publication and eviction do. `GeneratorProcess` and `EstimateHelper` are the
two processes of one dialog; the second is told of a finished generation
(`GenerationSucceeded`) and gives `Generate` its time issue.

Modelling decisions worth knowing:

* *Cache.* Cycles are numbered in time order, a source file is a pair (product,
  hour), a request is the set of source files that its result is cropped from.
  `rmtree` unlinks entries one by one in any order. Every result has unit size
  and the quota counts results. A failed download, a crop that fails, a full
  disk and a time limit are nondeterministic outcomes. Modification times are
  a strict order: the clock of the disk does not go back, and no two files are
  written at the same moment. A crop is one moment, the one at which its output
  reaches the part file. `os.replace` keeps the time of the part file, that is of
  the last crop (`Renamed`); so a result that was touched by a second request
  (`Lookup`), or cropped by another worker, before the rename sorts newer than
  the one just published, which then is evicted first. Renaming renews nothing,
  here or in `ResultStore`. What a `.json` says is not modelled. An ingester can
  crash at every step; the API process too. Cycle locks are shared by crops and
  capabilities readers and exclusive for `rmtree`.
* *Jobs.* A request is its result identity together with its owner. A record is
  young or older than an hour; the hour counts from the submission, also for a
  job that runs longer. The request thread hands the job to the pool outside
  the lock. A restart of the process loses everything.
* *Budgets.* The day a download is charged to is read before the budget lock is
  taken, so midnight and a clock that is set back fall between the two. A
  thread that dies keeps what it has reserved.
* *Helper process.* A helper is live, a zombie, or gone. `kill(pid, 0)` finds a
  zombie, so the poll sees the end only once somebody else has reaped the
  helper; the model lets another child watcher of the application do so, which
  is the situation that the poll was written for. Job names have the resolution
  of one second, so two jobs may share a name. The checks of the form in
  `OnGenerate()` are one nondeterministic early return. A posted `OnGenerate()`
  runs at any later moment, also inside a message box.
* *Estimate.* Form fields are split into those with a change handler that calls
  `QueueEstimate()` and those without (the file pickers). Killed helpers are
  detached and cannot be heard again, so they are not represented.
* *Viewer.* Times are hours; a file is known by its dates, and `gen` numbers the
  loads, so that a record set of a deleted file can be told from one of the new
  file. Reading out of range or through a null pointer sets `bar.crash`, and
  nothing happens afterwards. The history variable `bar.hurt` notes what the
  code does not exclude: a file opened behind a running play back or dialog
  (`busy`), files gone when they are read again (`gone`) or replaced on disk by
  ones with other dates (`changed`), and a first interval that is too long for
  the table (`long`). In the case of `changed` the code lists the new dates but
  keeps the span, the interval and the slider of the old ones, so the time line
  may stand anywhere. The invariants say what holds in spite of it. Files that
  can be read again but have no record of a known type are left out. Without
  interpolation the slider counts records.
* *GRIB files.* All grids have one size, so the memory budget counts records.
  The levels above the ground repeat the wind fields and are left out.
* *Request dialog.* A wait loop dispatches pending events but no user input;
  input arrives only within `wxYieldIfNeeded()`, and a yield inside a yield
  returns at once. Hence handlers nest two deep and no deeper, which is proved.
  The contents of the downloaded files are not followed.

## 3. The runs

| Run | Question | Bounds |
|---|---|---|
| `retention` | Can pruning hurt a running crop, the two newest complete cycles or the disk bound? | 4 cycles, 1 product, 1 hour, the watch loop and an operator who ingests any cycle, 1 worker, crashes. Four cycles are one more than can be retained, so retirement, deferral and re-ingestion of a half-removed cycle all happen. |
| `results` | Is a visible result whole, and the directory a store that gives up first what was used or made least recently? | 1 cycle, 2 requests with a common piece, 2 workers, 1 reader, quota 1, so that every publication evicts; touches, crops and renames of both results in every order |
| `progress` | Does every job and every ingestion end? | 2 cycles, 2 workers, quota 0, strong fairness per thread |
| `jobs` | Is a request ever worked on twice for one client, a slot or a record lost, a status taken back, a job never worked off? | 4 jobs of 2 clients, 2 threads, 2 slots, 3 records: the semaphore, the table and the pool all fill up, and records expire |
| `jobs_reuse` | Finding: does an active request always get its job's status? It does not. | 3 jobs |
| `budget` | Can a race, a crash, midnight or the clock exceed a budget or leak a download slot? | 3 threads for 2 downloads, 3 callers over shared tokens and addresses, 2 days, 3 units of which a caller may have 2 |
| `generator` | Is a helper lost, an object deleted early, a result of another job taken; does the dialog become usable again? | 2 helpers, 2 job names, 2 output paths. The overtaken retry needs two helpers, and two names let jobs share a name or not. |
| `generator_opens` | Finding: does the dialog open only what its helper produced? It does not. | 2 helpers, 2 paths |
| `estimate` | Is an outdated estimate or issue ever used; is "updating..." always replaced? | 3 field values (one of them invalid), 2 files, 6 revisions: five edits allow away-and-back edits around a running helper |
| `request` | Is the idle dialog always ready, and does every handler return while the dialog is on screen? | 6 downloads of all four buttons: three handlers of two phases each, nested or in a row |
| `request_closed` | Finding: does every handler return when the dialog is closed? It does not. | 2 downloads, one button |
| `viewer` | Is a deleted record set ever drawn, an index, time line position or label wrong; does play back move on; does every load keep what the files hold? | 42 file lists with up to three dates for the first load and 4 of them later (three dates with unequal intervals, two, one, none); 2 files opened, so that one replaces another; a clock that moves once, to four hours past the longer step of the file, so that now is nearer to the step after it; 1 change of preferences or time format, which may find the open files as they were, gone, or with other dates; 9 records of memory, fewer than the largest list; 3 intervals; 3 combinations of options and start option, of which the dialog and the preferences make all others except for the loop option |

Deadlock checking is on except for four systems that really may stop: the
destroyed generator dialog, the hidden request dialog, the job service when the
bounded number of jobs is used up, and the viewer after an index was used out of
range, when nothing but the bounded clock goes on.

`viewer` tries every load with every setting of the two copy preferences for the
first control bar only; they have no part in which dates a file has, and later
events see no more of a load than its dates. `LoadsRates`, `LoadsVectors` and
`LoadsWhole` have premises about the files (`OneRun`, `WholePairs`, files that
are all read): outside of them, for instance when two model runs overlap, the
code makes no such promise. `OneRun` says what one model run delivers: one
message per type and date, none delivered twice, and every period counted from
the same start and ending no earlier than it begins. `WholePairs` asks for both
parts of a vector among the files that are read, which with "newest file first"
are the first readable one alone.

### Fairness

* `progress`: `flock` wakes waiters without queueing them, so a waiting thread
  can be overtaken; strong fairness of each thread says it is not overtaken for
  ever. Requests, downloads, the clock and crashes are not assumed to happen.
* `jobs`: the threads of the pool and the request threads keep running, and
  `make_result()` ends, because its subprocesses have time limits and its locks
  come back (`JobsEnd`). Clients need not ask again and time need not pass.
* `generator`: the poll timer keeps firing, an ended helper is reaped by
  someone, a helper told to terminate does. The process event itself is not
  assumed, so the property rests on the poll.
* `estimate`: a running timer fires. The helper need not end.
* `request`: the event loop runs the innermost handler (weak fairness); a yield
  returns as soon as the event queue is empty, so no user keeps the outer
  handler from running for ever by clicking (strong fairness of the outermost
  handler); the service ends every transfer that was not aborted.

* `viewer`: none. Play back is stated as an action property,
  `PlayBackAdvances`: each tick of its timer ends it or shows a later time, but
  for the one tick that leaves now, which may show the same time again; and the
  time line is finite. So play back that does not loop ends as long as its
  timer ticks, unless something is opened behind it.

### Findings

* `generator_opens`. `FinishCommand()` accepts a negative exit status as success
  when the output file is valid, without knowing who wrote it. After Cancel, or
  a crash of the helper, an older file at the output path is announced as
  generated and replaces the open GRIB. `docs/architecture.md:72-73` says that
  errors do not replace it.
* `jobs_reuse`. A record expires an hour after its submission once the job has
  an outcome, and `work()` sets the outcome before it takes the job out of
  `active`. A submission between the two that purges the record leaves `active`
  naming a job without a record, and the next identical request fails with a
  `KeyError` and is not answered. `hosted-service/README.md:71` says that active
  identical requests reuse the job.
* `request_closed`. `OnClose()` disconnects the dialog from the transfer but
  sets neither `m_canceled` nor clears `m_connected`, so the waiting handler
  takes the first file for complete, starts the second download, does not
  connect again and waits for ever. The comment at
  `GribRequestDialog.cpp:929-930` says that it does not continue.

Seen while `PlayBackAdvances` was proved, and excluded there by the premise
`OnRecord`: the start option "interpolated at now" also acts while interpolation
is off. `ComputeBestForecastForNow()` (`GribUIDialog.cpp:2310-2311`) then sets
`m_InterpolateMode` although the slider counts records, and the next tick takes
the number of a record for a number of intervals (`TimelineTime()`, lines
1793-1799). With a file of 0, 4 and 10 h, an interval of 1 h and now at 3 h, 3 h
is shown first and 1 h on the next tick: play back goes back. The same happens
on every turn of a loop to the current time, of which the manual
(`manual/modules/ROOT/pages/index.adoc:248-249`) says that "only data now or in
the future are shown".

## 4. The proofs

TLAPS checks, for every value of the constants that satisfies the assumptions
of the module:

| Module | Theorems | Argument |
|---|---|---|
| `HostedCacheProofs` | `TypeCorrect`, `PinnedRunsStay`, `ResultsAreWhole`, `ResultsFormAStore`, `NewestTwoAreGenuine`, `NewestTwoAreKept`, `RunsStayBounded` | `PinInv` adds that a cycle being removed is not pinned: `PruneTake` tests the pin, `PinCycle` and `ReaderPin` test the removal (`LocksExcludeNext`). Frame lemmas say which step can touch which files. `ResultInv`: a result lock has one owner; the part file plus what is left to crop is the request; a `.grib2` is whole as soon as it has its name. `ResultsFormAStore` is the refinement, see below. `RetentionInv`: at most one ingester is past the ingestion lock; every cycle it still wants to remove has two newer complete cycles; what it downloads is either present or still planned. A half-removed cycle keeps its marker but is never among the newest two. |
| `HostedJobsProofs` | `JobsTyped`, `NoDuplicateJobs`, `SlotsNeverLeak`, `NeverQueuedTwice`, `RecordsSafe`, `StatusNeverGoesBack` | `JobsInv`: `active` and the program counters say the same; a job in the queue is there once; a waiting job has its record in the state its program point calls for, which also bounds where a status can go. Slots and records are counted with the cardinality lemmas of the library. |
| `DownloadBudgetProofs` | `BudgetTyped`, `BudgetNeverForgets`, `LimitsHold`, `LengthIsRight`, `DownloadSlotsKept`, `BudgetNeverReopened` | `BudgetInv`: the file equals what was let go on its day, nothing was let go on a later one, and no day is above the limits; a result keeps the size that a thread has measured as long as it holds the shared lock (`Measured`). |
| `GeneratorProcessProofs` | `TypeCorrect`, `NoStrayHelper`, `ObjectOutlivesNotification`, `FailureKeepsOpenGrib`, `ResultOfTheHelper`, `OneHelperAtATime` | `StepEffect`: what each action does to the helpers, one by one; from it the type, control and notification invariants step by step. Which result file is read needs `ResultInv`: the dialog tracks the only helper that runs or waits to be reaped (`Sole`, `Held`); a dialog that is gone tracks nothing, names no file and posts no call (`Departed`); no name lies in the future, and the dialog knows the latest or none (`Dated`); and where a posted `OnGenerate()` may have moved on to a new name, that is the tracked helper's, or can be used without finding an old result (`Posted`). |
| `EstimateHelperProofs` | `EstimateTypeCorrect`, `EstimateIsCurrent`, `IssueIsCurrent`, `HelperStaysWatched` | A change of a watched field raises the revision, so whatever carries the newest revision was made from the present fields (`Fresh`). |
| `RequestDownloadProofs` | `RequestTyped`, `IdleStaysReady` | Handlers nest only on a yield of the outermost one, so the stack has at most two frames; every handler that returns has just cleared `m_downloading` and passes `Return`, and nothing that happens on an empty stack sets it again (`StepIsReady`). |
| `GribFileProofs` | `LoadsAllOrNothing`, `LoadsRatesAreMeans`, `LoadsVectorsWhole`, `LoadsOwnForecast` | What one load promises, for any files, any memory budget and any copies asked for. See below. |
| `ViewerProofs` | `NeverDangling`, `BarTypeCorrect`, `NoIndexOutOfRange`, `TimelineStaysNear`, `LabelsStayOwn`, `PlayBackGoesOn`, `RatesAreLoaded`, `VectorsAreLoaded`, `WholeFilesAreLoaded` | See below. |

`ResultsFormAStore` (`Spec => ImplementsStore`) shows of every step which step of
`ResultStore` it is. `Crop` is `Make`: the piece written last gives the result its
place. A result becomes visible, `Put`, in one of two places: in `Publish`, when
a `.json` was left over from an eviction that crashed between its two unlinks,
and otherwise in `WriteMetadata`; either leaves the order alone, because the
rename hands the time of the part file on to the `.grib2`. `JobFails`, the crash
of the service and a `.json` that cannot be written are `GiveUp`, of one result
or of all that were begun. `Lookup` of a visible result is `Use`; the unlink of a
visible `.grib2` is `Evict`, since among all the files it is the oldest; everything
else, the unlink of a `.json` included, shows a client the store as it was.
`StoreInv` is what this needs beside `ResultInv`: between the rename of the
`.grib2` and its `.json` nobody else is inside `results` (`PublishedAlone`); what is
being cropped cannot be seen (`CropsHidden`); and a `.grib2` does not come back
before its `.json` is unlinked (`UnlinkedGone`).

`ViewerProofs` is layered like the code. Its lemmas say of every function of the
control bar what it keeps and what it brings about: `Rests`, `Follows` and
`Descends` are three degrees of "as before", from a choice that is set to a file
that is shown. `TimelineChanged`, `ComputeBestForecastForNow`, `SetTimeLineMax`
and `OpenFile` are put together from them, and each event from these.

* `NeverDangling` rests on `Shown`: whatever a function starts from, it leaves a
  record set of the open file, or no usable file, or a crash.
* The next four are parts of one invariant, `BarInv`, because none of them is
  inductive alone. `Healthy` says that the members agree: the list has the
  file's dates in ascending order, one label at most is outdated and it is the
  one put away (`OneStale`), the time line is as long as the options ask for
  (`Fits`) and stands near what it shows (`Near`) unless the dates have changed
  under it (`Regular`), a control bar that is ready,
  plays or stands at now has a usable file (`Quiet`). While the settings dialog
  is open, applied options may be at odds with the range of the time line, so
  `Fits` and `Near` are claimed for a closed dialog only, and `CloseSettings`
  brings them back from nothing. `Intervals` says which intervals can come into
  force: the stored one, the one of the control bar and every one the dialog
  offers are intervals the file allows. The nearness of the time line is a
  matter of quotients and remainders (`ValueNear`, `PlacedNear`,
  `DivisionMonotone`): rounding to the nearest step and clamping to the end of
  the slider both cost less than a step.
* `PlayBackGoesOn` needs to know where play back goes on to when it leaves now:
  to the step after the one now lies in (`Lead`). `WaitsAtNow` says that neither
  the time line nor the time shown is beyond that step, which the clock only
  moves forward (`TickAhead`). A tick then shows a later time, or that step,
  which now may have reached.
* `RatesAreLoaded`, `VectorsAreLoaded` and `WholeFilesAreLoaded` are the theorems
  of `GribFileProofs` for the loads that `loaded` notes (`LoadedInv`). Those
  theorems hold of every load there can be, so of the later ones, too.

`GribFileProofs` follows a load from its messages to its record sets. The code
is loops over records, in the model folds, and what a loop does needs an
induction. The induction theorems of the library take an operator as a parameter
and cannot be used; `StepsInduction` is obtained instead from the existence of
a minimal element in a set of numbers (`WFMin`), and says that a *set* which
has 0 and with each number the next one has them all. `ChainOf` then turns each fold
into a chain of states, `IsChain`, one per record. The lemmas called `...Chain`
give the chain of a loop, the ones called `...Is` and `...Means` what the loop as
a whole has done:

* *Read.* `Stage` says how the records grow while files are read: what was there
  stays, what is added comes from a message or is derived from such a record, a
  refused record stops the load. `FilesAre` and `FilesOnce` sum up all files: each
  kept message has its record, and under `OneRun` exactly one.
* *Rated.* `computeAccumulationRecords()` goes through the dates backwards.
  `Swept` is its loop invariant: the records ahead are as they were read, the ones
  passed are means, but for the last one, which waits for the record before it.
  `MeanOfRest` is the arithmetic of one step: a sum over n hours,
  less the sum over the first m of them, is a sum over the other n - m.
* *Filled.* A copy adds a record for a type and date that has none, and changes
  nothing (`Filled`, `Fills`); so own forecasts stay, and what is copied is a mean
  if what it was copied from is one (`MeanCopied`).
* *Keyed.* The map of the reader groups the records by type; `ByKeyIs` says that
  this neither loses a record nor brings two types out of order (`After`).
* *Placed.* `CellIs` says which record ends up in a slot of a record set: if one
  type competes for it, one of its records; if the two forms of a vector do, the
  components if there are any. `PairShown` then says that both slots of a vector
  choose the same form.
* *Finished.* `FinishIs`: polar vectors become components, an incomplete current
  is dropped, and no other slot is touched.

`LoadDates` says that the list of dates of a load has each of them once and in
ascending order, which `ViewerProofs` needs of every file opened.

The assumptions are the named `ASSUME`s of the modules, and TLC evaluates them
in the runs: `CacheAssumption` (requests are non-empty sets of source files of
existing cycles, ingesters and workers are distinct, there is a cycle),
`NoOneAssumption` (no thread is called no one), `JobsAssumption`,
`BudgetAssumption` and `DownloadAssumption` (limits are numbers, thread sets
finite), `TotalAssumption` (the key of the total is no client's),
`EstimateAssumption` (there is an invalid form value and a file to pick),
`GeneratorAssumption` (bounds are positive numbers, there is an output path),
`FilesAssumption` (files are sequences of messages), `StepTableAssumption`,
`StartAssumption` and `MaxRecordsAssumption` (the interval table grows, the
options the configuration may hold are options, their intervals are in the table,
and there is memory for a record), and `BoundsAssumption` (bounds and clock are
numbers). All of them hold of the configured service and dialogs. Nothing is
assumed of what the files hold: the premises of the load theorems are part of
the properties.

Left to TLC: the liveness properties under fairness (`JobsEnd`, `IngestionEnds`,
`EndIsNoticed`, `UpdateEnds`, `JobsWorkedOff`, `ReturnsWhileShown`), which are out
of these provers' reach, and the three findings, which are counterexamples. Every safety invariant and
every action property of the runs, and the refinement, is a theorem. Some
invariants are proved and need no run of their own: the types of jobs, budgets
and request dialog, `NeverQueuedTwice`, `RecordsSafe`, `HelperStaysWatched`,
`OneHelperAtATime`, `WaitsAtNow`.

## 5. Not modelled

* Planned: request budgets (`Admission`), the Android generator, area presets.
* Of the viewer and the shell: zones on the chart, altitude, the cursor data
  window and the table, which read the current record set; toolbar, chart
  overlays and the values handed to other plugins; the interpolation between
  two record sets, which is floating point arithmetic over fields.
* Without behaviour that a state machine would show: drawing
  (`GribOverlayFactory`, `IsoLine`, `pi_*`), units, colours and the formatting
  of times, generated dialog base classes, vendored code (`json*`, `bzip2`,
  `linmath`, `smapi`, `zuFile`), translations, packaging, the crop helper.
  `check_deployment.py` is a client script without state. These files are most
  of the lines of the tree.
* Sequential code over bits and large data: decoding of GRIB messages
  (`GribV1Record`, `GribV2Record`).
* Absent: the native generator is a submodule; the models let it do what the
  dialog expects or tolerates.
* Outside these models: TLS, HTTP parsing, authentication, byte sizes of
  results, and the contents of the files that the request dialog downloads.

## 6. Plan

In this order:

1. *done* `HostedCache`, `ResultStore` and their proofs.
2. *done* `GeneratorProcess`, `EstimateHelper` and the proofs of the latter.
3. *done* `HostedJobs`, `DownloadBudget` and their proofs.
4. *done* `RequestDownload` and its proofs.
5. *done* `GribFile`, `Viewer` and the proof of `NeverDangling`.
6. *done* Proofs of `GeneratorProcess` and of the invariants of `Viewer`;
   `PlayBackAdvances`; the refinement of `ResultStore`.
7. *done* Proofs about `GribFile`: what every load promises.
8. `Admission`: the request windows, with stamps taken before the lock.
9. `AndroidGenerator` (worker thread, poll, Cancel and Close of a modal dialog).
10. Pure algorithms against reference definitions: `inventory_ranges`,
   `validate_grib_bytes`, area presets and longitudes, decode limits.

The list of runs is kept short on purpose: a new component brings one run, with
its safety and its liveness properties together.
