# A verification project for Timeslides

Timeslides is a small web service (Python, FastAPI, one process in one
container) and a page (JavaScript) that builds groups of satellites from a
catalogue and renders reports about them. This directory models the parts of
it in which order, failure and concurrency matter as TLA+ modules, checks them
with TLC on small instances, and proves the most important invariants of eight
of them for every instance with TLAPS.

Paths below are relative to the repository's `timeslides/` package.

## 1. The system

### 1.1 Components

| Component | State it keeps | Operations | What makes it correct |
|---|---|---|---|
| Render queue, `jobs.py` | registry `_jobs`, `_by_key`, `_held`, the Job objects, a thread pool, one lock | submit (start or join), execute (render, write, hold in memory, publish, fail), get, list, evict, shutdown | one render per key; live jobs are never evicted; keys never dangle; a finished run has its report; queued jobs end |
| Run routes, `api.py` | none of their own | POST run, GET run, GET report (ETag, file or body) | never part of a report, nor an empty one |
| Volume writer, `storage.py` | the strategy settled on | write, probe; the strategies atomic, direct, recreate | a write that returns is whole; while no call fails a write always leaves a whole copy, old or new; rename is crash safe; the ladder copes with every usable mount |
| Group store, `groups.py` | the document (file, cache, or memory after a fall back), a lock | load, create, update, archive, restore, seed, fall back | revisions protect edits; names of live groups differ; nothing vanishes; an unreadable file is never overwritten |
| Group routes, boot, health, `api.py` | the storage block computed at boot | five group routes, `_check_storage`, `_seed_groups` | the boot order probe, seed, serve; the report of a degraded store |
| Configure page, `report/assets/picker.js` | `S`: list, revision, selection, editor, run, run token, poll timer; `localStorage` | search, pick, edit, save, archive, tick, render, poll, open | one chain of polls; the right report, once; the selection fits the list; the editor is whole; edits are not lost |
| Report pipeline, `pipeline.py` | `Fetcher` cache per render | run key, read groups, fetch, skip, build | every group is drawn or skipped; an object shared by groups is the same in all; one empty group does not spoil the others |
| Data quality, `quality.py` | none | dedupe, dedupe_mixed, summarise | the newest record is plotted in any order of arrival; what was arbitrary is said to be |
| Rate limiter, `ratelimit.py` | tokens, last refill, a lock | take, tokens | no span of time grants more than the budget; a wait ends |
| UDL client, `udl.py` | a session and a bucket per client | get, vectors, element sets, search, probe | each request takes a token; a probe has a row for every provider; an error ends the rest |
| Physics, `physics.py` | none | reference orbit, series | which objects anchor a reference, which data cannot be drawn |
| Report builder, `report/builder.py` | none | panel, modes, references, findings, page | defaults are among what is drawn; disagreements are shown |
| Report page, shell, demo, models, config, audit, errors, CLI, image scripts, styles | none, or nothing that outlives a call | | data, text or straight-line code; see section 7 |

### 1.2 How they interact

* A page sends requests to the **routes**. Each handler is a coroutine that
  never awaits before it returns, so the event loop runs handlers one at a
  time; what a page sees between two of its requests is arbitrary.
* POST /api/runs calls `JobRunner.submit`, under the registry lock, and hands
  the job to a **thread pool**. A worker runs `_execute`: it reads the groups
  from the group store one by one, makes a UDL client with a token bucket of its
  own, fetches through it, removes duplicates, builds a panel for each group that
  can be drawn, and writes it through its **volume writer**. Attributes of a Job
  are read without the lock by GET run and GET report.
* The group routes call the **group store**, which rewrites its document
  through a second volume writer and falls back to memory when that fails.
* At start the process probes the volume, seeds the document, and serves. It
  may be killed at any point; the registry is lost then, files are kept.
* The catalogue search and the probe of the providers make UDL clients too, and
  run on the event loop: while they sleep in the bucket or wait for an answer,
  nothing else is served.
* The page loads the group list at start and after each save and archive,
  keeps the revision of the last list, and polls a run until it has ended.

### 1.3 What is hard

The `hazards` of `PROJECT.json` list it line by line. In short:

* *interleaving*: event loop against workers over Job attributes; two workers
  over the held bodies and the shared strategy; two pages over one document;
  answers of the page's own requests in any order;
* *crashes and refusals*: a kill between any two file system calls, a mount
  without rename or overwrite, a volume that fills up, a half-written file;
* *shared budgets*: threads that sleep for one shortfall and wake together, and
  the event loop among them;
* *partial results*: one group, mode, reference, provider or record out of
  several is missing, repeated, disputed or cannot be computed;
* *stale state*: revisions and lists that moved on, the key of a run whose
  groups were edited, the storage block computed once;
* *long legal sequences*: submit, fail, resubmit, evict; archive, create,
  restore; reload, archive, tick;
* *liveness*: a queued job, a polled run, a disabled button.

## 2. Modules

| Module | Models | Composes or refines |
|---|---|---|
| `JobRunner` | `jobs.py` whole, with the run routes of `api.py` | implements `SharedRender`; takes from `Volume` what a write may leave |
| `SharedRender` | the abstract promise "identical specs share one render" | |
| `VolumeWriter` | `storage.py` whole | implements `Volume` |
| `Volume` | the abstract promise of a write: what it leaves when it returns, raises or is killed, on three grades of volume | |
| `GroupStore` | `groups.py` whole, with the group routes and the boot of `api.py` | implements `SharedDocument`; takes from `Volume` what a write may leave |
| `SharedDocument` | the abstract promise "one list of groups, and whoever saves replaces what he has seen" | |
| `PickerRuns` | render, poll and open of `picker.js` | takes from `JobRunner` what the service answers |
| `PickerSelection` | group list, selection and `localStorage` of `picker.js` | |
| `PickerEditor` | editor, save, archive and revision of `picker.js` | takes from `GroupStore` what the service accepts |
| `PickerEditorHistory` | nothing more of the code: beside `PickerEditor`, which groups other people changed since the editor was opened | extends `PickerEditor` |
| `Upstream` | `ratelimit.py` whole; the GETs, the search and the probe of `udl.py`; the catalogue, probe, page and health handlers of `api.py` | takes the renders of `Pipeline` as numbers of requests |
| `Quality` | `quality.py` whole, over the records of `models.py` | |
| `Pipeline` | a run from `start_run` and `_render` of `api.py` through `pipeline.py` to the panels of `builder.py`, with what `physics.py` refuses | extends `Quality`; queue and group store appear as the states of one job and edits of the groups |
| `MC*` | the same, with symmetry and the mounts for TLC | |
| `JobRunnerProofs`, `VolumeWriterProofs`, `GroupStoreProofs`, `PickerRunsProofs`, `PickerSelectionProofs`, `PickerEditorProofs`, `UpstreamProofs`, `PipelineProofs` | theorems and proofs | |

`PROJECT.json` maps every definition that stands for code to the lines it
stands for. A definition whose comment starts with "Mutant:" is a plausible bug of the definition
below it; each property is broken by one of them, so that none holds by the
shape of the model alone.

### 2.1 JobRunner

A job's uuid is its ordinal, a spec is its key. `_jobs` is appended at one end
and trimmed at the other, so it is an interval `first .. last`. The loop has
one handler in progress (`loop`), each worker a place in `_execute` (`worker`).
What the lock makes atomic is one action; what is read or written outside of it
is a step of its own:

* `submit`: `Join`, or `Register` (with the whole of `_evict_locked`) and then
  `HandOff` to the pool's queue, which is outside of the lock.
* `_execute`: `Take` and `Start`, `Progress`, `Rendered` or `RenderRaises`, `Write` or
  `WriteRefused`, `HoldInMemory`, `Finish`, `Publish`, or `Fail`.
* GET run is `AnswerPoll`. GET report is three reads, `ReadPath`, `ReadStatus`
  and `ReadHtml`, then `AnswerReport`; a file is opened later still
  (`SendFile`), after the handler has returned.
* What a write that did not return leaves in the new file (`Leavings`) is what
  `Volume` allows on a poor volume: nothing, part of the report, or all of it.
* `Faults` says what may go wrong: a render raises, a write is refused or cut
  short, a file cannot be removed, the pool is closed while the loop runs.
* `Restart` forgets everything but the files.

History: `heldAt` and `holds` rank the held bodies, `reply` is the last answer.

### 2.2 VolumeWriter

One action per file system call of the three strategies, on a *mount*, the set
of calls it implements out of create, overwrite, rename and unlink. A flaky
mount may fail any call. Each path has a target, a temporary file and a spare;
their names carry the pid, which repeats after a container restarts. Two
threads of the job runner share a writer and its strategy without a lock; the
store probes at start and writes one file under its lock. A `Crash` stops all
threads between two calls. fsync is best effort in the code and has no effect
here.

`Volume` is what the other modules see of it: of each file the target only, of
each thread the write it is in, and a *grade*. A mount with create, overwrite and
rename on which no call fails is *atomic* (a write leaves the old document or the new
one), without rename it is *sound* (or a torn one), and any other is *poor* (or
none, and a write may be refused). The probe, temporary files and spares map to
nothing.

### 2.3 GroupStore

A document is a revision and its groups; a group is its name and whether it is
archived. `file` is the volume, `memory` the fall back, `cache` the last good
read. No read is served from the cache: in the code only a fall back consults it
(groups.py:197), for a memory that the save in progress replaces at once. Handlers hold the store's lock, so a request is one action up to its
save; the save is three outcomes, `Persist`, `FallBack` (the volume refuses)
and `KeepInMemory`, and a kill may come in the middle of it. `faulty` volumes
may refuse a probe or a save and leave the file torn or absent. Clients hold the
document they have loaded (`seen`) and present its revision, or none; `loaded`
are the clients that did so from the process that runs now. `Damage` is that of
`Volume`: a `faulty` volume is a poor one.

In `SharedDocument` there is one list of groups and no file, cache, memory or
revision. The mapping takes the list from wherever the store reads it, and the
edit under way from a save in progress; a load, a request, a save, a restart and
the probe of a process that cannot read its volume are its steps, and the rest
stutters.

### 2.4 The page

The page is a single thread: a handler runs up to its next `await`, and the
rest of it is another action, taken when the answer is there. Requests that are
out are a set (`PickerRuns`) or slots (the others), and are answered, refused
or lost in any order.

* `PickerRuns`: `StartRun` and `Started` are the two halves of `startRun`,
  `Tick` and `Polled` those of a poll. The button is redrawn by `DrawGroups`
  whatever render is out. The service queues, runs, ends and forgets jobs.
* `PickerSelection`: `Loaded` is `loadGroups` after its await, with the whole
  of `reconcileSelection`. `Reload` loads the page again in the same browser;
  a browser may refuse `localStorage` altogether.
* `PickerEditor`: `SaveGroup`, `Saved` and `Loaded` are the three parts of
  `saveGroup`; `ArchiveGroup`, `ArchiveDone` and `Loaded` those of
  `archiveGroup`. An answer may be lost after it took effect. `Others` are the
  other people who edit the document. The name of a group is left out: typing it only
  redraws (`TypeName`).

### 2.5 Upstream

Time is integer: a bucket gains a unit per `Tick`, a request costs `Cost` of
them, so that parts of a token and rounding at the end of a sleep exist.
`Take` and `FallShort` are the two ways through the lock of `take`, with the
refill (`Level`) in them; the sleep is outside of it, and any other thread may
take first. A client makes a bucket of its own, full (`Begin`, `End`), unless
client or bucket are injected; `shared` is that choice, and both are explored.
Workers make renders of up to `MaxGets` requests; the event loop takes one request
of its queue after the other, and a search or a probe keeps it until the last
GET has ended. `Answered` and `Raises` are the outcomes of a GET; a probe goes on
after either.

History: `Watch` opens a window on a bucket at any moment, and `spent` and
`elapsed` are what it grants and what time passes in it.

### 2.6 Quality and Pipeline

`Quality` goes through one answer of the UDL record by record: `First`,
`Repeated` and `Disputed` are the three branches of the loop of `dedupe`. `dedupe_mixed`
dedupes each source by itself; since they never meet, the source is part of
the key instead. A record is its source, epoch, value and creation stamp. The code
compares the stamps as the strings the UDL sent (quality.py:73-75), and the numbers of the
model stand for the order of those strings: that this is the order of time, as it is
for stamps of one format, is assumed wherever "most recently created" is said.

`Pipeline` is one run at a time: `Submit` (with `_resolve_groups`), `Take`,
`ReadGroup` for one group after the other, `BuildReport`, `Names`, then for each
group, mode and object `Cached`, or `Ask`, `Sift` and `Collect` for each query
and `Keep`; `Panel` or `Skip` when the objects of a group are there; `Finish`.
`Edit` changes and archives groups in between, up to the point where nothing reads
them any more. `Raises` is any GET that fails; an exception that is raised
while a panel is drawn is not modelled, only what `physics.py` catches or refuses. Whether a panel can be drawn follows
`reference_satrec` and `compute_series`: of the values of an element set the
model tells apart those SGP4 refuses at their own epoch and those that anchor
no reference through the window. `feuds` is a history variable: the objects
for which some answer disagreed with itself.

## 3. What the runs check

Passing runs (each finishes in minutes, with deadlock checked, since some
action is always possible within the bounds):

| Run | Question | Properties |
|---|---|---|
| `JobRunner_registry` | Do registry, pool, volume and routes agree, and does the queue implement the abstract cache? | `TypeOK`, `SingleFlight`, `KeysLeadToJoinable`, `RunsGoOn`, `DoneHasReport`, `NoPartialReport`, `ImplementsSharedRender` |
| `JobRunner_live` | Does every queued job end, also when the pool is closed? | `QueuedResolves` |
| `VolumeWriter_mounts` | Does the ladder cope with every usable mount, what does a kill leave, and does the writer implement the abstract volume? | `TypeOK`, `ImplementsVolume`, `ACopyIsLeft`, `RenameIsCrashSafe`, `LadderSuffices` |
| `GroupStore_document` | Does the document keep groups, names and edits over refusals, fall back and restarts, and is it one shared list? | `TypeOK`, `LiveNamesUnique`, `NoSilentOverwrite`, `EvidenceIsKept`, `ImplementsSharedDocument` |
| `PickerRuns_chains` | Does the page follow one render at a time, and to its end? | `TypeOK`, `OneChain`, `OpensTheLatest`, `RunsComeToAnEnd`, `ButtonComesBack` |
| `PickerSelection_boxes` | Do the boxes fit the list, and survive loads and reloads? | `TypeOK`, `SelectionIsListed`, `ChoicesSurviveLoads`, `ChoicesSurviveReloads` |
| `PickerEditor_saves` | Is what is saved whole, and does a save from a current editor replace what its user saw? | `TypeOK`, `EditorIsWhole`, `FreshEditsAreSafe` |
| `Upstream_calls` | Does a bucket keep its budget under threads that sleep and wake together, and is everybody served in the end? | `TypeOK`, `WindowBudget`, `ReadinessIsAnswered`, `ProbeIsWhole` |
| `Pipeline_report` | Does a report tell, of every group that was asked for, the newest data and that they disagree, whatever is missing? | `TypeOK`, `NewestIsKept`, `GroupsAccountedFor`, `DisagreementsAreShown`, `DefaultsAreDrawn`, `SameObjectSameData` |

Runs that end in a counterexample. Each checks one sentence that the
repository says of itself, and TLC shows that the code does otherwise:

| Run | Property | The sentence | What happens |
|---|---|---|---|
| `PickerEditor_stale` | `NoEditIsLost` | groups.py:17, "a write must present the revision it read" | the page presents the revision of its latest list. It archives a group and opens one; somebody else changes that one; the list asked for by the archive arrives, with the revision of that change; the save from the editor is accepted and replaces the change unseen |
| `Upstream_readiness` | `ReadinessIsLocal` | api.py:5-9, the readiness target never touches the UDL, and "Long work never happens in a request" | a catalogue search or a probe is a coroutine that sleeps in the bucket and waits for HTTP on the event loop; GET / and /healthz wait behind it |
| `Pipeline_reissue` | `ReissueIsKept` | quality.py:32-33, "in favour of the most recently created record" | a repeat of the kept record is counted as a duplicate and its newer stamp is dropped; with A at 1, A at 3, B at 2 the older B is plotted, and in another order A |

### Bounds

* `JobRunner_registry`: two keys, two workers, three jobs, a registry of one,
  one held body, one progress step, two boots. Three jobs over a registry of
  one force eviction to meet live, finished, failed and foreign jobs; one held
  body forces drops. `JobRunner_live` has a registry of two and no restart.
* `VolumeWriter_mounts`: all sixteen sets of calls, and the full set with calls
  that fail now and then (`steady` is false then); two threads, two reports, two
  documents, one crash. One crash is enough for the next process to meet what
  the last one left.
* `GroupStore_document`: two clients, two names, three groups, revisions to
  4, two boots: a conflict needs two clients and two saves, a name clash an
  archived and a new group, a repeated revision one restart.
* `PickerRuns_chains`: two starts, two jobs: every pair of chains overlaps
  in every way; a third start meets the same token test as the second.
* `PickerSelection_boxes`: three groups, two loads out at once, one reload.
* `PickerEditor_stale`: two groups, two objects, one request out at a time and four
  revisions: an archive of the page, the change of the other person, and the save.
* `PickerEditor_saves`: two groups, two objects (the least a group may have,
  so that each removal makes it too small), two requests out, three revisions
  (a save of the page and an edit of another person after the first).

* `Upstream_calls`: the loop and one worker, a bucket of one and a half
  requests, two providers, two requests a render, a window of four ticks: a
  shortfall, a wait for a part of a token, and both threads asleep for the same
  one are reached. The window is longer than a refill from empty; what happens
  in a longer one repeats it, and the theorem has no bound.
* `Pipeline_report`: three groups over three objects, two of them shared by
  two groups, runs of at most two groups (a third makes a run too large), one
  or two modes, one provider. Answers hold up to three records: repeated,
  disputed with a newer and an equal stamp, of two sources, refused by SGP4.
  `Pipeline_reissue` has the records of one reissue.

Symmetry is used over keys, workers, clients, groups, objects, requests,
threads, reports and documents where only safety is checked; the liveness runs
use none.

### Fairness

* `JobRunner!FairSpec`: the event loop finishes the handler it is in, and each
  worker thread goes on with its job: threads are scheduled by the operating
  system, and the lock is held for a few steps that never wait. No request, no
  fault and no restart is assumed to happen. A render that never returns is
  outside of the model: the client's HTTP calls have a timeout.
* `PickerRuns!FairSpec`: the service answers or the request fails, the page
  handles what came back, timers fire, and the service's jobs end, the last
  being `QueuedResolves` of `JobRunner`. Weak fairness is per start of a
  render. No click is assumed; so a property that needed one would fail.

* `Upstream!FairSpec`: the clock runs, threads are scheduled, and a GET ends,
  since it has a timeout. The arrival of requests is not assumed. The lock is not
  fair, and nothing is claimed of threads that share one bucket: there
  `ReadinessIsAnswered` and `ProbeIsWhole` say nothing, for one of them may be
  passed again and again.

## 4. What is proved

All for every value of the constants that the named assumptions
(`JobRunnerAssumption`, `VolumeWriterAssumption`, `GroupStoreAssumption`,
`PickerRunsAssumption`, `PickerSelectionAssumption`, `PickerEditorAssumption`, `UpstreamAssumption`, `QualityAssumption`,
`PipelineAssumption`) allow: they say that the model values differ, that
bounds are naturals, that a registry and the memory for bodies hold at least
one, that the catalogue of the editor is finite (it counts the objects of a
group), that a request costs no more than a bucket holds (`take` raises
otherwise), and that groups, modes and answers are sequences of their kinds.

**JobRunnerProofs.** `TypeCorrect`; then `RegistryInvariant`, the inductive
invariant `RegistryInv`, and from it `RendersAreSingleFlight`, `KeysAreJoinable` and
`LiveJobsAreKept`. `SingleFlight` alone is not inductive: that a joinable job
is the one its key leads to survives a `Fail` or an eviction only if no other
worker holds the same job, and if keys never lead to foreign or failed jobs.
So `RegistryInv` adds `InOneHand` (a job is in the hand-over, the queue or one
worker, and its status says where), `LiveIsKept` (what is live is registered)
and `KeysLeadToJoinable`. There is one lemma per action, and lemmas for what
several share (`OwnJob`, `OthersUntouched`, `StaysJoinable`).

`ImplementsShared`: the runner implements `SharedRender`. From `RegistryInv`, a
`Register` is a `Start` that forgets the keys of the evicted jobs (all finished,
since eviction stops at a live one and keys lead to joinable jobs only); `Finish`
and `Fail` of a worker are `Succeed` and `Fail` of the key of its job, which by
`OwnJob` still leads to it; a restart is a restart; every other step leaves keys
and finished jobs alone and is a stutter.

`ReportsAreWhole`, from `FilesInv`: what has a path, was seen by a handler, or is
being sent is *settled*, that is done and not torn. A settled job stays so, since who
writes has a running job in hand. `DoneRunsHaveReports`: a thread at the end of its job has written
the file or held the body (`BodyInv`), no job is evicted while another thread
publishes (`LockInv`), and a body is dropped only when it is old enough. The last is
a pigeonhole argument: held bodies have ranks of their own (`RanksInv`), so the
oldest of more than `MaxHeldInMemory` has that many after it (`OldestIsOld`).

`RunsHaveOneLife` states `RunsGoOn` of every step: a status moves along
queued, running, done or failed, never back, and a run that leaves the registry had
ended. `PickerRuns` relies on it: its service answers polls in that order.
`NoJobIsStranded` (`NoneStranded`) is the safety half of `QueuedResolves`: every
live job is with the handler, in the queue or with a thread, unless the pool
refused it. `FewBodiesInMemory` (`BodiesAreFew`): the loop of `_hold_in_memory`
adds one body to at most `MaxHeldInMemory`, so that dropping one is enough, and
the body of a run that goes leaves the list of held ones with it.

**VolumeWriterProofs.** `TypeCorrect` and `WritesAreWhole` from
`WriterInv`: no two threads write one file (`Apart`), and before a rename, a
removal, a rewrite or a return the copy it relies on is whole (`Whole`). Each
call is brought to one form, a step that moves one thread and touches one file of
its path (`Moves`, `Touches`), for which `MovesKeeps` shows the invariant once.
`RenameIsSafe` adds `AtomicOnly`: where every file is taken, rename works and no
call fails, no thread ever leaves the atomic strategy.

`LadderIsLongEnough` needs to know where on the ladder a thread may be. `Ladder`
says so for the mounts `LadderSuffices` speaks of: only the calls of strategies
up to the one that works are reached, and of that one only those that follow a
success (`Rungs`); where nothing can be overwritten, the sibling that the strategy
creates exists in the hands of a thread only (`Holding`), so that each attempt
creates its own; and before the target is created anew it is gone (`Climbs`).

`CopyIsLeft` has two cases. A mount that overwrites must create and rename too, and
then `AtomicOnly` says it. On one that does not overwrite, `AllStand` is inductive: a
document that was found stays in its target through all calls of the ladder up to its
removal (it cannot be truncated), the removal happens only with a whole spare, and
where a spare could be created the target can be too, so that the rewrite cannot fail.

`WriterIsVolume`: from `WriterInv` and `Ladder` each call is an
`Alter` of its own file or shows nothing; a call after which the target is absent or
torn is reached only on a mount whose grade allows that, and so is a raise.

**GroupStoreProofs.** `TypeCorrect`; `SavesFollow` (the document in a save is
the successor of the current one and keeps its groups); `EvidenceStays`;
`PodsKeepGroups`; `NamesStayDistinct`, from `NamesInv` (the file, the memory
and the save all have distinct names); `NoSaveIsSilentlyLost`, from
`RevisionsInv`: for a client that is `Protected`, what it has seen is not newer
than the document, and equal revisions are equal documents. Those are all clients of
a volume that takes every write, and on any volume the clients that loaded from the
process that runs now, also after a fall back to memory. `GroupsSurvive`.

`StoreIsSharedDocument`: these put together. A `Persist`, a `FallBack` and a
`KeepInMemory` are the one `Save` of `SharedDocument`, because the document read
afterwards is the one that was being saved, wherever it went (`SavesFollow`), its
client had seen the one before (`RevisionsInv`), and its names differ (`NamesInv`);
a kill in the middle of a save is a restart that keeps the list, applies the edit, or
damages it; the probe of a process finds the list as it was, or starts anew.

**PickerRunsProofs.** `TypeCorrect` is not inductive by itself, since a timer polls
`S.run`, which could be null. `OneChain` needs that what is out is the only
one of its kind and of the others (`PostIsAlone`, `PollIsAlone`, `TimerIsAlone`) and
that nothing is out for a render to come (`NoFuture`). `LatestIsOpened` then follows
for each step: the one poll of the owner asks for its job, and none was opened before.
`PageIsNeverStuck` (`NeverStuck`) is the safety half of `RunsComeToAnEnd` and
`ButtonComesBack`: whenever the page says that a render is under way, a request or a
timer of it is out. Its invariant has two parts, `Awaited` and `Known`: a poll
is never about a job that has no status, or its answer would be none the page goes
on from.

**PickerSelectionProofs.** `TypeCorrect`; `TickedIsListed` is inductive by
itself; `LoadsKeepChoices` follows from it, for then what a load knows is what the
page lists; `ReloadsKeepChoices` needs `Kept`: between two visits the browser holds
the choices of the page that was left, and these were listed there.

**PickerEditorProofs.** `TypeCorrect` and `EditorStaysWhole`, together the
inductive `EditorInv`: that a saved group is well formed depends on the editor
being whole, and the editor stays whole because the lists it is filled from hold
whole groups only. `FreshEditsStaySafe`, from `FreshInv`: whatever carries a
revision, a list, the group in the editor or a request under way, is not newer
than the document, and agrees with it where the revisions are equal.

**UpstreamProofs.** `TypeCorrect`. `BudgetHolds` is not inductive: what was
granted in a window says nothing of what is left to grant. The strengthening
bounds both together: what was spent and what the watched bucket holds now is
at most its capacity and the time that passed. `OneSleepIsEnough`: a thread
alone with its bucket finds enough when it wakes, since the level plus the rest
of its sleep never falls below the cost. `ProbesEndWhole` (`ProbeEndsWhole`) is the
safety half of `ProbeIsWhole`, and holds with a shared bucket too: the rows a probe
has and the requests it has left add up to its providers (`ProbeInv`), whichever of them failed.

**PipelineProofs.** `RunInvHolds` is the inductive invariant: types and stages of
a run (`RunTyped`, `Stages`, `Object`), and of the loop of `dedupe` that what is kept are records
that were considered, that their number and the counts add up, and that they
are the newest. From it `TypeCorrect`, `NothingLost` and `NewestKept`; for the latter
the lemma per branch says that a kept point beats all considered ones of its
spot, which needs `StampsAgree`: that repeats of a record carry its stamp. Without it
the run `Pipeline_reissue` is the counterexample. `SameData` is an action property
(an object is fetched only when it is not in the cache). `GroupsAccounted` goes
by the number of panels and skipped groups; `DefaultsDrawn` by the choice among
finitely many modes and objects; `DisagreementsShown` from `FeudInv`: for every cached
object, and for the one that is being fetched, the band is an alert exactly if
it is in `feuds`.

Every safety property and action property of a passing run is stated by a theorem.
The other way round, some theorems state what no run of section 3 lists:
`WritesAreWhole`, `PodsKeepGroups`, `SavesFollow` and `GroupsSurvive` are used in a
refinement or follow from it; `LiveJobsAreKept` is what `RunsGoOn` and
`KeysAreJoinable` rest on; `NoJobIsStranded`, `PageIsNeverStuck` and `ProbesEndWhole` are
what is provable of liveness properties that the runs check; `FewBodiesInMemory`,
`OneSleepIsEnough` and `NothingLost` are lemmas of general use. All were first
checked by TLC on the instances of the runs above, which take any of them
as one more line of their configuration.

**Only model-checked.** Liveness under fairness (`QueuedResolves`,
`RunsComeToAnEnd`, `ButtonComesBack`, `ReadinessIsAnswered`, `ProbeIsWhole`) is
out of the prover's reach and stays with TLC.

## 5. Also seen while modelling

Not kept as runs:

* Reports of an earlier process stay on the volume: a restart forgets the
  registry, and only evicted jobs have their files removed (jobs.py:101, 238).
* A save that fails half-way has already truncated (storage.py:141) or removed
  the target; the store goes on from memory, so nothing is lost until the
  restart.
* A run whose body was dropped from memory still says it is done and links to
  its report (jobs.py:207); the request for it is then refused.
* A group created elsewhere between two visits arrives unticked when a
  selection is remembered (picker.js:276): every group of the first list
  counts as known.
* An answer to a save resets the editor even if another group was opened in it
  meanwhile (picker.js:157).
* "All" or "none" pressed before the first list stores an empty selection
  (picker.js:300).
* `get_report` tests `job.html` and reads it again for the answer; a worker that
  drops the body in between makes the answer an empty page under the report's
  ETag, cacheable for an hour (api.py:378, 391).
* A write in place truncates what it replaces (storage.py:141): on a mount that
  overwrites and does not rename, a kill or a failure there leaves neither the old document nor
  the new. `ACopyIsLeft` leaves those mounts out.
* A rewrite that fails after the target was removed drops the spare too
  (storage.py:167-173), and then no copy is left on the volume. `ACopyIsLeft` is
  about mounts whose calls do not fail; there a kill in the rewrite leaves the spare.
* A spare left by a kill has the name the next process uses, the pid being
  the same in every container; on a mount that cannot overwrite, the next write
  of that file is refused (storage.py:160), and the failed attempt removes that spare, the only
  whole copy if the kill came in the middle of a rewrite. `ACopyIsLeft` speaks of the
  document a write finds in its target.
* After a fall back to memory and a restart the revision goes back to that of
  the file; a page that still holds a later number saves over edits it
  never saw (groups.py:271). `NoSilentOverwrite` says that no other page does: none on a
  volume that takes every write, and on another none that loaded after the restart.
* The storage block of /healthz is computed at boot; a fall back at a later save
  is not in it (api.py:97, groups.py:259).
* The budget of requests per minute holds per client: each render, search and
  probe starts with a full bucket (udl.py:137), while config.py speaks of the
  requests allowed against the UDL.
* A bucket that is shared serves whoever takes the lock first; a thread that
  wakes may find its tokens taken, again and again.
* A `RunSpec` holds the ids of its groups and not what is in them
  (pipeline.py:26-42): with an explicit window, a request after an edit joins the
  report of before. The page sends no window, so its key changes every second.
* One element set that SGP4 refuses takes all references of its group and mode
  with it (physics.py:247, builder.py:320).
* If two originators have an element set at the latest epoch, which one anchors the
  reference depends on the order of their answer (physics.py:206-208).

## 6. Plan

Done: all modules of section 2 and the proofs of section 4. What is left, in this
order:

1. The catalogue search of the page, whose answers may come in another order.
2. The report page, if the others leave room.
3. Proof: the service that `PickerRuns` assumes (Submit, Work, Report, Forget) as an
   abstract specification that `JobRunner` implements; `RunsGoOn` is the part of
   it that is proved.
4. Proof: an abstract specification of a report, each group drawn from the newest
   records or skipped, that `Pipeline` implements; its parts are theorems.

## 7. Not modelled

* `physics.py` beyond which series and references exist: floating point
  propagation and frames.
* `report/builder.py` beyond panels, defaults and findings, `report/__init__.py`,
  `shell.py`, styles: text and layout.
* `udl.py` beyond requests, errors and the probe: the parsing of records.
* `pipeline.py`: `validate_window` compares two dates; `demo_report` draws fixed data.
* `demo.py`, `config.py`, `audit.py`, `errors.py`, `__main__.py`: data,
  constants, formatting, or straight-line code without later state.
* `report/assets/report.js`: click handlers of a finished document.
* Of `picker.js`: the catalogue search, the provider probe, tabs and chips.
* The image and deployment scripts.

Simplifications inside what is modelled, none of which a property depends on:

* `as_dict` reads the status of a job twice (jobs.py:70, 77), `AnswerPoll` once.
* `WriteRefused` is an OSError of the write; any other exception there ends in
  `_fail` like one of the render (jobs.py:152).
* The cache branch of `_current_locked` (groups.py:197) and a read that fails once
  and works again (groups.py:201, 228).
* The `ref_epoch` of `reference_satrec` (physics.py:209), which the service never sets.
* Whether an element set carries a series through the window is an attribute of its
  value (`Carried`), while the code looks at the window and the other epochs
  (physics.py:141-154).
* Exceptions while a panel is drawn, other than those `physics.py` handles: a failure to
  build an SGP4 record, the configuration, missing credentials. They would end
  the run in `_fail`, as a failed GET does.
* A browser refuses `localStorage` always or never; the code meets a refusal at each
  call (picker.js:250-257).

## 8. Running it

    tlc -workers 2 -config JobRunner_registry.cfg MCJobRunner.tla
    tlapm JobRunnerProofs.tla

Each run of `PROJECT.json` names its module and configuration.
