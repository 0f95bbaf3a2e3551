# Verification of cvforge

cvforge (`cvforwin`) is a C++ library that a host program loads to inspect parts
with one camera: a C API of five functions, one context per process, one
inspection at a time under one absolute deadline, and artifacts (captures, logs)
written beside it. This directory holds TLA+ models of its concurrent and
time-dependent core and of the data it takes from outside (files, devices, frames,
the structures of its host), the TLC runs that check them on small instances, and
proofs checked by TLAPS. `PROJECT.json` lists components, runs, mutants, the map from
definitions to source lines, findings, hazards and theorems.

    tlasany M.tla                        parse
    tlc -workers 2 -config X.cfg M       model-check a run of PROJECT.json
    tlapm M.tla                          check the proofs of a module

## 1. The system

| Component | Source | State | Operations |
| --- | --- | --- | --- |
| C API | `src/c_api` | the lifecycle mutex, the slot of the one live context | `cvf_initialize`, `cvf_inspect`, `cvf_reload_recipes`, `cvf_shutdown`; validation of structures; writing results |
| Runtime context | `src/runtime/context.cpp` | recipe snapshot, camera, gate, sticky warnings, save worker, maintenance thread | `create`, `inspect`, `finalize_post_frame`, `reload_recipes`, `schedule_retention`, `maintenance_loop`, `~Impl` |
| Finalization | `src/runtime/finalization.h` | none | `finalize_after_frame`, `save_requirement_for` |
| Save worker | `src/artifacts/save_worker.*`, `capture_sink.*` | executing and queued job, outcomes, cancellation marks, two mutexes, one thread | `try_submit`, `wait_until`, `cancel_target`, `cancel_pending`, `drain`, `worker_loop`, `execute`; the sink's write, commit and discard |
| Capture store, retention | `src/artifacts/capture_store.*`, `retention_scheduler.h` | the captures directory; counters of the trigger policy | `decide_capture_save`, temporaries and their publication, `enforce_retention`, `due`, `on_capture_committed`, `on_retention_run` |
| UVC command worker | `src/camera/uvc_windows/uvc_command_worker.h` | lifecycle state, command queue, one thread | `start`, `submit`, `stop_and_join`, `worker_main` |
| UVC backend | `src/camera/uvc_windows/uvc_backend.cpp`, `uvc_stream_generation.h` | COM and Media Foundation lifetime, source, reader, stream generation, read buffer | `enumerate`, `open`, `capture`, `reconnect`, `close`; the read callback |
| Camera helpers | `src/camera/camera_backend.cpp` | none | `capture_with_one_retry`, identity, selection |
| Frame conversion | `uvc_frame_math.h`, `uvc_frame_convert.cpp` | none | stride and extent arithmetic, pixel conversion |
| Recipes and configuration | `src/recipes` | the immutable catalog, its holder | strict parsing, `RecipeCatalog::load`, `find`, `find_prepared`, `publish` |
| Registry and algorithms | `src/inspection`, `src/algorithms` | the compiled set | registration, `dispatch`, the two algorithms |
| Diagnostics | `src/diagnostics` | log file, host callback, warning flags | `log`, `warnings` |
| Core | `src/core` | none | deadline, result, error catalogue, text, ABI checks |

How they interact. A host thread calls the C API; every call checks its handle
under the lifecycle mutex and then works on the context without it. An inspection
waits for the gate until its deadline, reads the recipe snapshot once, takes a
frame with at most one reconnect, settles, dispatches the algorithm, then hands the
frame to the save worker and waits for the answer until the deadline. The camera
calls become commands of the UVC worker's thread, whose reads are answered by
callbacks on Media Foundation's threads. A committed capture may make the
retention due; the maintenance thread then scans and deletes, concurrently with the
next publications. The destructor stops the maintenance thread, drains the save
worker and closes the camera. Everything is tied together by one
`core::Deadline`, which each stage tests at a moment of its own.

What is hard: a deadline that passes between a decision and its effect; two
mutexes of the save worker taken in different orders; jobs, marks and outcomes that
outlive the call they belong to; answers of a camera that come late or never;
a startup abandoned by its caller; a directory scanned without a lock; overlapping
reloads. `hazards` in PROJECT.json lists them with their lines.

What makes each component correct:

- save worker: the answer agrees with the disk for ever, no temporary and no job is
  left behind, waits end;
- retention: what is deleted had to be, the quota is restored after runs that failed
  too, the thread stops;
- post-frame: status, verdict, path and warning agree with what was published;
- command worker: each thread is joined once, each teardown runs once, each answer
  is true unless another worker was started since;
- UVC backend: no frame of another request or stream, one read at a time, whole
  streams or none, balanced lifetimes, one retry;
- runtime: one camera session, one inspection past the gate, one complete snapshot
  per inspection, every call returns;
- frame conversion: no read outside the locked range, no byte of the frame left
  unwritten, no sample refused that could be decoded, the lock released once;
- recipes and configuration: a load is all or nothing and publishes what the files
  say, a refused one changes nothing;
- algorithms: what `prepare` accepted `inspect` does not turn down, a verdict comes
  from inside the frame;
- C API: status, code, verdict and texts of a result are of its own call, `out_context`
  is NULL after a rejection, a malformed structure is not written to;
- camera selection: the selected device or none, never a guess.

## 2. Modules

| Module | Models | Kind |
| --- | --- | --- |
| `SaveWorker` | `SaveWorker` and `CaptureStoreSink` | component |
| `ArtifactSave` | what a caller of the save worker may rely on | abstract specification |
| `Retention` | `RetentionScheduler`, `maintenance_loop`, `enforce_retention` | component |
| `RetentionSystem` | `Retention` with publications and the destructor | composition |
| `Finalization` | `decide_capture_save`, `save_requirement_for`, `finalize_after_frame` | operators |
| `PostFrame` | `finalize_post_frame` over `SaveWorker`, `Retention` and `Finalization` | composition |
| `CommandWorker` | `CommandWorker` | component |
| `UvcBackend` | `UvcCameraBackend`, its callback and the runtime's calls to it, over `CommandWorker` | composition |
| `Runtime` | the C API and the context around the stages above, with several threads | component |
| `FrameConvert` | `convert_sample`: locking, stride arithmetic, checks and the copy loop | component |
| `Inspection` | prepare, dispatch and inspect of the two algorithms | component |
| `CameraIdentity` | selectors, descriptors and their unique match | operators |
| `RecipeFiles` | the files of a configuration root and their loading | component |
| `CallPath` | the calls of one host thread over `RecipeFiles` and `CameraIdentity` | composition |
| `ArtifactProofs` | theorems on `SaveWorker`, `ArtifactSave`, `Finalization`, `PostFrame` | proofs |
| `RetentionProofs`, `CommandWorkerProofs`, `UvcBackendProofs`, `RuntimeProofs`, `FrameConvertProofs`, `InspectionProofs`, `CallPathProofs` | theorems on the module or the system of that name | proofs |

Conventions. One action is one critical section or one call that may take time; its
name is that of the function, or the function and the step. `pc`-like fields
(`client.pc`, `worker.pc`, `pc[t]`) name the place in the code. Mutexes held across
steps are variables; a mutex taken and released within one step is a guard. A
condition variable is a wait state whose wake-up is the notification in the code; a
lost notification is a lost wake-up in the model, and spurious wake-ups add nothing
since every wait re-tests its predicate. An operator whose comment begins with
"Mutant" is a plausible bug and is used by no specification.

Time. No clock is counted. A deadline is expired or not, and where the code asks
`remaining()` the model has the third case the code has: less than a millisecond
left, which `remaining()` reports as none while `expired()` is still false
(`core/deadline.cpp`).

### SaveWorker and ArtifactSave

`slots` (executing, queued, completed outcomes, last identifier), `gateVars` (stop,
cancelled, awaited and decided identifiers), `locks` (`mutex_`, `publish_mutex_`),
`client`, `worker`, `files` (temporaries and finals on disk). The client is the one
thread that calls the worker, as the context's gate makes it; it does so in every
order. `execute` is cut at the temporary's write, the decision under
`publish_mutex_`, the commit, the discard and the recording of the outcome; the
decision and the commit hold `publish_mutex_` together, and the waiter's
`mutex_`-then-`publish_mutex_` nesting is kept. Sink calls may fail, and with
`RemoveMayFail` so may the removal of a temporary. `ArtifactSave` knows only jobs,
their fates and the answers told; the fate of a job is decided once and no answer
contradicts it. `ImplementsArtifactSave` maps files and outcomes to fates.

### Retention and RetentionSystem

`disk` is the listed directory with each capture's size and age, `scheduler` the
counter and the interval flag, `request` the pending request, `run` the scan in
progress. A scan lists a file at a time while publications rename files in; deletions
go from the oldest by age, then by quota, and any of them may fail and end the run. A
run that failed resets both triggers like any other: `QuotaIsRestored` says that a later
one still brings the captures within the quota, and supposes only that runs do not go
on failing for ever.
The system adds `Publish`, `Report` (`on_capture_committed`, `schedule_retention`)
and `Close`.

### Finalization and PostFrame

`FinalizeAfterFrame` is the decision table as a function from requests and warnings
to decisions. `PostFrame` is the inspection after its frame: `Arrive` (with a policy
and an outcome), `SkipSave` or `SubmitSave`, `AwaitSave`, `SettleSave`, `Decide`; in
parallel the steps of the save worker, of maintenance, of the clock, and
`Destroy`. The client of `SaveWorker` is this inspection, so what the worker module
leaves to its caller (one wait per submission) is what the runtime does.

### CommandWorker and UvcBackend

`shared` (state, sequences, queue), `callers` and `worker`; `history` records what
was executed and is read by properties only. `start` is one epoch: the spawn, the
wait under a deadline, the join after a failure. A caller that sleeps through a restart
compares its sequence with those of the new epoch, which start again at 0, and may be
told a wrong answer: `submit` keeps no epoch to compare, and `AnswersAreTrue` claims
nothing of such a caller. The backend starts its worker once, in its constructor
(`uvc_backend.cpp:841`), so the program does not meet the case. `UvcBackend` replaces the callers by
one client (the context: create, inspect with a retry, settle, close) and the
commands by their bodies. `lifetimeVars` are the COM, Media Foundation, source and
reader objects, `streamVars` the generation and the read buffer, `eventVars` the read
events in flight. Events are delivered late, with an error, after their stream was
replaced, or never; a delivery is cut between the gate's test and the
write of the buffer.

### Runtime

`context_mutex`, `slot`, `camera`, `settings`, `gate`, the snapshot, and per thread
the place and the locals of its call. All of `cvf_initialize` and of `cvf_shutdown`
runs under the lifecycle mutex; `cvf_inspect` and `cvf_reload_recipes` only check
their handle under it. `Return` releases the gate. The algorithm and the save are
one step each here; their inside is the subject of other modules.

### FrameConvert

`sample` is what Media Foundation reports of a buffer: its format, its size, the
address of its top row, its pitch and the range it may be read in, or less if the
sample only has a flat buffer; `view` is what the lock told. The size may have no rows or
no columns, as that of a media type without a frame size (`uvc_backend.cpp:345-353`):
the measurement or the decoder refuses it before any row is read. The actions are the ways
to lock (`Lock2DSize`, `Lock2D`, `LockFlat`), `Measure` (the checked rebasing of the
range to its lowest address), `Check` (the tests of the decoder), `CopyRow` and
`Unlock`. All arithmetic is that of `std::size_t` with `SizeMax` in the place of
its largest value: a checked operation that would pass it fails, an unchecked one
wraps. `source` and `filled` collect the ranges read and the bytes written; pixel
values are left out.

### Inspection

`prepared` is the published `IPreparedAlgorithm`, `frame`, `input` and `expired` are
the request. `PrepareTemplate` and `PrepareThreshold` take any recipe of a bounded
universe and publish it or refuse it; `Dispatch` and the steps after it are the
inspection, with a deadline that may pass between any two. An `int` has
`2 * (IntMax + 1)` values: `Narrow` is what `get<int>()` does to a JSON integer, and
`Sums` gives both outcomes of an addition that overflows, since the language leaves it
undefined. Scores, ratios and thresholds are integers between 0 and `Unit`.

### RecipeFiles, CameraIdentity and CallPath

`disk` is the configuration root: documents are sets of defects named after the
checks that find them, recipes also have an id and assets, assets a size. `loader` is
`RecipeCatalog::load` cut at every read: `ListFiles`, `ReadFile`, `MeasureAsset`,
`ReadAsset`, `PrepareRecipe`, `CompleteLoad`; between two of them `Edit` may change or
delete a file or the directory. `quiet` remembers that nobody did.
`CallPath` is a host thread that makes any sequence of calls: `Initialize`,
`Reload`, `Inspect` and `Shutdown` pick the shapes of their structures, and one
action per group of checks takes the call to its return. `result` and `error` hold,
per output field, where its value comes from: "earlier" or this call; `out` is the
pointer that `cvf_initialize` is given the address of, which `InitializeOut` sets to NULL
before any other check. `Failure` is `publish_result_failure`, `Written` what
`inspect_impl` writes of an outcome: only the latter writes the `Counters`,
`warning_flags` and `elapsed_ms`. The
cameras are enumerated twice, in `Enumerate` and in `PublishContext`, from sets that
need not agree. What an inspection does inside is an outcome here, as any of those that
`PostFrame` and `Inspection` lead to.

## 3. Runs

| Run | Instance | Shows |
| --- | --- | --- |
| `save_worker` | 4 jobs, removals may fail | agreement of answers and disk, no leftovers, no deadlock, waits and `drain` return, refinement of `ArtifactSave` |
| `retention` | 4 captures of sizes 1 and 3, quota 2, trigger 2 | deletions are needed, a good run meets the limits, an exceeded quota is restored even after failed runs, the thread stops |
| `post_frame` | 2 inspections, all policies, an error or an execution | path, status, verdict, warning and disk agree, a save is never refused |
| `command_worker` | 3 callers, 3 commands, 3 epochs | joins, teardowns, answers, refused commands, `start` and `stop_and_join` return |
| `uvc_backend` | 6 commands, 2 inspections, 2 reads | fresh frames, single reads, whole streams, balance, `close` returns |
| `runtime` | 2 threads, 2 contexts, 2 recipe versions | one camera, one cycle, one snapshot, inspections return |
| `frame_conversion` | 7 formats, 5 dimensions with 0, 7 pitches of both signs, 6 lengths, sizes up to 63 | reads inside the range, frames filled, no needless refusal, one release of the lock |
| `inspection` | ints from -6 to 5, JSON integers to 14, frames and templates to 2 by 2 | recipes that load can be inspected, verdicts from inside the window |
| `call_path` | 2 recipe files, 2 assets of 4 sizes, 1 edit, 4 devices, all shapes of structures | status, code, verdict and texts of their own call, NULL after a rejected initialisation, malformed structures untouched, exact loads, the selected camera |

Disagreements between code and documents (each run checks one statement and TLC
refutes it; `findings` quotes the statement):

| Run | Statement refuted |
| --- | --- |
| `runtime_reload` | calls are serialised in the context, reload is all or nothing |
| `runtime_settings` | a recipe's capture settings are used for its frames |
| `template_roi` | the reference algorithm bounds-checks its roi against int overflow |

Other places where a document or a comment reads otherwise than the code, met while
modelling and kept as the code has them:

- the commit of a file may end after the deadline (`save_worker.cpp:206`), the save
  stage starts whatever the deadline (`context.cpp:526`), and a wait that ends in its
  last millisecond is REQUIRED_ARTIFACT_ERROR and not TIMEOUT (`context.cpp:549`);
- `save_worker.h:132` says that `publish_mutex_` stalls no user of `mutex_`; `wait_until`
  asks for it while it holds `mutex_` (`save_worker.cpp:75`);
- `save_worker.h:76` says that the temporary is always removed; the error of a removal
  is ignored and the file forgotten (`capture_sink.cpp:53`), and a process that dies
  before the rename leaves one too (`capture_store.cpp:222`), which no later retention
  removes;
- `context.cpp:12-13` says that technical errors clear the image path; the path of a
  committed capture is reported (`finalization.h:135`);
- `.ai/project-contract.yaml:768` says that retention synchronises publication and
  deletion; a run takes no lock and may delete a capture before its path is returned;
- `.ai/project-contract.yaml:404` says that the host's log callback is called without
  internal warning or state locks; `create` logs under the lifecycle mutex
  (`cvf_entry_points.cpp:410`);
- `docs/development.md:599` says that warning bits are reported per call;
  `publish_result_failure` leaves `warning_flags` and `elapsed_ms` as they were, so after
  a refused or failed inspection both still tell of an earlier call. `CallPath` has them
  so, and `OutputsAreOfThisCall` speaks of the two only after an OK. And the flags of a
  context, once raised, are never cleared (`context.cpp:578`);
- `cvf_api.h:23-24` says that `bytes_required` is the size the full text needs; a
  payload over the runtime's own bound is BUFFER_TOO_SMALL with nothing required;
- `cvf_initialize` leaves the error structure untouched when it succeeds, and an
  exception contained in it or in `cvf_reload_recipes` leaves it unwritten;
- `cvf_api.h:21` counts UTF-8 content bytes, `write_text` cuts a text at a byte and not
  at a character;
- `docs/development.md:451` warns of Python's unbounded integers; `template_match.cpp:99`
  narrows the integers of a roi to `int` before it tests their range;
- `docs/hardware-uvc.md:33-38` says that enumeration leaves the vendor and product ids
  empty; `uvc_backend.cpp:1181-1182` parses both from the symbolic link.

Bounds, and why they are enough. Two jobs fill the save worker (one executes, one is
queued); the third is refused or follows a finished one and the fourth can meet marks
left by any of them. Four captures of two sizes put every file before, at and after
the quota and allow publications during two runs. Two inspections let the second meet
what the first has left in the worker. Three epochs and three callers let a caller
sleep through a whole epoch while the others stop and start. Six commands are an
enumeration, an opening and a failing capture with its reconnect and recapture, with
one more for a second inspection; two reads are one that was given up and one that
its late answer could be taken for, on the same stream or on a new one. Two threads
suffice for the runtime because at most one is past the gate and the others only wait
or reload. In `frame_conversion` dimensions are zero, odd, even and above the
limit, pitches lie below, at and above a row of each format, and the products of the
largest pass `SizeMax`, so each checked operation fails once. In
`inspection` the smallest positive roi that overflows, a JSON integer that narrows to an
accepted one and templates that fit in no, one or both directions occur. In
`call_path` two files can share an id or have one bad file before or after a good one,
two assets can each be within their bound and exceed the total; one edit is a change
at any one point, and two calls with an edit between them are a reload over changed
files. Every bound is a constant and a guard of the one action that creates a
job, a capture, a command, a read, a context, a version or an edit.
`CHECK_DEADLOCK FALSE` stands where a bounded system is done: the destroyed context,
the exhausted bounds; the other runs check deadlock.

Type invariants are proved (section 5) for every concurrent module: `SaveWorker`,
`PostFrame`, `RetentionSystem`, `CommandWorker`, `UvcBackend` and `Runtime`. The runs
check the properties that say something of the code, not the types.

## 4. Fairness

A thread that can run does run, and calls into the file system, the camera, the
algorithms and the host return: weak fairness on the worker, on the maintenance
thread and on the caller once it is inside a call. Timed waits end. Nothing obliges
the host to call, the camera to answer a read, a deadline to pass before its answer,
or anybody to notify beyond what the code does. The waits for a mutex need no more
than weak fairness, because the holder always releases it and the contenders are two.
Two places are special. The settle loop of an inspection could repeat for ever in
`Runtime`, which does not count its frames: it is left in the end (strong fairness on
its two exits), as `settle_frames` is at most 1000 and the deadline is tested each
time. And the gate is a `std::timed_mutex` without an order: nothing says that a waiter
ever gets it, and `CallsReturn` holds by its timeout alone.

## 5. Proofs

| Module | Theorems |
| --- | --- |
| `ArtifactProofs` | `TypeCorrect`, `AnswersAreTrue`, `TemporariesAreRemoved`, `QueueIsPromoted`, `MarksAreForgotten`: the invariants of `save_worker` for any number of jobs; `Refinement`: `Spec => ImplementsArtifactSave`; three facts about every request of the decision table; `PathsAreTrue`, `SavesAreAccepted`, `RequiredIsPublished`, `OptionalKeeps`, `PromiseIsKept`, `PostFrameTypes` for any number of inspections |
| `RetentionProofs` | `RetentionTypes`, `QuotaIsEstablished`, `DeletesOnlyAsNeeded` for any captures, sizes, quota and trigger |
| `CommandWorkerProofs` | `WorkerTypes`, `SettledBetweenCalls`, `OneTeardownEach`, `SubmitIsTruthful`, `RefusedNeverRuns` for any number of callers, commands and starts |
| `UvcBackendProofs` | `BackendTypes`, `BackendUsesWorker`, `RecaptureFinds`, `StreamSettles`, `LifetimesNest`, `FramesAreFresh`, `ReadsAlternate` for any number of inspections, commands and reads |
| `RuntimeProofs` | `TypeCorrect`, `OneCamera`, `OneInspection`, `OneSnapshot` for any number of threads, contexts and recipe versions |
| `FrameConvertProofs` | `ReadsStayInsideHolds`, `FrameIsFilledHolds`, `RefusesOnlyTheUnfitHolds`, `LockIsReturnedHolds` for any width of `std::size_t`, any geometry, pitch and range |
| `InspectionProofs` | `RecipeNeverToBlameHolds`, `VerdictOfTheWindowHolds` for any width of `int`, any recipe and frame |
| `CallPathProofs` | `OutputsAreOfThisCallHolds`, `MalformedUntouchedHolds`, `NoCameraIsGuessedHolds`, `QuietLoadIsExactHolds` for any files and any number of edits |

Every invariant, every action property and the refinement that a passing run checks is a
theorem here; the runs show them on an instance, the proofs for every value of the
constants.

Assumptions: the bounds of the modules are natural numbers, `MaxVersions` not zero; no
thread and no caller is called "free", the value of an untaken lock; the sizes, quota and
trigger of `Retention` are natural numbers, which `enforce_retention` and its
configuration have as unsigned integers. Removals may fail or not. `FrameAssumption`
bounds addresses, lengths and pitches by what their types hold, `InspectionAssumption` the
bound of a roi by the largest int. `UvcBackend` has the context as the one caller of
`CommandWorker`. Of `FilesAssumption` the proof of `QuietLoadIsExact` uses that assets are
finitely many (a recipe names at most `k_max_asset_count` of them, `recipe.cpp:24`), that
sizes are natural numbers, not only zero, and that files are numbered; the other theorems
on the C API use no assumption on the files.

The argument for the save worker. `PublicationAgreement` is not inductive: whether an
answer "cancelled" stays true depends on what the worker will still do with the job.
`Inv` strengthens it by the named parts it is a conjunction of:
`LockInv`, each mutex is held exactly in its critical sections; `SlotInv`, identifiers
are in order and the worker's step fits the executing slot; `FileInv`, temporary, final
file and outcome agree with the step of `execute`, and a job at its commit carries no
mark; `DecisionInv`, the decided outcome is carried from `execute` to `worker_loop`
unless the client took it in between; `OutcomeInv`, outcomes kept or told belong to
settled jobs and are true; `WaitInv`, a waiter waits for the newest job, and gives up
only over a job that is not settled. A waiter that gives up then finds the outcome, or
leaves a mark the worker reads before it commits. The step lemma has one step per
action and one per part the action can disturb. The refinement uses the same
invariant. Each step of `PostFrame` is shown to be a step or a
stutter of `SaveWorker`, so `Inv` and the refinement carry over (`WorkerInvariance`,
`PromiseIsKept`); `PostInv` adds what each phase of an
inspection says of its job, that only the awaited job can be queued, and that all
earlier jobs are answered and, if published, reported.

The argument for retention. `RetentionInv` adds `ListingInv` to the types and the quota:
what a scan or a run still lists is on disk, because nobody else deletes, and what it
calls overdue is older than `max_age`, because captures do not grow younger. A list of
which nothing is doomed is within the quota (`NothingDoomed`), and a list that exceeds it
is part of what is on disk and no older than the file to go, so those exceed it too
(`DeletesOnlyAsNeeded`). Both need facts on the sum of a finite set of sizes: that it exists, is a
number, and grows with the set. The sum is a fold, and the library's induction theorems
cannot be used; each fact is proved by its smallest counterexample instead, with the
well-foundedness of the strict subsets of a finite set (`FS_StrictSubsetOrderingWellFounded`).

The argument for the command worker. `LifecycleSettled` says nothing of the middle of a
call. `LifecycleInv` does: one caller holds the lifecycle lock in its critical sections
(`HeldInv`), what the place of the worker says of the state (`StateInv`), and what the
holder knows of the thread, above all that a worker whose startup was given up is told
to stop before its state is looked at again (`HolderInv`). `CommandInv` is about the queue.
The sequence numbers start anew with each thread, so the properties need commands in an
order that does not: a command is the number of the commands before the last spawn plus its
sequence (`Numbered`, `NumberInv`), the queue holds an interval of them (`OrderInv`), those
completed are those executed (`ExecutedInv`), and what can still be taken was refused to
nobody (`RefusedInv`). The last needs its hypothesis that the worker is not told to stop:
a command put in the queue after that is called unavailable and stays there until the
next spawn clears the queue.

The argument for the UVC backend. Every step is a step or a stutter of `CommandWorker`
(`BackendRefinesStep`), which gives `CWInv`. `BackendInv` adds the place of the
runtime's call and of the worker (`StageInv`, `RequestInv`), which step of a command has
which objects (`LifetimeInv`, `StreamInv`), and the events. That a frame is fresh is a
statement on counters; it holds because a stream has one event under way at most, by
`QuietInv` none where a read may be issued and by `AwaitedInv` one in the wait, and it is of
the last read. An event of an older stream is told by its generation, which is never
used again (`KnownStreams`). `RecaptureInv` is the ordering argument: the capture is the
command after the reconnect, and commands of earlier calls that timed out in the queue
run before both.

The argument for the runtime. `OneCameraSession` and `ExclusiveCycle` say nothing of
locks and are not inductive: `RuntimeInv` adds that the lifecycle mutex and the gate
are held exactly at certain places of a thread (`MutexInv`, `GateInv`), that a context
is only made while the slot is empty (`SlotInv`), and what the locals of a call hold
at each place (`LocalsInv`). A reload takes neither lock; what keeps an inspection on
one snapshot is that the pointer was copied into its locals.

The argument for the frame conversion. `FrameInv` carries what the copy loop rests on:
what was measured is the reported range seen from the lowest row (`MeasureInv`), a copy
only runs after the checks (`CheckInv`), nothing was read before (`SourceInv`), and what
is checked is what was reported (`SizedInv`). The work is in the lemmas on one row:
`RowFromLowest` relates the address of row r under a pitch of either sign to the lowest
address, `Monotone` bounds it by that of the last row, `StraightRow`, `TopDownRow` and
`ChromaRowEnds` put it inside the accessible extent. `WholeDecodes` is the converse, by
format: a sample that lies whole in its range passes every check, because none of the
checked operations overflows below the end of the range. For `FrameIsFilled` the set of
written bytes is given in closed form: `FillInv` says that after r rows it is `Filled(sample, r)`,
an initial segment of the frame, or of both planes of it in the rows of interleaved
chroma, and `RowFills` takes it from a row to the next by cases of the format.

The argument for the algorithms. `InspectionInv` adds to the properties that the
prepared object has what the prepare step tested (`PreparedInv`) and that a tested
window ends in the frame on each axis whose end is an int (`WindowInv`); the
hypothesis "whose end is an int" cannot be dropped, which is what `template_roi` shows.

The argument for the loader. `QuietInv` gives each place of `RecipeCatalog::load`, while
nobody edits, what it has established of the files: what is done was sound and is what is
loaded, with unique ids (`Walked`), the recipe at hand and the bytes of its assets so far are those on
disk (`Underway`), the size just read is that of the asset to read next (`Measured`), and
the answer is that of the whole directory (`Judged`). The total of the assets is
compared step by step by the loader and at once by the definition; that the first passes when the
second does needs that a partial sum is no larger (`BytesGrow`). The lemmas on sums are stated
for the assets of a disk here and for captures in `RetentionProofs`, since a lemma
cannot take the summed function's operator as a parameter.

The argument for the C API. `PlaceInv` says which checks are behind a call at each
place, `UntouchedInv` that nothing is written before the return; every return is then
one of three lemmas (`FailKeepsInv`, `OutcomeKeepsInv`, `ReturnKeepsInv`). For the
camera, `PathIdentifiesDevice` says that links are unique among devices, so the second
enumeration can only match the descriptor that the first one chose. The links of the
four devices are data of the model: that Media Foundation never reports one link twice is
assumed there.

Only model-checked: what must eventually happen, since the prover handles neither fairness nor
ENABLED: `WaitReturns` and `DrainReturns` of the save worker, `QuotaIsRestored` and
`MaintenanceStops` of retention, `LifecycleReturns` of the command worker, `CloseReturns`
of the backend and `CallsReturn` of the runtime. The runs that expect a violation have no
theorem either.

## 6. What is not modelled

- exceptions of the allocator in the worker threads, and failures of thread creation;
- closed contexts in use: the documents ask the host to quiesce its calls before
  `cvf_shutdown`, and the model's host does; `closed_` is therefore never read as true;
- the address of a context: a context is its number and is never reused;
- the wait for a flush in `cancel_pending_read`: its budget is what `remaining()` has
  left after the wait for the read has used it up, so it is always zero;
- the choice of a native stream format before a stream starts, beyond its failure;
- the values of pixels and scores, encodings, the text of JSON, the wording of logs and
  errors;
- the values of `warning_flags` and `elapsed_ms` outside `PostFrame`; `CallPath` has which
  call wrote them;
- diagnostics: two sinks whose failure raises a flag;
- the test backends, which replay a script without threads, and the UTF-8 helpers and
  tables of `src/core`, which work character by character or hold no decision;
- the registry's bound on the size of a result, which the two algorithms cannot reach;
- build, packaging, examples.

## 7. Plan

Done: `SaveWorker`, `ArtifactSave`, `Retention`, `Finalization`, `PostFrame`,
`CommandWorker`, `UvcBackend`, `Runtime`, `FrameConvert`, `Inspection`, `CameraIdentity`,
`RecipeFiles`, `CallPath`, in that order, with the proofs of section 5.

Next, proofs: the two properties of `RetentionSystem` restated inside `PostFrame`, whose jobs skip
numbers where a save fails; an abstract specification of the command worker (a
submission's fate, as `ArtifactSave` has it for the save) and its refinement; the step
relations that the liveness properties rest on, as far as they are action properties.

Next, models: the negotiation of a native format (`select_format`), which ranks the types
a device offers; the host's log callback, with the locks held around it; contexts at
reused addresses.
