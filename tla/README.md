# A verification development of pixiegrabber

pixiegrabber archives Pixieset galleries: it reads the Collections of a
dashboard, plans what to rename and what to download, asks the user, applies the
plan to a directory or to an S3 bucket, and records the result in one
`collection.json` per Collection. These TLA+ modules model that program from its
Go source (`src/internal/...`, called `internal/...` below), TLC checks them on
small instances and TLAPS proves the main results for every instance.

`PROJECT.json` holds, for machines, what this file says for readers: the
components, the runs, a mutant for every checked property, the source lines of
every definition, the findings, the hazards and the theorems.

## The system

| Component | State it keeps | Operations | Works with |
|---|---|---|---|
| `internal/manifest` | `collection.json`: presence, download state, checksum and failure of Sets, References and Placements, and the run state | `Validate`, `Read`, `Write` | read by app and planner, written by app |
| `internal/archive` (planner) | none | `ClassifyVideos`, `Build` (classify, aggregate, merge), `MarkSourceMissing` | reads manifests and the output root, gives app a plan |
| `internal/app` | the runs' phases; the signal context | `Run`: lock, discover, plan, prompt, `executePlan` per Collection, outcome | calls everything else |
| `internal/download` | jobs, staged files, results, progress counters | `Download` (worker pool), `process`, `fetchVariant`, `installPlacement` | HTTP, throttle, store |
| `internal/outputfs` | a local output root, its lock file | `Open`, `Lock`, `AtomicReplace`, `SameFile` | store |
| `internal/store` | an S3 bucket, its lock object | `Put`, `Open`, `Remove`, `SameFile`, `Lock`/`Release` | planner, app, downloader |
| `internal/pixieset` | none | pagination, requests with retries, video normalization | app |
| `internal/throttle` | a rate limiter of one token, and jitter | `Wait` | every HTTP request |
| `internal/runlog` | a buffer, its size, the write error | `Record`, `Start` (periodic flush), `Close` | app, downloader |
| `internal/browsercookies` | none | reading profiles, scoring, choosing | main |
| `internal/paths`, `internal/privatefs` | none | portable names; private files and directories | planner, outputfs, runlog |

How they interact. `app.Run` holds the store's lock from before discovery until
it returns. Discovery reads every Collection; `ClassifyVideos` may stop the run;
`Build` compares each Collection with its manifest and with the files present.
After the prompt, `executePlan` works on one Collection after the other: all its
renames, then its downloads through the worker pool, then `applyResults` and one
`manifest.Write`. `Ctrl-C` cancels a context that only the downloader looks at
once the plan is shown.

What is hard here, and what makes each part correct:

- *The archive outlives the run.* Files and manifest are changed by separate
  steps, so a kill or an error anywhere leaves a combination that the next run
  has to understand: nothing the user has may be lost, a record must not vouch
  for a file that is not there, and a run must be resumable.
- *The plan is computed from a snapshot.* The source, the files and the manifest
  can each have moved on by the time a step acts.
- *Long sequences of legal runs.* Records are never deleted; they go missing and
  are revived, under other names and in other Sets. They must stay valid, or the
  archive locks itself out.
- *Concurrent downloads* with retries, fallbacks and interruption, whose results
  must say exactly what was stored.
- *Two processes*, on a local lock file or on an S3 object that expires.

The list of hazards in `PROJECT.json`, each at its source line, is what the
properties were chosen from.

## Modules

| Module | Models | Form |
|---|---|---|
| `Manifest` | `internal/manifest`: the record, `Validate`, and the planner's `runState` and `manifestNeedsWork` | operators |
| `Planner` | `internal/archive/plan.go` for one Collection: `classify`, `aggregateReferences`, `merge`, `inspectFile`, `ClassifyVideos`, `MarkSourceMissing`, `SameFile` | operators over a view |
| `CollectionRun` | the life of one archived Collection over many runs: `Build`, prompt, `executePlan`, `applyRename`, downloads by their outcome, `applyResults`, `manifest.Write`; kill, interrupt, failures, the user and the source | state machine |
| `CollectionSafety` | its properties, and claims of the documents that the code does not meet | properties |
| `ArchiveContract` | what the owner of an archive is promised: which contents are stored, which the manifest vouches for, and what a run, a kill or the owner may change of either | abstract state machine |
| `MC_Collection` | instances for TLC | model |
| `Downloader` | one call of `internal/download`: dispatcher, worker pool, variants, retries, staging, validation, destinations, progress counts, interrupts | state machine |
| `DownloadContract` | what the executor relies on: each job fails or is staged, each destination of a staged job holds the staged content or fails | abstract state machine |
| `DownloaderSafety`, `MC_Downloader` | properties and refinement of `Downloader`; instances | properties, model |
| `StoreLock` | what taking hold of a store promises: one run at a time, given back by a run that ends | abstract state machine |
| `OutputLock` | the lock of a local output root: `acquireLock`, `Close`, kills, a person who removes the lock file | state machine |
| `OutputFS` | the files under that lock: `AtomicReplace`, `Remove`, `OpenRegular` by several goroutines, `Close` that waits for what writes or opens, kills and loss of power | state machine, extends `OutputLock` |
| `S3Lock` | the lock object of a bucket: look, take over when stale, put, release; clocks that differ, requests that fail | state machine |
| `CookieChoice` | which cookie file and which container hold the strongest evidence of a session | operators |
| `CookieImport` | scan, choice, snapshot and import of a browser session while the browser writes | state machine |
| `Discovery` | pagination and retries of `ListCollections`, while the dashboard changes | actions |
| `RunLog` | `internal/runlog`: the buffer with its limit, periodic and final Put | actions |
| `AppRun` | `app.Run` over all Collections: session, store, listing, plans, prompt, execution, marking of absent Collections, outcome, log, release | state machine over `Discovery` and `RunLog` |
| `AppSafety` | its properties | properties |
| `MC_Resources`, `MC_App` | instances for TLC | model |
| `CollectionProofs` | the type invariant of `CollectionRun`, that no local data is lost and that records have copies | proofs |
| `RecordProofs` | what the record says, what a completed run leaves, and that the runs implement `ArchiveContract` | proofs |
| `DownloaderProofs` | whole images, justified fallbacks, no job skipped, the counts, and that the pool implements `DownloadContract` | proofs |
| `OutputFSProofs`, `S3LockProofs` | mutual exclusion, whole files, no litter, and that both locks implement `StoreLock` | proofs |
| `CookieProofs` | that a jar is one session, that no copy is left, and that the choice is the maximum | proofs |
| `AppProofs` | the listing, the outcome, the log, and that only the holder writes | proofs |
| `ResourceProofs` | that what is proved of the output root, the bucket and the cookies holds of the three side by side, as `MC_Resources` has them | proofs |

How they fit together: `AppRun` is the whole run, in which one Collection is only
"old", "complete", "incomplete" or "missing"; `CollectionRun` is what happens to
that one Collection, over many runs; `Downloader` is what happens in its phase
"downloading". `OutputFS` and `S3Lock` are the store below them, and both are
shown to keep the promise `StoreLock` on which `AppRun` builds (`TakeStore`,
`Release`). `CookieImport` comes before all of it.

### State and actions of CollectionRun

`src` is the Collection at Pixieset, `files` and `saved` the media files and the
manifest in the output root; these survive a run. The rest is the running
process: `pc` its phase, `opts` the flags, `next` the planned manifest,
`renames` and `moving` the renames to make and the one that is copied but not
yet removed, `job`, `digest` and `dest` the downloads, `canceled` the signal
context, `outcome` how the run ended.

| Action | Code |
|---|---|
| `Start(o)` | discovery, `ClassifyVideos`, `Build` or `MarkSourceMissing` (app.go:239-298, plan.go:85-140), with every early return as an `outcome` |
| `Decline`, `Confirm` | the prompt (app.go:306-324); `Confirm` includes the directory rename, which always fails (see Findings) |
| `RenamePut`, `RenameRemove`, `RenameError`, `RenamesDone` | `applyRename` as the copy and the removal it is (app.go:533-550), and the loop around it |
| `Fetch`, `FetchFails` | `Downloader.process` up to the staged file, once per Reference |
| `Install`, `InstallFails` | `installPlacement` per destination |
| `DownloadsDone`, `Save`, `SaveFails` | `applyResults`, `recomputeReferenceState`, `manifest.Write`, and the final check of `Run` |
| `Exit`, `Crash`, `Cancel` | the end of the process, a kill at any step, `Ctrl-C` |
| `UserDeletes`, `UserDamages`, `SourceChanges` | the environment |

`CollectionSafety` maps this state to `ArchiveContract`: `copies` are the contents
a Placement has at its recorded, planned and half-renamed path (`Local`), `claims`
the checksums of the Placements that the manifest calls complete, `touched` the
destinations that were installed or failed, and `phase` is "working" from the
confirmation to the end of the run. `Begin` is `Confirm`, `Download` is `Install` or
`InstallFails`, `Record` is a write of the manifest, `OwnerTouches` is
`UserDeletes` or `UserDamages`, and a step that ends a run without writing is
`Stop`; planning, all steps of renames, and every fetch are stutters.

### State and actions of Downloader

`dpc` and `sent` are the dispatcher's place in its loop; `wpc`, `cur`, `variant`,
`attempt`, `stage` and `result` the local variables of each worker, forgotten
when it is done with a job; `results` the slice that the call returns; `stored`
what reached the store; `progress`, `note`, `counts` and `announced` the counters
of `progress.go` and what was reported of them. `gone` is a history variable.

`Begin`, `Dispatch`, `Close`, `Return` are the loop of `Download`, with its
`select` between a waiting worker and the canceled context. A worker goes through
`Process`, then `Send` and one answer for each request: `Gone` (404, 410),
`Refused` (anything that fails the job at once), `TimedOut` (the host was not
reached in time, which the code takes for a canceled request and does not retry,
see Findings), `Transient` (anything retried), or `Receive`, which writes what
arrived of a body to the staging file and either validates it or retries; `Wake`
ends a backoff, `Interrupted` a request whose context is canceled. `Install` and `InstallFails` handle one destination each,
`Done` counts under the mutex, `Report` reports after releasing it.

`CollectionRun` makes the steps of `DownloadContract` in its phase "downloading";
`ImplementsContract` shows that the pool makes no others.

### State and actions of the store

`OutputLock`: `opc` is the place of each process in `Open` and `Close`,
`lockFile` the inode that has the lock file's name, `handle` the inode a process
opened, `flock` who locked an inode. `Lstat`, `CreateExclusive`, `CreateLost`,
`CheckCreated`, `OpenLock`, `TryLock`, `Hold`/`Refuse` are the system calls of
`acquireLock` in their order; `Hold` looks at the name once more. `Close`,
`CloseFails`, `Kill` and `RemoveLockFile` are the rest.

`OutputFS` adds one file of the archive (`target`), what may stand in its place
after a loss of power (`old`), temporary siblings (`temps`) and the operation of
every goroutine (`op`). `AtomicReplace` is `CreateSibling`, `Write`, `Sync`,
`VerifyReplaceTarget`, `RenameOver`, `SyncDirectory`, and `ReplaceFails` with
`CleanUp` from each of them. A process can only close when it is quiet
(`CloseStore`): no operation holds the lock shared. A replacement and a removal hold
it until they are done, a reader only until its file is open (`UsesRoot`). `LosePower` ends every process and tears what was not synced.

`S3Lock`: `object` is the lock object with its owner and age; `spc` is where each
run is in `Lock` and its release, one step per request: `StatFree`, `StatLocked`
(which takes a stale object for removable), `RemoveStale`, `Put`, `Release`.
`RequestFails` may have taken effect. `Tick` is time.

### State and actions of CookieImport

A cookie file is an SQLite database, `mainFile` and `wal`; the browser's steps are
`Commit` and `Checkpoint`. The importer collects candidates (`Collect`), scans
them in order (`LiveRead`, or a copy where the live read shows nothing), chooses
(`Choose`), copies the chosen file (`CopyMain`, `CopyLog`, `Recover`, and
`CopyMainAlone` when the pair does not fit), and imports one container
(`Import`); `RemoveCopy` and `LeaveCopy` are the removal of the copy and its
failure.

### State and actions of AppRun

`step` is where the run is. `LoadSession` and `TakeStore` may meet an error, an
interrupt, or another run that holds the store (`holder`). `ListPage`,
`AskAgain` and `ListFails` read one page of the dashboard, while
`DashboardChanges` publishes and withdraws Collections. `PlanCollection` plans
the next one; `StopAtVideo` ends the run with a diagnostic; `PlanAbsent` finds
the archived Collections that were not listed and leads to the prompt, or past
it with `--yes`. `Download`, `RenameFails` and `WriteManifest` execute the plans
in turn, `MarkAbsent` and `WriteFails` the absent ones. `Judge` picks the
outcome, `EndLog` and `Release` are the deferred calls. Every action records its
events through `RunLog`. `Interrupt` may come at any step; the code notices it
where it looks at the context.

### What is abstracted

- A path is the pair (Set name, Reference name) it is built from; the directory
  is the Collection name. The IDs in real file names keep different Placements
  apart, so paths of two Placements never meet; what remains is a Placement
  meeting its own older file, possibly in another letter case (`CaseFold`,
  `CaseInsensitive`). A directory is in use when it holds a file.
- A content stands for its bytes and for its SHA-256.
- Every known ID has an entry in the manifest, with presence "none" when the
  real manifest does not list it; uniqueness of IDs and paths, which `Validate`
  checks, is then a matter of shape. Dates, sizes and texts are left out.
- Discovery is one step. A source change while it runs is one just before or
  just after it; only the content of a media file is read later, at its fetch,
  and it may change until then.
- The destinations of one Reference are installed in any order (the code uses
  the order of Sets). A failed Put or Remove may or may not have taken effect.
- The legacy values "running" and "in progress" of the manifest are never
  written by this program and are left out. `preserveCollection`, for a
  Collection whose recorded directory is gone, is never reached: the manifest
  that records it lives in that directory.
- Media are listed per Set, so a source shows no medium in a Set that it does not
  show (`SourceAssumption`).
- `OutputFS` follows one path, in a directory that exists; inodes and temporary
  names are model values. A directory that was not synced may show the entry it
  had before; a file that was not synced is torn.
- Ages of a lock object stop one tick after `StaleAfter`, since no older age is
  told apart. A client's clock may be ahead by `MaxAhead`.
- Cookies are compared by what the scores look at: kind, container, partition.
- In `AppRun` a page of the dashboard is one answer; a Collection's `ListSets` and
  `GetSet` belong to `PlanCollection`. `Progress` stands for every event that the
  log may drop. A Collection's execution is its outcome: complete, or incomplete
  because something failed or the run was interrupted.
- In `Downloader` a file is a sequence of blocks, named by the content they are
  part of, and its checksum is the file itself. `Sniff` blocks are read before
  any is written, as `maxSniffBytes` are. Request and answer are separate steps;
  what happens in between is private to the worker, but for an interrupt. Delays
  have no length. Checks of URLs, types and sizes only ever refuse a response,
  which `Refused` may do to any.

## Properties and runs

| Run | Instance | Checks |
|---|---|---|
| `collection_local` | a video in up to 2 Sets on a local root; 2 names, 2 contents; all source changes; all failures and kills; files deleted and damaged between runs; normal, synchronizing and verifying runs with videos; at most 3 events | `TypeOK`, `PlanIsValid`, `CompletedMeansStored`, `VerifiedMeansIntact`, `SyncMirrorsSource`, `CompletedIsSettled`, `NoLocalLoss`, `RecordsRetained`, `NormalRunKeepsTrusted`, `ImplementsArchive` |
| `collection_s3` | 2 images in one Set in a bucket; kills, interrupts, failed installs; files damaged between runs and at the prompt; at most 2 events | `SyncMirrorsSource`, `RecordedHasCopy`, `NoLocalLoss` |
| `collection_live` | an image in up to 2 Sets, fairness, interrupts and failures, deleted files; at most 3 events | `SyncConverges`, `NormalRunsResume` |
| `downloader` | 2 workers, an image of two usable variants for two destinations and a video with an invalid second variant; contents of 3 blocks, 2 of them sniffed; 2 attempts; interrupt, staging and store failures; fairness | `TypeOK`, `ImagesAreWhole`, `FallbackJustified`, `NoJobSkipped`, `FinalCountReported`, `ImplementsContract`, `Returns`, `InterruptReturns` |
| `resources` | in turn: a local output root with 2 processes, 2 goroutines, 2 inodes, one removal of the lock file and one loss of power; a bucket with 3 runs and 2 faults; 3 cookie files of 2 profiles, with a browser that writes | `TypeOK`, `MutualExclusion`, `OneRunWrites`, `FileIsWhole`, `NoLitter`, `LocalLockKept`, `HolderIsVisible`, `BucketLockKept`, `JarIsOneSession`, `SessionLeavesNoCopy`, `StrongestProfileWins` |
| `app_run` | up to 3 Collections, one per page, 2 of them archived; one change of the dashboard, one error, one interrupt; 2 attempts; a log of 5 lines; fairness | `AppTypeOK`, `ListingIsTrue`, `OutcomeIsTrue`, `ReasonSurvives`, `WritesUnderLock`, `RunEnds` |
| `truncated_video`, `dial_timeout` | one video | violated, see Findings |
| `interrupt_exit` | one new Collection, no errors, one interrupt | violated, see Findings |
| `title_rename`, `crash_resume`, `case_rename` | the smallest instance of each finding | violated, see Findings |

The properties, in words:

- `PlanIsValid`: no sequence of runs, changes and faults makes a manifest that
  `Validate` refuses, so an archive is never locked out by its own record.
- `CompletedMeansStored`, `VerifiedMeansIntact`: what a run that reports
  "completed" promises of the files, whatever happened before it. With
  `--verify` the checksums agree too, even where an earlier run was killed
  between replacing a file and recording it (without `--verify` they need not).
- `SyncMirrorsSource`: a completed `--sync-existing` run leaves the source's
  structure, names and downloaded contents.
- `CompletedIsSettled`: the next normal run finds nothing to do.
- `NoLocalLoss`: while a run works, the content of a Placement goes away only by
  being replaced with the download of that same Placement.
- `RecordedHasCopy`: a complete record always has a file, at its path or at the
  one a killed rename was moving it to.
- `RecordsRetained`: a record, once written, is never forgotten.
- `NormalRunKeepsTrusted`: a normal run never downloads a file it can trust.
- `ImplementsArchive`: the runs refine `ArchiveContract`. A rename, a kill or an
  error in the middle of a run changes nothing of what is stored of any Placement;
  a run writes the manifest once, at its end; and what the manifest then says of a
  Placement is a content that is stored of it, if the run tried to store it, and
  what the manifest said before, if it did not.
- `SyncConverges`, `NormalRunsResume`: once faults and source are quiet, repeated
  runs reach and keep the source's state, or resume what failed.

- `ImagesAreWhole`: an image whose checksum is recorded is whole, whatever broken
  responses were staged before it.
- `FallbackJustified`: a smaller variant, or "source_not_found", only after every
  larger one was answered with 404 or 410.
- `NoJobSkipped`: without an interrupt a call returns with each job either failed,
  and its failure reported, or fetched and each of its destinations tried. That a
  failed job may be called "canceled" all the same is the finding `dial_timeout`.
- `FinalCountReported`: when the call returns, all failures of jobs that a worker
  took and the final counts were reported.
- `ImplementsContract`: `Downloader` refines `DownloadContract`; in particular
  what is stored is what the checksum was computed of.
- `Returns`, `InterruptReturns`: if the hosts answer, the call returns; after an
  interrupt it returns even if they do not.

- `MutualExclusion`, `OneRunWrites`: two runs never own one output root, and
  operations that write its files, or look for one to read, belong to one run, also
  while `Close` waits for them; a file that was opened may be read after that. Only a person who removes the lock file while it is held can undo this.
- `FileIsWhole`: a file of the archive, and what a reader of it gets, is the whole
  of one write, whatever is killed or loses power. `NoLitter`: a temporary sibling
  belongs to an operation that runs, or to a kill, a loss of power or a failed
  removal.
- `LocalLockKept`, `BucketLockKept`: both locks implement `StoreLock`. The bucket's
  does until two runs are between look and put at once, or a holder is taken for
  stale; each says so by what it gives to `void`.
- `HolderIsVisible`: until then the lock object in the bucket is the holder's own.
- `JarIsOneSession`: the cookie jar is filled from one container of one state of one
  cookie file, although main file and log are copied one after the other.
- `SessionLeavesNoCopy`: a session is returned only if the copy that the import made
  of the cookies is gone. Copies that the scan made may stay: it ignores errors of
  their removal (source.go:647, 663).
- `StrongestProfileWins`: the choice, made in stages and over maps without order,
  is the maximum of one ranking of what the main files hold, when the browser
  writes nothing. The write-ahead logs are empty at first; a browser that left one
  it did not fold counts as one that wrote, of which `JarIsOneSession` speaks.
- `ListingIsTrue`: however the dashboard changes between two pages, no Collection
  is listed twice, and one is missed, or falsely marked as missing, only when
  another was withdrawn meanwhile.
- `OutcomeIsTrue`: what the log says, what `Run` returns and what is in the store
  agree, at whatever step the run fails or is interrupted. Of an interrupted run
  whose downloads are incomplete it says what is in the store, and not which
  outcome and exit code it should have: that is the finding `interrupt_exit`.
- `ReasonSurvives`: the saved log ends with the outcome and holds what explains it,
  although it has a size limit and earlier Puts of it failed.
- `WritesUnderLock`: a run that is refused the store does not replace the log, nor
  anything else, of the run that holds it.
- `RunEnds`: a run reaches its question or its end.

### Bounds, and why they are enough

`MaxEvents` bounds source changes and user actions together; everything a run
does, including faults and kills, is unbounded, and so is the number of runs. Two
names and two contents suffice for each name and content to differ from the
recorded one, and to change back; three events suffice for a change, a second
change while the first is half applied, and a lost file. Two Sets let one
Reference's Placements differ in state; two References in a bucket let renames
and downloads of different jobs interleave, and they are symmetric there. What
couples References beyond this is only the state of the whole Collection, which
two values of a record already determine.

Two workers and two jobs of different kinds let answers, retries, interrupts and
reports of two jobs interleave, and one worker do both jobs in turn; two attempts
and two usable variants let a dirty staging file be met by a retry and by a
fallback.

Of processes, goroutines, inodes and temporary names two are enough for every
conflict there is about one file. Three clients let a third run come between
the take-over and the return of the first; `StaleAfter = 2` with a clock that is
one ahead tells "old", "just not stale" and "stale" apart. The cookie instances
split what would be too large at once: choice among files that do not change,
one file that changes twice while one step of the import fails, and two files of
which one changes once.

Three Collections on three pages let the dashboard shift across a page that was
read, let one plan succeed before one that fails, and leave one absent. Five
lines are fewer than the events of such a run, so the log is truncated.

### Fairness

`FairSpec` is weak fairness of `RunStep`: a run that has begun goes on, since no
step of the program waits for anything but the network, the disk and the prompt;
and the user starts the next run and says yes. Nothing is assumed of faults: the
liveness properties are about behaviours that from some point on consist of
runs only (`OnlyRuns`), because a source that changes for ever, or a disk that
fails for ever, rightly keeps the archive from settling.

For `Downloader`, fairness is of the program's own steps only. Its HTTP client has
no timeout of its own, and the default transport bounds only how long it takes to
reach a host, so nothing says that a host answers: `Returns` states it as a
hypothesis (`HostsAnswer`), and `InterruptReturns` does without. The store is
assumed to answer, with success or an error.

`AppSpec` is weak fairness of `Program`, the run's own steps. It includes that
requests of the listing are answered and that the downloader returns, which
`Returns` states with its hypothesis. The prompt waits for a person, of whom
nothing is assumed: `RunEnds` leads to the question or to the end. The locks, the
output root and the cookie import have safety properties only.

## Proofs

TLAPS checks the following for every number of References, Sets, Collections,
processes and jobs, every source and every choice of faults. `PROJECT.json` lists
the theorems; each module of proofs begins with its inductive invariant, proves
it once per action, and derives the properties from it.

**The archive** (`CollectionProofs`, `RecordProofs`).

- `TypeCorrect`: `Spec => []TypeOK`.
- `NoLocalDataIsLost`: `NamesApart => (Spec => NoLocalLoss)`.
- `RecordsHaveCopies`: `NamesApart => (Spec => []RecordedHasCopy)`.
- `RecordsStayValid`: `Spec => []PlanIsValid`.
- `RecordsAreRetained`: `Spec => RecordsRetained`.
- `SyncRunsMirror`: `Spec => []SyncMirrorsSource`.
- `CompletedRunsStore`, `VerifiedRunsAreIntact`: `NamesApart` and
  `"at prompt" \notin Tampering` imply `Spec => []CompletedMeansStored` and
  `Spec => []VerifiedMeansIntact`.
- `CompletedRunsSettle`: with `VideosKept` as well, `Spec => []CompletedIsSettled`.
- `TrustedFilesStay`: `Spec => NormalRunKeepsTrusted`.
- `ArchiveKeepsContract`: `NamesApart => (Spec => ImplementsArchive)`.

`NamesApart` says that different names never lead to the same file: the letter
case folding is injective, or the root is a case-sensitive filesystem. It is
exactly what the finding `case_rename` violates, so the theorem and the
counterexample together say where the promise ends.

The type invariant is not inductive: `Copied(p)` is only a file if the file it
copies is there. `IInv` of `CollectionProofs` adds what the executor relies on
while it works: a Placement being moved still has its old file, moves and
downloads happen only in their phases and only for planned Placements, a
Placement whose directory stays has its recorded path, and a staged download has
a content. `TypeCorrect` follows from `IInv`. For `NoLocalLoss` one must know
that a rename's target holds nothing but that Placement's own content: this is
`CopyInv` of `CollectionProofs` (free targets before the copy, both copies before
the removal), which planning establishes because `PlacementExists` refuses
anything else. `RecordedHasCopy` needs one more part, `RecordInv`: a Placement
recorded or planned as complete has a local copy throughout the run.
`PlanIsValid` is about a refusal that never happens, so its invariant, `ValidInv`,
says that the saved and the planned manifest satisfy `Valid`. That `merge` and
`applyResults` preserve `Valid` is the longest argument: the states of
References, Sets and the Collection are recomputed from the Placements, so the
rule for each level follows from the level below. `RetainInv` says that the plan
in hand lists whatever the saved manifest does.

What a run leaves when it ends is decided when it plans, and the other four
invariants carry that from the plan to the end.

- `PlanInv`: the plan of a synchronizing run mirrors the source (`MirrorPlanned`),
  which changes under the run in the content of media only; what is not
  downloaded is complete as planned (`KeptComplete`); a destination is installed
  from a staged download, whose content it then holds (`Served`), and what is left
  unserved belongs to a download that failed (`Settled`).
- `KeptInv`: a Placement that is not downloaded has the file that planning looked
  at (`KeptHere`), at its old path while its rename waits, at its new one after.
  The steps of other Placements go to other files, and `NamesApart` keeps the second
  half of a rename from removing what the first half wrote. A person who deletes a
  file while the question is shown is not noticed, which is why the theorems
  exclude it (`"at prompt"`); the run `collection_s3` has damage at that moment,
  where the weaker properties it checks still hold.
- `SettledInv`: the plan lists what the source shows where its names put it
  (`Follows`), or it leaves a healthy Collection without videos alone
  (`Untouched`), and the results change neither. With complete and intact files
  (`KeptInv`) and a valid record (`ValidInv`) the next plan is empty. `VideosKept`
  says that no later run asks for fewer videos than an earlier one; without it the
  property is false, because a run without `--videos` refuses what one with it
  completed.
- `TrustInv`: what a normal run queued was not complete in the record, or its file
  was not the recorded one (`QueuedUntrusted`), and nothing before its download can
  turn it into the recorded one: the steps of other Placements write other files.

`ArchiveKeepsContract` needs all of these but `RecordInv`, `KeptInv` and `SettledInv`
(`ArchiveInv`). A rename is a stutter because of `CopyInv`: what `Local` reads at the
two paths together is the same before the copy, after it, and after the removal
(`RenameKeepsContents`). An install adds one content and may remove one other
(`InstallDownloads`), since no other Placement has a file at that path
(`FileChange`). That a manifest may be written rests on `ValidInv` and `RetainInv`,
and on one more part, `ClaimsPlanned`: while a run works, a Placement that its plan
counts as complete has the same checksum in the manifest, so that a run which
leaves a Placement alone cannot come to vouch for something else (`SaveRecords`).

**The downloads** (`DownloaderProofs`).

- `DownloadTypesKept`, `ImagesStayWhole`, `FallbacksAreJustified`,
  `EveryJobIsSettled`: `DInv` relates each worker's local variables to its job,
  the dispatcher's position to the jobs that were taken, and every result to what
  was fetched and stored. That a failed job was reported needs `CountInv` below.
- `DownloadsKeepContract`: `Downloader` implements `DownloadContract`. The mapping
  takes a job's state from the worker that has it, as long as it has it, and from
  `results` afterwards. `TakeInv` is what that needs: a job is with one worker at
  most, a job that nobody took yet has the result it began with, a worker that
  reports has stored its result, and it installs only what it took the checksum
  of. Each action is then one step of the contract or a stutter.
- `FinalCountsReported`: the counts grow under the mutex, but are reported after
  it is released, so reports overtake each other. `CountInv` says that the counts are
  those of the finished jobs, that a failed one was reported or its worker is
  about to, and that the latest counts were reported, are about to be, or are
  noticed by `finish`; when the call returns no worker is about to do anything.

**The store** (`OutputFSProofs`, `S3LockProofs`).

- `LocalRootIsExclusive`, `LocalRootKeepsPromise`, `OutputRootKeepsPromise`:
  `LockInv` adds to the types that an owner has the flock of the inode it opened,
  and that this inode has the name unless the file was removed.
- `OneRunAtATime`, `FilesStayWhole`, `NoSiblingIsForgotten`: `FSInv` adds that
  operations belong to a process with the lock, that a sibling's content is whole
  and synced before it is renamed, and that every sibling is accounted for.
- `HoldersAreVisible`, `BucketKeepsPromise`: `S3Inv` adds that at most one run is
  between look and put and that the holder's object is neither removed nor
  about to be, until `void`.

`LocalLockKept` and `BucketLockKept` are refinements: every step of the detailed
lock maps to an acquisition, a release, a break or a stutter of `StoreLock`.

**The cookies** (`CookieProofs`).

- `CookieTypesKept`, `TheJarIsOneSession`, `NoCopyIsLeft`: `CookieInv` says what the
  variables of the scan and of the import hold at each step, and that whatever was
  copied of the chosen file, the main file and then its log, was once the file's
  own state; the jar is filled from a copy that `Recover` found to fit.
- `BestIsOne`: the loop of `candidateGroups.best` ends with the same group in
  whatever order the map is visited. It is a recursive function, and no theorem on
  induction over data can be used; `KeptIsLoop` and `KeptIsBest` take instead the
  least position at which the claim would fail (`LeastNumber`).
- `TheStrongestProfileWins`: `StillInv` follows an import that the browser and
  failures leave alone, and `BestIsOne` makes the choice in stages the maximum of
  the one ranking.

**The run** (`AppProofs`).

- `AppTypesKept`, `TheListingIsTrue`, `TheOutcomeIsTrue`, `OnlyTheHolderWrites`:
  `AppInv`. Its listing part is the interesting one: what was there at first is
  listed, or unread, or was withdrawn, however positions shift (lemmas `Inserted`,
  `Removed` and `PageItems` say what a change does to the pages).
- `TheReasonSurvives`: `RecordedOne` and `RecordedTwo` say what the log holds after
  one event or two, where recording is a fold, and `LinesGrow` that no line is
  ever taken back. `LogInv` says that what explains the outcome is in the log before `Judge`
  looks (`Explained`): such an event is written whatever the limit, and the last
  Put has the whole log.

The assumptions on the constants are named in the modules that declare them
(`EnvironmentAssumption`, `DataAssumption` and `SourceAssumption` of
`CollectionRun`, `DownloaderAssumption` and so on) and TLC evaluates them in every
run of those modules.

**Side by side** (`ResourceProofs`).

- `PartsAreIndependent`: the output root, the bucket and the cookies of
  `MC_Resources` each go on as their own specification says.
- `ResourcesTypeCorrect`, `ResourcesAreSafe`: so everything proved of one of them
  holds there, which is all that the run `resources` checks.

Only model-checked: `SyncConverges`, `NormalRunsResume`, `Returns`, `InterruptReturns`
and `RunEnds`, since the prover has no rules for fairness. Every invariant, action
property and refinement of a passing run is stated by a theorem; where the
theorem has a hypothesis (`NamesApart`, `"at prompt" \notin Tampering`,
`VideosKept`), a run or a comment above shows what happens without it.

## Findings

Each is a run that finds a claim of the repository violated.

- `title_rename`: a Collection whose title changed can not be synchronized. The
  planner plans a rename of the directory, which `applyRename` treats as a file.
  docs/spec.md:130 says "Rename local paths when a source name changes."
- `crash_resume`: a run killed after an install and before the manifest write
  leaves files that no record explains, and later runs refuse with "destination
  already exists". docs/spec.md:115 says "Persist resumable manifest state with
  atomic writes."
- `case_rename`: on a case-insensitive filesystem a rename that changes only
  letter case writes the file onto itself and removes it. The planner's comment
  (plan.go:77-79) asks the executor for a temporary sibling that it does not use.
- `truncated_video`: a connection cut within the first 512 bytes of a response
  looks like a short response (downloader.go:501). The image decoder refuses the
  rest, but of a video only the first box is checked, so a truncated file is
  stored and recorded as complete. docs/spec.md:249 says to validate "response
  shape, and downloaded files", and a cut later in the response is retried.
- `dial_timeout`: a host that can not be reached in time gives an error that is
  `context.DeadlineExceeded`, which downloader.go:402 takes for an interrupt. The
  Reference fails at its first attempt as "canceled" ("download was canceled",
  downloader.go:754) in a run that goes on, where docs/spec.md:114 says "Use bounded
  retries with backoff" and every other transport error is retried.
- `interrupt_exit`: `Ctrl-C` during downloads ends with the outcome "incomplete" and
  exit code 1 (app.go:332-338), although nothing else failed. docs/spec.md:119 says
  "exit with 130", and the comment at app.go:178-179 that a canceled context "is not a
  failure. A reader of the log must see the difference."

Read in the code, and not shown by a run of their own:

- Two runs that start together both look for the lock object of a bucket, both find
  none and both put it (s3.go:222-243). docs/spec.md:175 says the object "prevents two
  processes from using the bucket at once", README.md:134 "at the same time"; the
  comment at s3.go:212-215 knows of it. The run `resources` has such behaviours, and
  `BucketLockKept` says what the lock still promises.
- The manifest of a completed run that downloaded anything says "incomplete":
  `merge` computes the run state from the planned Placements (plan.go:682) and
  `applyResults` leaves it. manifest.go:65 says "RunState records the last Collection
  run state."
- At the prompt `Ctrl-C` is not noticed before an answer. During downloads the jobs
  that no worker took are recorded as failed without a report.
- docs/spec.md:108 says that discovery deduplicates Collections by their ID, but a
  duplicate fails the run (client.go:214), as client_test.go:137 expects.
  `ListingIsTrue` holds either way.
- `Release` of the bucket's lock removes the object whoever owns it
  (s3.go:218-220); in `S3Lock` this is one of the ways in which `void` goes on
  once it has begun.
- A Collection that is withdrawn while the dashboard is listed moves another one
  off the pages still to be read. That one is skipped, and with
  `--sync-existing` marked as missing though it is there (`ListingIsTrue` allows
  exactly this).
- Partitioned Chromium cookies are counted when a profile is scored
  (source.go:706-724) but not imported, so a profile can win by cookies that it
  does not bring; the comment at source.go:1031 says that "reported evidence is
  always true".
- The container that a person names is not looked at by the scan
  (source.go:1005-1096), only by the import, where README.md:66 says that it
  limits the search.
- A live read of a cookie database ignores its write-ahead log when the main file
  already shows cookies, and a main file with a log of another moment may pass the
  integrity check.
- `--interval`: the jitter follows the token (throttle.go), so two requests can
  be closer than the interval.
- `Retry-After` in seconds is multiplied without a check, in downloader.go:804 and
  in `retryDelay` of request.go; a very large value wraps.
- Counts of the progress can be reported out of order (progress.go:40-68).
- Without `--verify`, a synchronization that is killed between an install and the
  manifest write leaves a checksum in the manifest that is not the file's.
- Renamed S3 objects lose their checksum metadata (app.go:546), though
  docs/spec.md:174 says each object stores it.

## Plan

The order put the behaviour that decides over the user's files first, then the
pool, then what surrounds them; all of it is built:

1. the life of a Collection (`Manifest`, `Planner`, `CollectionRun`), refining
   `ArchiveContract`, and its proofs;
2. `Downloader`, refining `DownloadContract`, and its proofs;
3. `OutputLock`, `OutputFS` and `S3Lock`, refining `StoreLock`, and their proofs;
4. `AppRun` over `Discovery` and `RunLog`, and its proofs; `CookieChoice` and
   `CookieImport`.

What is left: directories and temporary files of `OutputFS` beyond the one path,
and the listing of a bucket.

## Not modelled

- `internal/throttle`: the spacing of requests is real time, and the limiter
  changes nothing else.
- `internal/archive/diagnostic.go`, `internal/paths`, `internal/pixieset/normalize.go`
  and the wire formats: functions of text with no state that a property relates.
- Of `internal/outputfs` and `internal/privatefs`: `MkdirAll`, `TempFile`,
  `ReadDir`, the walk through pinned parent directories and the checks for links.
- Of the S3 store: the listing of a bucket.
- Of `internal/browsercookies`: Safari's files, the parsing of the selector, the
  names of containers, the user agent.
- A kill of the whole program in `AppRun` (its effect on one Collection is in
  `CollectionRun`, on the store in `OutputFS` and `S3Lock`), and a kill that leaves a
  copy of the cookies behind.
- In `AppRun` another run holds the store or does not: that the lock of a bucket may
  be taken over from a run of more than ten minutes is in `S3Lock` (`void`), so
  `WritesUnderLock` is about the run's own order of attaching, locking and saving.
