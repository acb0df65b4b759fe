# HooNeedsUpdates: TLA+ models, checks and proofs

HooNeedsUpdates finds outdated dependencies of a repository, writes the updates
into a checkout, and keeps one pull request per repository in step with them.
This directory holds its formal models. Paths such as `runner.go:197` are below
`internal/automation/`, `apply.go`, `plan.go`, `scan.go` and `lockfiles.go` below
`internal/update/`, `client.go` below `internal/githubapi/`; `policy.go` is the one
in `internal/update/`, `main.go` that of `cmd/hooneedsupdates/`.

    tlc  -workers 2 -config ManagedPull_publish.cfg ManagedPull
    tlapm ManagedPull_proofs.tla

`PROJECT.json` lists the components, the runs with their properties, the mutated
definitions that show each property can fail, the source lines behind every
definition, the hazards, the disagreements found and the theorems.

## The system

| Component | State | Operations | What makes it hard | What makes it correct |
| --- | --- | --- | --- | --- |
| Managed pull request (`runner.go`, `github.go`, `git.go`) | the branch, the pull requests and their auto-merge requests on GitHub; `repositoryState` for one run | `runRepository`: prepare, list pulls, read ref, commit, disable, push, create/update, label, enable, delete, close | GitHub changes between any two calls; a call fails, is deferred, or works although its answer is lost; the next run starts from whatever is left | no commit of a person is discarded without evidence; no manual plan is merged by a request of ours; runs converge and then change nothing |
| Fleet run (`Runner.Run`, `updateRepository`, `git.go`) | results so far, a checkout | one repository after another: metadata, clone, scan, apply, state, commit, handlers | a rate limit defers the rest, a failure or panic does not, cancellation fails the rest; the apply and the checkout disagree | one result per repository; exit 0 means done; commits are exact; every repository is reached |
| Source writes (`apply.go`, `plan.go:ApplyPlan`) | the planned files | read, validate, stage, sync, rename, flush; rollback | calls fail half way, rollback fails, the process dies, people edit | all files or none; the report is true; files stay whole |
| Plan files (`plan.go`) | one file | create, save (exclusive), load, validate | two savers, a crash during save, damage | only what was saved is loaded; nothing is overwritten |
| GitHub API client (`client.go`) | the cooldown in memory and in a file; wait budget and retries of a request | `Do`, `record`, `clearStateBestEffort`, `loadState` | callers share it; a restart; failing saves; clamped times | no request inside a cooldown; waits bounded |
| Scanner (`scan.go`) | jobs, cache of resolutions, results | dispatch, resolve once per key, classify | workers, waiters and cancellation interleave | one resolution per key, no deadlock, a report that does not depend on order |
| Policy, groups, selection (`policy.go`, `scan.go:FilterReport`, `selection.go`, `runner.go:autoMergeDecision`) | none | pure | steps applied one after another | no group is ever split; incomplete is never complete |
| Lockfile regeneration (`lockfiles*.go`) | two worktrees, a source snapshot | snapshot, regenerate twice, compare, write | tools are not deterministic; the source moves | only a reproduced result over an unchanged source is written |
| Edits (`apply.go:planReport` to `applyEdits`) | none | pure | overlaps, equal positions, comments, a file edited since the scan | edits made one by one equal all of them made at once |
| Versions, extraction, resolvers, NuGet sanitizer, diff, configuration, command line, setup action, scripts | none, or one file read once | parsing and I/O | formats | not modelled, see below |

The components meet as follows. `automation` runs, per repository, a clone, a
scan and `Apply` inside the clone, then the managed pull request; all its calls
to GitHub, and those of the scan's resolvers, pass through the one rate-limited
client. `apply --write` scans, previews, makes a plan in memory and hands it to
`ApplyPlan`; `apply --plan` loads that plan from a file; `--lockfiles` replaces
the preview by two regenerations. All writes to a checkout end in `writePlans`.

## The modules

| Module | What it is |
| --- | --- |
| `ManagedPull` | one repository's run against GitHub, call by call |
| `ManagedPull_proofs` | its inductive invariants and theorems |
| `SourceWrite` | `ApplyPlan` and everything below it, system call by system call |
| `AllOrNothing` | what such an apply promises: the specification `SourceWrite` implements |
| `SourceWrite_proofs` | its inductive invariant, theorems and the refinement proof |
| `SavedPlan` | plan files and the commands that make, preview and apply them, around `SourceWrite` |
| `MCSavedPlan` | the instance of both for TLC: three files, the second one created |
| `SavedPlan_proofs` | that the commands refine `SourceWrite`, and that plan files are kept |
| `RateLimit` | the shared GitHub client and its cooldown, over several runs of the program |
| `MCRateLimit` | its instance for TLC: two callers, two runs, eight responses |
| `RateLimit_proofs` | its inductive invariant and theorems |
| `ScanPool` | `Scan` from the extracted candidates to its return: dispatcher, workers, cache |
| `SequentialScan` | what a scan promises however many workers it has: the specification `ScanPool` implements |
| `MCScanPool` | its instance for TLC: four candidates, two questions, three workers |
| `ScanPool_proofs` | its inductive invariant, theorems and the refinement proof |
| `Selection` | package rules, groups, selection and completeness, one after another |
| `MCSelection` | its instance for TLC: three dependencies, two rules, seven lists of them |
| `Edits` | what a complete selection of `Selection` does to a manifest |
| `Edits_proofs` | the theorems about both: the inductive invariant of `Selection`, and what the loop of edits makes |
| `MCEdits` | its instance for TLC: `MCSelection` with eleven manifests |
| `LockGroups` | the rules by which lockfiles and commands belong to manifests (no state) |
| `Lockfiles` | two regenerations in worktrees, their comparison, the checks of the source |
| `Lockfiles_proofs` | its inductive invariant and theorems |
| `MCLockfiles` | its instance for TLC: nine small repositories of four package managers |
| `Fleet` | `update-repos`: one repository after another, run after run |
| `Fleet_proofs` | its inductive invariant and theorems |
| `MCFleet` | its instance for TLC: three repositories, four spellings, five kinds of plan |

`SavedPlan` extends `SourceWrite`, `Edits` extends `Selection`, `Lockfiles` extends
`LockGroups`; two more instantiate the promise they keep (`KeepsPromise`,
`ActsSequentially`). What a module takes from another component is one step of its
own: a call that is deferred before it reaches GitHub (`RateLimit`), a report that is
complete or not (`Selection`), the replacement of one file at the end of a regeneration
(`SourceWrite`), the handlers that reconcile one repository (`ManagedPull`, in `Fleet`).

### ManagedPull

`branch` and `pulls` are GitHub's, `inventory` is what a scan would report,
`policy` the set of plans the settings let auto-merge. `run` is
`repositoryState` with the `Result`; `run.pc` names the next call. A plan stands
for a complete report with outdated entries on a base commit, and also for the
commit made from it: `gitVCS.Commit` fixes author, date and parent, so equal
plans give equal commits. `inventory` may also be current, or incomplete
(`RequireComplete` fails).

| Action | Code |
| --- | --- |
| `Start`, `Prepare` | `runRepository`, `prepareRepository`: metadata, clone, scan, apply |
| `ListPulls`, `ReadRef` | the two requests of `loadManagedState`, `selectPull`; `ReadRef` ends in the guards of `handleIncomplete`, `handleCurrent` or `handleUpdates` |
| `Commit` | `gitVCS.Commit`, then `previewUpdate`, or `writeUpdate` up to its first call |
| `DisableUnsafe`, `Push` | `disableUnsafeAutoMerge`; the push under a lease |
| `CreatePull`, `UpdatePull`, `KeepPull` | `upsertPull` |
| `AddLabels`, `EnableAutoMerge`, `DisableLate`, `KeepAutoMerge` | the end of `writeUpdate`, `reconcileAutoMerge` |
| `DeleteBranch`, `ClosePull` | `handleCurrent` |
| `Return` | the result; the checkout is removed |
| `Someone...`, `PullMerges` | people and GitHub: push, delete, close, reopen, open, edit (body, draft, auto-merge), merge |
| `InventoryChanges`, `PolicyChanges` | the default branch or a registry moves on; settings change between runs |

Every call (`Call`, `Local`) may be answered, fail, be deferred by the rate
limiter before it reaches GitHub, or take effect although the run sees an error.
The last one also stands for the process dying after the call: like an error, it
ends the run, and the next run starts from GitHub alone. What GitHub does (an
open pull request's head follows its branch, deleting the branch closes it,
closing drops auto-merge, at most one open pull request per branch) is modelled
from how the code relies on it.

### SourceWrite and AllOrNothing

`disk` is what each planned path holds, as far as `validateWritePlans` can tell:
nothing, the bytes and mode the plan was made from, the planned ones, or anything
else. `run` holds the locals of `ApplyPlan`, `writePlans`, `atomicWrite` and
`rollback`: `at` is the index of the current loop and `back` says that the loop
is `rollback`'s. `run.base` and `run.late` are history: the files as the run
found them or a person left them, and the files a person edited after the run's
last look at them. There is no power loss in the model; instead `survives[i]` is the set of
contents a loss of power at this moment could leave at path `i`: a rename adds
to it until the directory is flushed, and it adds a torn file if the bytes were
not flushed before.

`Read` is the loop of `ApplyPlan`, `Check` that of `validateWritePlans`; `Stage`,
`Sync`, `Rename` and `Flush` are `atomicWrite`, for the forward writes and for
those of `rollback`; `Remove` is `rollback` of a created file. Each may fail.
`Crash` and `Edit` may happen before any of them. Temporary files that a crash
leaves behind are not modelled. Flushing a directory also makes its other renames
durable, which the model leaves out: it only makes `survives` larger.

`AllOrNothing` has the same files, one step per report, and no knowledge of how an
apply works: `Write` replaces every file, `Refuse` and `Restore` none, `Break`
(a crash or a failed rollback) leaves old and new files mixed and nothing else.
A file edited late is excepted as far as the code forces it. Under the mapping
`files <- IF run.pc = "idle" THEN disk ELSE run.base`, all the steps of one apply
up to its report are stutters.

### RateLimit

`state` is `Client.state`, `file` the state file as `loadState` tells files apart,
`holder` the caller that holds `Client.mu`, `call` the locals of its `Do`
(`budget` is `waitBudget`). `at` says for each caller how far it is or what its
`Do` returned, `told` the `RetryAt` of its `RateLimitError`. `hist` is history for
the properties: until when the last saved cooldown lasts, how many limits of one
kind in a row were saved, whether the file is of the client's writing, and whether
a save failed in this run.

| Action | Code |
| --- | --- |
| `Start`, `Refuse` | `New` with `loadState`, and its errors |
| `Request`, `Acquire` | a caller reaches `c.mu.Lock()`, and gets it |
| `Top`, `Wake` | the loop up to `c.http.Do`: context, cooldown, budget, sleep |
| `TransportFails`, `Accept`, `Limit` | what comes back, through `inspect` |
| `Record`, `Saved`, `SaveFails` | `record` up to `saveState`, and its outcomes |
| `Cleared` | the save of `clearStateBestEffort`, whose error is ignored |
| `Again` | the end of the loop: defer or retry |
| `Stop`, `Cancel`, `Tick`, `DeleteState` | the process ends or dies, its context is cancelled, time passes, the operator deletes a file that is refused |

A response is a record of what `inspect` reads; `RetryAt` computes the cooldown
from it with the clamps of `parseReset` and the doubling of `secondaryDelay`.
`inspect` and `record` read the clock separately, as in the code. The two readings
at the top of the loop are one; in the code the cooldown may end between them,
and a negative delay then adds the time between them to the wait budget. Durations have
no width: the clamp of a Retry-After beyond 2^63 ns is left out. One process uses
the file at a time, as `docs/repository-automation.md:149-150` asks, and the model
has no loss of power (`saveState` does not flush the directory).

`Accept` is any response that is no limit: a 500 or an ordinary 403 clears the
cooldown and the count of attempts as well as a success does.

### ScanPool and SequentialScan

A question is the key of the cache: what identifies a dependency, its version, and
what `policyChannel` says of it. `wanted` names each candidate's question, or `None`
for one that is ignored, unsupported or contradictory; an entry of `updates`
stands for the answer it is made of. `next` and `open` are the dispatcher's, `worker`
holds each goroutine's task and what `resolveCached` returned to it; a cache entry
is `Pending` until its `done` is closed.

| Action | Code |
| --- | --- |
| `Handoff`, `CloseJobs`, `Finish` | the loop `dispatch`, `close(jobs)`, `workers.Wait()` with the two early errors |
| `Begin`, `Settle`, `Exit` | the body of a worker's loop before and after `resolveCached`, and the loop's end |
| `Lookup`, `Resolve`, `Wait` | `resolveCached`: under the lock, as the resolver, as a waiter |
| `Cancel`, `Returned` | the context is cancelled; the scan has returned |

Both channels' `select`s are nondeterministic when both cases are ready, as in Go. A
resolver may return any answer, cancelled or not: its HTTP request may have been
answered before. `SequentialScan` asks one question after the other, each once, and
returns a report, the latest rate limit it met, or that it was cancelled. A question
counts as asked when its answer is in the cache, and the rate limit and the report
count when `Scan` has returned them (`Answered`, `LimitReturned`, `ReportReturned`).

### Selection

`rules` are `config.packageRules`, each with the dependencies its patterns match and
those whose target passes its age and version limits (`admits`). `found` is what
ignoring, extraction and `classifyResolved` make of a dependency when rules agree;
`named` and `typed` are what the selection's patterns and update types match. These
never change. `stage` is the last step done.

| Action | Code |
| --- | --- |
| `Classify` | the entries of the workers, blocked where `policyChannel` finds a contradiction |
| `Police` | `applyPackagePolicy` on every entry |
| `Close` | `enforceGroups` |
| `Select` | `SelectReport` with `FilterReport`; everything selected is the report of a plain scan |

`Complete` is `RequireComplete`. Order, wording, summaries and digests are left out.

### Edits

`layout` is the manifest when it is planned, with what the scan recorded of each
dependency: the range of its value, the value, its replacement, and for an action
the version of its comment. A text is a sequence of tokens, because the rules tell
line ends, carriage returns, blanks, `#` and everything else apart and compare the
rest. The manifest may have been edited after the scan.

| Definition | Code |
| --- | --- |
| `Plan` | `validateReport`, `planReport`, `planUpdates`: from a complete selection to a text or an error |
| `EditsOf`, `Editable` | the loop of `buildEdits` and its errors |
| `CommentEdits` | `actionCommentEdit` |
| `Sorted`, `Precedes`, `Backwards` | the `sort.Slice` of `buildEdits`; equal starts come in any order (`rank`) |
| `ApplyEdit`, `Applied` | `applyEdits` |

Two kinds of edits can start at one place: comments that several actions of one line
insert at its end, and two edits that overlap. Their order is left open as far as they
are of different dependencies. An insertion cannot be at the place of a value, because
no line end is part of the value of an action (`extract_actions.go:14-16`) and no value is empty;
`LayoutsAssumption` says so.

### SavedPlan

`artifact` is what the plan's path holds: nothing, a file `SavePlan` has opened and
not finished, the plan, or anything else. `task` is the command that runs: how far it
is, whether it will save or write, and whether its preview was good. The planned files
and the locals of `ApplyPlan` are `SourceWrite`'s.

| Action | Code |
| --- | --- |
| `Scan`, `Create` | `runScan` or a fresh `runApply` up to `CreatePlan`, which reads again the files that exist |
| `Open`, `Store`, `Exit` | `SavePlan`: exclusive open; write, sync and close, or remove; the end of `runScan` |
| `Load` | `LoadPlan`, which takes nothing but a whole plan |
| `Preview`, `WritePlan`, `Seen`, `Work`, `Done` | `ApplyPlan` without and with `write`, step by step, and what `runApply` does next |
| `Die`, `SomeoneEdits`, `SomeoneReplaces` | the process dies; people edit planned files, or put, damage or remove the plan file |

One command runs at a time, and there is one plan: the one made of `Source`.

### LockGroups and Lockfiles

`LockGroups` has no state. From a tree (its files, `[workspace]` tables, projects,
declared tools, `.cargo` configurations) and the entries of a report it computes the
groups of `buildRegenerationPlan`: manager, directory, tool, lockfiles, which of them
are optional, and the commands of `commandsForGroup`.

In `Lockfiles`, `source` is the checkout and `head` the commit `HEAD` names; both hold
one of a few contents per path: absent, a person's text (as it was, or edited), the
same with the approved versions, the same pinned for Cargo, or one of two outputs of a
package manager. `run` holds the locals of `applyWithLockfiles` and `regenerateOnce`,
and in `files` what `writePlans` has still to check, to store or to undo;
`committed`, `left`, `edited` and `flips` are history for the properties.

| Action | Code |
| --- | --- |
| `Begin`, `PlanManifests`, `PlanLocks` | the report, `planReport`, `buildRegenerationPlan` |
| `Snapshot`, `Validate`, `Revalidate` | `snapshotSourceState`, `validateSourceState`, `validateSourceSnapshot` |
| `AddWorktree` | `git worktree add` of `HEAD` as it is by then, the snapshot's bytes, `Apply`, `pinCargoManifests` |
| `Command`, `CommandsDone` | `executableRunner.Run` for each command: it may write its lockfiles and one other path |
| `Hang`, `TimeOut`, `Release` | a command that does not return, the end of its context, the end of the last process that holds its output |
| `RestorePins`, `Collect` | `restoreCargoManifests`, `collectRegeneration`; the second worktree follows the first |
| `Compare` | `compareRegenerations`, and on to `writePlans` or to the end of a preview |
| `Check`, `AllChecked` | `validateWritePlans`, file by file |
| `Store`, `AllStored` | `atomicWrite` of each new file, which may fail before its rename or after it |
| `Undo`, `AllUndone` | `rollback`, file by file; each may fail |
| `Fail`, `Return` | an error of any step; the call returns |
| `Edit`, `Commit` | people edit planned files and commit |

The code runs the commands of a group in a fixed order; the model in any, because
what a command may do does not depend on it. A phase that reads several files is one
step, so an edit may come between two phases and not within one. `writePlans` is not: an
edit may come between the check of a file and its rename, and before its rollback. It too
takes its files in any order, which is the code's and the reverse for a rollback, because
what becomes of one does not depend on the others.

### Fleet

`metadata`, `inventory` and `pushed` are GitHub's side of each repository, `synced`
the repositories whose managed pull request fits what the scan would select. `cooldown`
is the shared client: off, or the rate limit that holds every call up. `run` holds the
locals of `Runner.Run` and `runRepository`. `Leaves` says for each plan which files its
apply returns and what `git status` shows afterwards, which need not agree.

| Action | Code |
| --- | --- |
| `Begin` | `runUpdateRepos` up to `runner.Run`: the two checks of a list, `uniqueRepositories` |
| `Take` | the loop of `Run`: cancelled, next repository, or the end |
| `Repository`, `Clone`, `Update` | `prepareRepository`: metadata, clone and head, `updateRepository` |
| `State`, `Commit` | `loadManagedState` with the first guard of `handleUpdates`; `gitVCS.Commit` with `expectedPaths`, `parseStatus` and `exactPathSet` |
| `Reconcile` | the handlers: `ManagedPull` as one step, which may fail before or after the push |
| `Report`, `Exit`, `Cancel` | the exit code; the end; SIGINT or SIGTERM |
| `CooldownEnds`, `InventoryChanges`, `MetadataChanges` | time passes; a repository or a registry changes |

A step may fail, panic, or be deferred if it calls GitHub. An error of the final
`git diff --cached --check` or of `git commit` counts as a failure. The model exits 2
whenever a list is refused; the code exits 1 if it is the configured one.

## What is checked

| Run | Shows | Result |
| --- | --- | --- |
| `publish` | six properties of preview and write runs besides the types, and that runs converge | holds, 1.9 million states |
| `orphan` | a deferral is resumed later (`DeferredWorkResumes`) | violated |
| `retain` | manual settings revoke auto-merge (`ManualSettingDisarms`) | violated |
| `redraft` | a rerun of the same plan changes nothing (`RerunIdempotent`) | violated |
| `apply` | seven properties of plan files and applies, one of them the refinement | holds, 0.89 million states |
| `share` | six invariants of the client, and that calls return | holds, 0.25 million states |
| `scan` | two invariants of the worker pool, that it returns, and the refinement | holds, 0.80 million states |
| `select` | four invariants of policy, groups, selection and edits | holds, 1.2 million states |
| `conflict` | a family is applied whole or not at all (`FamilyComplete`) | violated |
| `fleet` | three invariants of fleet runs besides the types, and that they converge | holds |
| `regenerate` | four properties of lockfile regeneration besides the types | holds |
| `linger` | every run ends (`RunsEnd`) | violated |

`publish` checks, besides the types:

- `ManualPlanNeverRides`: no step puts a plan that must stay manual under an
  auto-merge request of the runner's. It needs the revocation before the push.
- `ForeignNeedsEvidence`: somebody else's commit is discarded only as the commit
  that was read, and only on the evidence of a marked pull request.
- `CompletedRunInSync`, `UnfitPullDisarmed`: what an undisturbed run leaves behind.
- `PreviewForecasts`: `previewUpdate` and `writeUpdate` decide apart and must agree;
  a write run carries the forecast along.
- `RerunChangesNothing`: when GitHub already shows the plan, a run changes nothing,
  not even for a moment.
- `Converges`: when faults and outside acts have ceased, repeated runs bring GitHub to
  what the inventory calls for, or to a state the runner refuses.

`apply` checks `FilesWhole` (no loss of power leaves a torn file), `SuccessDurable`
(on Unix a reported success survives it), `ReportHonest` (after an error every
file is as it was, but for those the error names), `OnlyLateEditsReplaced` (a run
replaces a file only in the state it expects, or one edited after its last look),
`KeepsPromise` (the refinement) and `ArtifactsKept` (the tool alone changes no plan file it
found or finished, however it fails or dies, and a plan it says it saved is there).

`share` checks `SentAfterCooldown` (no request inside a cooldown that is in memory
or that any run saved), `StaleFileHarmless` (a failed save leaves no cooldown that
holds a later run up), `OwnStateLoads` (the client can read what it wrote, whatever
the clock did between its readings), `DeferralDurable` (unless a save failed, the
file holds what a deferred caller was told), `BackoffRemembered` (the count of
attempts survives restarts) and `CallsReturn` (every queued caller gets an answer).

`scan` checks `WaitersHaveResolver` (whoever waits for an answer waits for a worker that
is getting it), `ScanReturns` (every scan ends, cancelled or not)
and `ActsSequentially` (the refinement: order and number of workers do not show).

`select` checks `FamilyWhole` (an update is offered with all of its group, which has no
gap and, where asked for, one target), `OfferedWithinPolicy` (an update offered was
chosen and passes every rule that matches it, none of which contradict each other),
`FailuresStayVisible` (a selection by update type hides no failure, so that
`RequireComplete` refuses the report) and `EditsExact` (a manifest is planned if and only
if its values are where the scan saw them, have replacements, and no edits overlap; then
it is the manifest with all edits made at once, though the code makes them one by one
and sorts them unstably).

`fleet` checks `EveryRepositoryReported` (each repository asked for has one result,
whatever fails or panics, and a deferral defers all that come after it until the same
time), `ExitZeroMeansDone` (a write run exits zero only when each of its repositories fits,
is deferred, or changed meanwhile), `PushedAsReturned` (a managed branch carries all that
an apply left and returned, no more and no less) and `FleetConverges` (in the end each
repository that can fit does, whatever becomes of those before it).

`regenerate` checks `Reproduced` (what is in the checkout after a write is what both
worktrees were left with, on every planned path that nobody edited since),
`ApprovedAndLocked` (the manifests are the approved ones and each required lockfile is
there), `ReplacesCommitted` (what a run replaces was committed when it validated the
checkout, or is undone by the rollback of its own write, or was edited after its check in
`writePlans`, or edited twice during the run) and `EndsUnlessHeld` (a run ends, however its commands behave, unless a
process outlives the command that started it).

### Bounds

`publish` has one fault and three outside acts, at any place; a run has at most
eleven calls, and behaviours have any number of runs. Two plans are enough for one to
replace another under a request armed for the first; a third would behave as the
first. The properties of a step relate a snapshot to one later state, so each
needs at most one act before the listing (to make the situation), one between
listing and use, and one after. Plans are interchangeable, but symmetry is not used,
because it is unsound for liveness. The theorems about `ManagedPull` hold for all bounds.
`retain` and `redraft` need one plan; `redraft` has neither faults nor outside acts,
so that nothing but the runs themselves can change the pull request.

`apply` has a plan of three files, the middle one created, so that rollback meets a written
file, a created one and one not reached, in either order; faults, crashes, edits
and applies are unbounded. Any mixture of contents is an initial state, which
stands for what an earlier crash or loss of power left.

`share` has two callers, because the second one meets what the first one recorded
or failed to save, and two runs, because the second one meets the file. With one
retry, a wait budget of 1 and delays of 0 to 3, a cooldown may fit the
budget, exceed it, or be over at once. The clock stops at 2 except for a sleeper,
which leaves room for a cooldown to be met and to pass. `AttemptLimit` bounds
the limits of one kind in a row, and the doubling reaches its maximum within it.
The first file is any of the forms `loadState` distinguishes, or there is none.

`scan` has three workers, so that two can wait for a third one's answer, and four
candidates, so that one worker goes on to another task meanwhile. The inventories are
those in which questions are shared by two or three candidates or some need no
answer, up to exchanging the questions. Two rate limits are enough to have an
earlier and a later one. Cancelling may come anywhere.

`select` has three dependencies, for a group of two beside or overlapping another, or a
group of three. Two rules are enough to contradict each other or to restrict one
another. The eight findings are all statuses with all targets that matter, of
which there are two and an unreadable one. Every selection is tried with each.
Its manifests have every kind of comment and line end that `actionCommentEdit` tells
apart, two actions on a line, one range for two dependencies, a range in another, a
missing replacement, and three edits made since the scan (elsewhere, in a value, and a
shorter file). Three edits of values with their comments are enough to adjoin, coincide
and nest.

`fleet` has three repositories, so that one comes before and one after the one that
fails or is deferred, and a second spelling of one, so that a list may name it twice and
the order of the spellings differs from that of the list. One fault, one rate limit
and two changes, at any place; any number of runs, previews included. The five plans
are those whose apply and checkout agree, disagree in either direction, or are refused
by `parseStatus` or `expectedPaths`.

`regenerate` has nine repositories, one for each way a rule of `LockGroups` decides
(workspaces, members without lockfile, nested and declared tools, two lockfiles,
central versions of one and of two projects, a manager without lockfiles), with at most
two groups' worth of commands. Two outputs of a tool are enough for two runs to differ.
A command may write one path besides its lockfiles. Two edits or commits may come
anywhere, and the checkout may begin with one uncommitted change: enough for a file
edited between its check and its rename, and for a path edited twice during the run, the
cases `ReplacesCommitted` has to except. `linger` needs no edits.

### Fairness

Only `publish`, `orphan`, `redraft`, `share`, `scan`, `fleet`, `regenerate` and `linger` assume any. `WF_vars(RunnerStep)`: a run's calls have
timeouts and it waits for nobody, so a started run goes on. `SF_vars(Start(TRUE))`:
the scheduled workflow keeps starting write runs. (`redraft` is a matter of two runs; they do not depend on
fairness, but under it they must come.) It is strong because previews
started by hand may come in between; without previews weak fairness would do.
In `share`, `WF_vars(Tick)` lets time pass, `WF_vars(Do)` lets the holder of the
mutex go on (the timeout of `http.Client` bounds its request), and `WF_vars(Acquire(c))` is
the mutex: a run has finitely many calls, and Go's mutexes starve nobody.
In `scan`, `WF_vars(Dispatch)`, `WF_vars(Finish)` and `WF_vars(Work(w))` are the goroutines: one
that can run does run, and a resolver's request ends because the timeout of
`http.Client` bounds it. Which goroutine meets the dispatcher is left open.
In `regenerate` and `linger`, `WF_vars(Step)`: a run that was begun goes on, a step of it
never waits for a person, and the timer of a context fires. No process is forced to
close the output it inherited (`Release`). In `fleet`, `WF_vars(Step)` is the same for its
steps (requests have timeouts), `WF_vars(CooldownEnds)` lets time pass, and
`SF_vars(Begin(Scheduled, TRUE))` is the schedule. While rate limits go on for ever the
repositories at the end of the order may never be reached, because each run begins
with the first again; `FleetConverges` is about the time after the last limit.
People, GitHub's merges and faults are never forced to happen; `MaxActs`, `MaxFaults`,
`MaxLimits`, `MaxChanges` and `MaxEdits` make them cease. Deadlock is checked but in
`share`, where a program whose runs are used up stops, and in `select` and `conflict`,
where the report is finished. In `scan` the pool may stop only when `Scan` has returned.

### Where code and documentation disagree

1. *A deferral can be final* (`orphan`). `writeUpdate` pushes before it creates the
   pull request. When the creation is deferred, the branch exists without a marked
   pull request, and each later run refuses it (`runner.go:212`).
   `docs/repository-automation.md:17-19` calls the deferral "resumable control flow".
2. *Manual settings do not reach a retained pull request* (`retain`). With
   `closeStale: false`, `handleCurrent` returns before anything is revoked
   (`runner.go:348`). `docs/repository-automation.md:155-156`: "The next run removes
   pending native auto-merge requests."
3. *A family can be applied without a member in dispute* (`conflict`). When rules put
   a dependency into two groups, `policyChannel` blocks it, but
   `applyPackagePolicy` makes it a member of the last group only (`policy.go:40`), so
   `enforceGroups` and `FilterReport` do not miss it in the first. A selection that
   leaves it out by name applies the rest of that group. `docs/update-policy.md:29`: a
   group is a "Named family that must remain complete during selection and apply."
   Without such a selection the blocked entry keeps the whole report from being applied.
4. *A timeout may not end a command* (`linger`). `exec.CommandContext` kills the command
   it started. Its output goes through a pipe, because `Stdout` is no file, and without
   a `WaitDelay` `process.Run` (`lockfiles.go:162`) waits until every process that
   inherited the pipe has closed it. `docs/lockfile-updates.md:42-43`: "Every command has
   bounded output and uses `lockfileTimeout`". The run's other ways to end are shown by
   `EndsUnlessHeld`.

5. *A rerun of a draft is not idempotent* (`redraft`). A run without a pull request
   writes into the body what `autoMergeDecision` says (`runner.go:225-234`), and creates
   it as a draft if `draft` is set. The next run of the same plan finds its own draft,
   replaces that reason with "pull request is a draft" (`runner.go:228-230`), rewrites the
   body and reports "updated". `README.md:243` speaks of an
   "idempotent GitHub update-PR lifecycle". Without `draft` the property holds on the same instance and on
   one with two plans, a fault and an outside act.

Three narrower windows are not runs of their own; a proved property says how far
each reaches.

- Pull requests and branch are read by two requests (`runner.go:185-197`). If the
  marked pull request is closed and a commit pushed in between, that commit becomes
  the lease and is overwritten, although `docs/repository-automation.md:56-58` says
  "never overwritten". `ForeignNeedsEvidence`: only then, and only the commit read.
- Between `validateWritePlans` and the rename, and during rollback, an edit is lost
  without an error (`apply.go:359`, `apply.go:231`), although `docs/lockfile-updates.md:20-22`
  says "no local work is silently replaced". `OnlyLateEditsReplaced` bounds the window,
  and `ReplacesCommitted` with it what a regeneration replaces.
- When the save of a cooldown fails, the caller at hand gets the error, but the next
  one is deferred with `Persisted` true (`client.go:377`), and the next process asks GitHub
  at once. `DeferralDurable`: a failed save is the only way.

## What is proved

By TLAPS, for all values of the constants that satisfy the named assumptions of
each module (names are distinct; `Method` is one of `Methods`; settings and write
modes are Boolean; bounds are numbers; at least one file; created files are files; at least one worker;
a shared version is asked for within a group only; in `Fleet`, spellings are finitely many
and ordered, each names a repository, and no plan is called like the inventories without
one; in `Lockfiles`, a repository's paths include its files, its manifests and every
lockfile that its groups compute; in `RateLimit`, the base delay is at most the greatest
one; in `Edits`, there are finitely many dependencies, a text is a sequence of tokens, no
value is empty, an empty comment is no version, and where there are actions no value
contains a line end). TLC evaluates each of them on the instances above,
and it checked each inductive invariant there before it was proved. Every
safety and action property of the passing runs is a theorem.

`ManagedPull_proofs`: `TypeCorrect`, `ManualPlanSafe` (`ManualPlanNeverRides`) and
`ForeignCommitsSafe` (`ForeignNeedsEvidence`). `ManualPlanNeverRides` is about a
step, yet whether the step is harmless depends on a snapshot taken calls earlier.
The invariant `IInv` says what the snapshot still means: `HubOK`, GitHub's side (at
most one open pull request, whose head is the branch, and closed ones disarmed);
`SnapshotOK`, the pull request a run names exists; `ArmedIsSeen`, a request of the
runner's own is one the snapshot shows, because only runs make them; `BranchIsOurs`,
from the push on the branch is the run's plan or was changed by others;
`OwnershipOK`, past the guard of `handleUpdates` there is evidence for the commit
read. Each action has a lemma; the four outcomes of a call share theirs.

`PreviewHolds` (`PreviewForecasts`), `CompletedInSync` (`CompletedRunInSync`), `UnfitDisarmed`
(`UnfitPullDisarmed`) and `RerunHarmless` (`RerunChangesNothing`) are about runs that nothing
disturbs, and rest on a second invariant, `Undisturbed` (theorem `UndisturbedRuns`), which
needs `IInv`: two open pull requests, say, would make a run's own one ambiguous. `Reading`
says that the snapshot still describes GitHub (`Sees`) until the run's own calls change it;
`Writing` what each of these calls has done, and that the forecast of the preview is still
the one the remaining calls fulfil (`PreviewBefore`, `Foretold`), although a request revoked
before the push is gone from the snapshot by then; `Closing` the same for a current plan;
and `Left` what follows at the end. `CompletedInSync` supposes `~Draft` and `UnfitDisarmed`
`CloseStale`, because without them the properties are false: `redraft` and `retain` show
it. The other two hold with any settings.

`SourceWrite_proofs`: `TypeCorrect`, `Whole`, `Durable`, `Honest`, `EditsSafe` and
`Implements`, the refinement, for any number of files. None of these properties is
inductive: that rollback restores everything depends on what the loops before it
did. `IInv` describes each file by its place in the loop. While looking, every file
is untouched (`Looking`); while writing, files before `at` are written and those
after it untouched (`Writing`); while undoing, files before `at` are written, and
those after it undone, unless rollback failed for them (`Undoing`); `Ended` is what
follows at each kind of report, and `Flushed` what has reached the disk. An edit
makes its file untouched and, after the last look at it, late, and each clause
allows for that. `StepRefines` maps each step to a step of `AllOrNothing` or a stutter.

`RateLimit_proofs`: `TypeCorrect`, `NeverEarly` (`SentAfterCooldown`), `StaleHarmless`,
`OwnLoads`, `Durable` and `Remembered`, for any callers, responses, delays and
number of runs. `SentAfterCooldown` speaks of what any earlier run saved, while the
code looks at memory alone. `IInv` connects them: a promise still to be kept is in
the file (`Promised`); while the program runs, a file with time left is what memory
has (`StaleFileHarmless`); from the request to the save the file's cooldown is
over (`FileElapsed`), so replacing or clearing it breaks no promise; and what is in
memory could be loaded again (`StateLoads`). `Backoff` is about
`secondaryDelay` alone: it begins with the base delay, doubles it with each further limit
in a row, never falls and never exceeds the cap. So every wait is a duration, which the
type invariant needs and which was an assumption before.

`SavedPlan_proofs`: `Carries`, that the commands take the planned files through steps of
`SourceWrite` and no others, so that all of the above holds of `scan --plan`, `apply`
and `apply --plan`; and `ArtifactSafe` (`ArtifactsKept`). Its invariant `TInv` says that,
unless somebody interfered, `SavePlan` finds its own unfinished file when it ends, and
the plan there afterwards.

`ScanPool_proofs`: `TypeCorrect`, `NobodyWaitsAlone` (`WaitersHaveResolver`),
`ReportsComplete` (`NoPartialReport`) and `Implements` (`ActsSequentially`), for any number
of candidates and workers. `NoPartialReport` says that a report has an entry for every
candidate, made from the answer to its own question; no run repeats it, because
`ActsSequentially` contains it. That the report is complete follows from what happened
to each candidate, in any of the workers: `NothingLost` says that a candidate handed
out has its entry, or a rate limit it met, or is some worker's task, or the scan was
cancelled. `TasksOK` says what a worker's task and answer are, `ResolversOK` gives each
open question exactly one resolver, `FatalMet` says that the rate limit kept was met
for some candidate, and `EndOK` what is over when the channel is closed and when `Scan`
has returned.

`Edits_proofs`, about `Selection`: `TypeCorrect`, `FamiliesWhole` (`FamilyWhole`), `PolicyKept`
(`OfferedWithinPolicy`) and `FailuresVisible` (`FailuresStayVisible`), for any
dependencies, rules and selections. `IInv` says what each step has established for
those after it: `OwnOK`, what is still outdated was found so by agreeing rules;
`PolicyOK`, and within their limits; `GroupsOK`, a group with an actionable member has
no others; `SelectedOK`, what the selection kept. That there is a last rule with a
group (`GreatestOK`) rests on the library's well-foundedness of the natural numbers.

`Edits_proofs`, about `Edits`: `PlansSelect`, that a run with plans selects as `Selection`
does, so that all of the above holds of what is planned, and `EditsAreExact` (`EditsExact`),
for any manifest, edited since the scan or not, any dependencies and any order that the sort
may choose. The two sides are computed in different ways: the code changes a text edit by
edit, from its end to its start, and refuses what reaches beyond the edit before; the
property looks at all edits together, position by position. `Reached` is the invariant of
the loop: after `k` edits all is well exactly if none of them reaches into the one before
(`Stacked`), and then the text is what these `k` edits make together. `ReachedNext` takes it
over one edit. It needs that one more edit changes one piece of the text and no other
(`OneMore`, `NextEdit`), that what precedes the edits made so far is still as it was
(`Untouched`), and, at equal starts, that the insertions made so far are those of
higher rank. In the end neighbours that do not reach into each other are edits none
of which overlap, since the list is sorted (`StackedDisjoint`). `EditsSound` shows what the edits
of `buildEdits` have to be for this: inside the text, with the old text they say, and no
insertion where another edit replaces something.

Both are inductions over data. The library's induction theorems take a property as a
parameter, which none of the provers can instantiate. A set of numbers can stand
for the property instead, and the least number outside it is then the case to refute
(`LeastOK`, `Induction`). In the same way functions that follow a recursion are shown to
exist (`Recursion`, `DelaysExist`), so that `Applied`, `SecondaryDelay` and `FlattenSeq` are
what their equations say (`AppliedIs`, `DelayIs`, `Flattening`).

`Fleet_proofs`: `TypeCorrect`, `EachReported` (`EveryRepositoryReported`), `ZeroMeansDone`
(`ExitZeroMeansDone`) and `PushedExact` (`PushedAsReturned`), for any repositories,
spellings, lists of them, plans and files. A report is judged by its results, which a run
gathers over many steps and several ways out. `IInv` looks at a run as a line: the
results, the repository in hand and the queue, in this order (`Line`); no step changes
the line, and it has each repository asked for once (`EachOnce`). `StageOK` says what a
run has at each step, `RestDeferred` that a deferral is followed by deferrals until the
same time, `WorkDone` that what is reported as reconciled fits or changed since, `FoundOK`
that the scan's finding still holds or the change was noted, and `PushedOK` that what a
branch carries passed `exactPathSet`. That `uniqueRepositories` yields a
sorted list with one spelling of each is shown without induction: an element's
place is the number of elements not above it (`Place`), which is a bijection.

`Lockfiles_proofs`: `TypeCorrect`, `WritesReproduced` (`Reproduced`), `WritesApproved`
(`ApprovedAndLocked`) and `LocalWorkKept` (`ReplacesCommitted`), for any repositories and
package managers, whatever the commands write and people edit. What is written is a
regeneration's result, which has only the files that are not as planned, so that two equal
results must imply two equal worktrees on every planned path. `CollectedOK` says so:
a collected file is the worktree's, a path not collected is as in the snapshot, the
manifests are the approved ones and no required lockfile is missing. `PlanOK` and
`WorktreesOK` say which of the locals exist when; `SourceOK`, that the checkout is as in the
snapshot, then file by file as the regenerations made it, and after the write as the
worktrees, wherever nobody edited since the last look or write (in a rollback: as in either);
`HistoryOK`,
that a path of the snapshot is what was committed, or was taken back for the validation
and edited again before the second look (`Settled`). The two exceptions of
`ReplacesCommitted` are this case and a file edited after its check, for which `SourceOK`
says nothing.

`Selection`'s `TypeOK` is proved and no longer part of a run.
Two definitions of `Fleet` are written so that the provers can reason about them, with the
same meaning: `Unique` is the sorted arrangement of a set, not the outcome of a
sorting operator, and `Reconciled` decides its cases one after the other.

### Only model-checked

- Liveness (`Converges`, `CallsReturn`, `ScanReturns`, `FleetConverges`, `EndsUnlessHeld`)
  and everything about fairness: the prover has no rules for `ENABLED`, which fairness
  is defined by.

## Not modelled

Versions, extraction, resolvers, the NuGet sanitizer, diffs and configuration turn one
text into another; a model of them would copy their parsers. Of the command line, flags
and printing are left out; setup action, schemas, workflows and release scripts have no
state of their own.

Of the modelled parts:

- more than 100 pages of pull requests (an error in the code), the clauses of
  `autoMergeDecision` (folded into `policy`), labels, titles and wording (the body keeps
  its plan and its auto-merge note);
- in `Lockfiles`, the steps within a phase but for `writePlans`, a crash while it writes
  (`SourceWrite` has it), the environment and arguments of commands,
  limits on sizes and output, and file kinds other than regular (an error in the code);
- in `SavedPlan`, several plans or checkouts, two commands at once, and loss of power
  over the plan file, whose directory `SavePlan` does not flush;
- in `Edits`, several manifests in one report, which are planned one by one, and the
  symbolic-link and identity checks of `planUpdates`.

What the models show of the code without being a property: a lockfile that both
regenerations leave as it was is not among the files written, so an edit made to it
after the last check goes unnoticed, unlike one made to a manifest; a planned lockfile
that exists in `HEAD` and is deleted without a commit counts as not existing
(`lockfiles.go:406`); `HEAD` may move between the validation and each of the worktrees,
which then differ from the checkout in files that are not planned; and two NuGet projects
that share a lockfile are refused after the worktree was made.

## Plan

1. All modules named above, and the theorems about them: done.
2. `autoMergeDecision` on reports of `Selection`, in place of the set `policy`.
3. `Versions`: `updateType` and `constraintAllowsLatest` against reference definitions
   over bounded inputs.

Runs that ask the same module two questions with one configuration are merged before
new ones are added, as in `publish`, `apply` and `select`, and the violated ones are kept
as long as the code is as it is.
