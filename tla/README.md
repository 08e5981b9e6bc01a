# Dockhand in TLA+

Dockhand is a Go service that runs on a Docker host.  Over HTTP it runs named
shell commands ("operations"), shows and upgrades containers, and tells a
Docked server where it is.  This directory holds TLA+ models of the parts of it
in which several goroutines, requests, processes or machines meet, TLC runs
that check them on small instances, and TLAPS proofs of what matters most.

Line numbers refer to the Go files under `src/`.

## 1. The system

| Component | State | Operations | Meets | Modelled in |
|---|---|---|---|---|
| Operations runner (`operations/runner.go`) | `ops`, `apps`, `active`, `cancels` and their app twins, under `mu` | `Run`, `RunApp`, `Cancel`, `CancelApp`, `Reload`, `ReloadApps` | handlers call it, it starts processes, writes history, streams output | `OperationRunner`, `OutputStream` |
| History (`operations/history.go`) | one SQLite table | `InsertRun`, `UpdateRun`, `Prune`, listings | runner writes, handlers read | `HistoryTable` |
| Version cache and refresh (`runner.go` 60-236, `versioncache.go`) | entries with a time, versions in `ops`/`apps` | `warmVersionCache`, `backgroundRefresh`, post-run detection | runs version commands, writes back to the file and to memory | `ConfigSync` |
| Config writer (`config/writer.go`) | `lastWriteTime`, `writeMu` | `UpdateAppVersion`, `UpdateOperationVersion`, `IsOwnWrite` | called by the refresh; read by the watcher | `ConfigSync` |
| Config watcher (`config/watcher.go`) | `lastMod` | `Watch` | stats the file every 2 s, calls `Reload`, `ReloadApps` | `ConfigSync` |
| Config loading (`config/config.go`) | the file | `Load`, `ClearEnrollmentToken`, `resolveAPIKey`, defaults, migration | start-up, watcher, POST /reload, enrollment | partly: `ConfigSync`, `Registration`, `SystemUpdates` |
| Enrollment (`enrollment/enrollment.go`) | `.registered`, the token in the file | `Run`, `register`, `ReEnroll` | Docked server, config file, heartbeat | `Registration` |
| Heartbeat (`heartbeat/heartbeat.go`) | position in its loop | `Start`, `run`, `sendHeartbeat` | Docked server, enrollment | `Registration` |
| Container upgrade (`docker/upgrade.go`) | containers of the daemon | `UpgradeContainer`, `upgradeStandalone`, `upgradeCompose` | daemon, the request's context | `ContainerUpgrade` (standalone) |
| System update checker (`operations/sysupdate.go`, `runner.go` 227-305) | per app: last attempt, last good count, a cache entry | `checkSystemUpdates`, `tryAcquire`, `markAttempt`, `recordSuccess`, `recordError`, `republishSystemUpdateCount` | the refresh, reloads and finished runs start checks; apt | `SystemUpdates` |
| System handlers (`handlers/system.go`) | the binary, the installation | `Update`, `Restart`, `Uninstall`, `Reload` | service manager, file system | `ServiceLifecycle`; `Reload` in `ConfigSync` |
| SSE streams (`sse/sse.go`) and captured output | one response, one buffer | `Send`, `Line`, `Done`, `truncate` | two drains and a handler write them | `OutputStream` |
| Docker client and retry loop (`docker/client.go`, `cmd/runner/main.go`) | an atomic pointer | `Get`, `Set`, `dockerRetryLoop` | every Docker handler | `ServiceLifecycle` |
| Docker queries, server, auth, health | none | one call each | - | no: stateless |

How they interact: a request runs in a goroutine of its own, in whose context
the command, the upgrade and every Docker call run; the context ends when the
client disconnects.  The runner's maps are shared by requests, the refresh, the
watcher and POST /reload.  The config file is shared by the operator, the
watcher, the writer and enrollment, and only the writer takes `writeMu`.  The
Docked server and the Docker daemon are other processes: calls to them fail,
get lost and arrive late.

What is hard: the order in which a run gives its name back (deferred function,
row, answer); the three reasons that end a command and the exit code recorded
of it; a reload, a write-back and an edit on one file in every order; own
writes told from others by a modification time; answers lost between a server
that has acted and a runner that does not know; a crash between any two steps;
a way back whose calls fail for the reason that made it necessary; two readers
and a slow client behind one command; checks that only an interval keeps apart;
a process that replaces or removes itself.
`PROJECT.json` lists these hazards at their lines, with the property for each.

### What makes each component correct

- Runner: one run per name; a name is held exactly by its run; a cancel reaches
  the run it is for; every run ends; what is recorded of it is what happened.
- History: a finished row is never altered, a run's own row waits for its
  outcome, the table stays bounded.
- Versions and config: no write-back loses another, and only the one under way
  may undo an edit; an edit reaches memory, unless it comes before the watcher
  starts, a write-back hides it or its load fails; the two directions come to
  rest and agree.
- Registration: the marker says the truth; a good token is kept; heartbeats go
  on, are spaced, and restore the server's key.
- Upgrade: the container is never lost, and a lone upgrade does what it reports.
- Output: the client gets each pipe's lines in order and then "done"; the
  history keeps the end of a merge of the two pipes, which is complete unless the
  command was killed or wrote a line above the scanner's limit (of which nobody
  is told).
- System updates: periodic checks do not overlap, and the number that is
  reported comes to be the host's.
- Service: the binary in place is a whole one, an uninstall comes to its end and
  leaves at most what a cut-off update has left, the service comes back with what
  was installed, and finds the Docker daemon.

## 2. Modules

    ExclusiveRuns  <--implements--  OperationRunner --EXTENDS--> HistoryTable
                                       ^      ^
                     MCOperationRunner |      | OperationRunnerProofs
                                              ^ RunnerOutcomeProofs
    ConfigSync         <- MCConfigSync,        ConfigSyncProofs
    Registration       <-                      RegistrationProofs
    ContainerUpgrade   <- MCContainerUpgrade,  ContainerUpgradeProofs
    MergedLog  <--implements--  OutputStream <- OutputStreamProofs
    SystemUpdates      <-                      SystemUpdatesProofs
    ServiceLifecycle   <- MCServiceLifecycle,  ServiceLifecycleProofs

A definition whose comment begins with "Mutated:" is no part of a
specification: it is a plausible bug in the definition that follows it.
`PROJECT.json` pairs each property with such a form, under which TLC finds the
property violated.

**HistoryTable** is `history.go` as operators on a set of rows: `Inserted`,
`Updated` and `Pruned` for the statements, `ListHistory` and its likes for what
the handlers answer.  A listing is the set of answers that SQLite may give, for
rows of the same second come in any order; a NULL output, which `rows.Scan`
(109) cannot put into a Go string, makes an answer an error.  Texts of output
are left out, their being NULL is not.

**OperationRunner** follows one request through `Run`/`RunApp` by `pc`:

| pc | code | what happens in the step from there |
|---|---|---|
| `idle` | handlers/operations.go 69-91, 72 | the handler checks that the name is configured |
| `lookup` | runner.go 345, 644-654 | `r.ops[name]`, 404 when a reload was faster |
| `admit` | 350-356 | the check and setting of `active` under `mu` |
| `insert` | 358-359 | `InsertRun`, whose error is dropped |
| `register` | 361-379 | context with its time limit, `cancels` |
| `start` | 389-421 | pipes and `cmd.Start`; a failure goes to `abort` |
| `drain` | 436-447 | `wg.Wait` for the two readers of the pipes |
| `wait` | 449-456 | `cmd.Wait` and the exit code |
| `update`, `prune` | 458-463 | the two statements, whose errors are dropped |
| `cleanup` | 381-387 | the deferred function, then the answer |

Around them: `CommandExit`, `HolderExit` (a descendant that held the pipes),
`Timeout`, `ClientGone`, `Delete` in its two steps (the handler's check of the
name, then `Cancel` under `mu`), `Notice` (os/exec's goroutine that kills the
command when the context has ended), `ReplaceConfig`, `Crash`, and `SetClock`
(the wall clock may go back).  The tables for operations and for apps follow
the same rules and are one table over all names.  A `nil` history database,
which makes the runner skip the statements, is not modelled: `main` ends when
it cannot open it.

**ExclusiveRuns** is the promise: a request is refused or holds its name till
it ends, a stop reaches the holder.  The mapping is `phase` and `stopping` at
the end of `OperationRunner`.

**ConfigSync** has the file's content (`file`), the two facts about its
modification time that the code tells apart (`changed`: not the watcher's
`lastMod`; `own`: the recorded write time), the maps, the cache, and the
positions of the refreshing goroutines (`work`), the loaders (`load`) and
`ClearEnrollmentToken` (`clearing`).  A write-back is read (under `writeMu`),
rename, record, then the assignment in memory; a load is the read of the file,
which may fail (`LoadFails`), `Reload`, `ReloadApps`.  The model begins when
`main` has loaded the file and made the runner of it; the watcher takes its first
look at the file in a step of its own (`Watch`), for `main` asks Docker and opens
the database before it starts it.  YAML is abstracted to the version of each name and the
presence of the token.

**Registration** has the server's knowledge (`token`, `known`), the disk
(`config`, `marker`), the enrollment goroutine and the heartbeat goroutine.  `Boot`
reads what the process uses of the configuration, which `main` loads once.  A
register request may be lost, its answer may be lost, and one that the client
gave up on may still arrive (`LateRegister`).  The server may forget, and a
proxy may answer 401.

**ContainerUpgrade** has the daemon's containers, by name and whether they run,
and each request's place in `upgradeStandalone`.  A call either succeeds, or
fails without effect (impossible, context cancelled, or the daemon's own
reasons), or takes effect while the context is cancelled, so that the client
sees an error.  A name is the list of clock readings appended to the first name.

**OutputStream** is the middle of `Run` and `RunApp` (410-459, 712-761), which
`OperationRunner` has as one step: the command writes lines to two pipes of
bounded size, each drain scans a line (`Scan`), sends it (`SendLine`, which
waits while the client's connection is full) and appends it to the buffer
(`Store`), in that order (428-434).  A line above the scanner's limit ends its
drain for good (`TooLong`); the pipe then fills and the command waits until it
is killed.  The handler sends "start" before and "done" after.  A line is known
by its pipe, number and width, which is what `truncate` goes by; the length of
a text is the number of its bytes.  What is kept is the lines and whether
`truncate` has put its marker of `MarkerWidth` bytes in front of them.  `alone` says
of an event whether another was written at the same time.

**MergedLog** is what the capture promises: each pipe's lines in their order,
and a log whose outcome is "whole" misses none.  The mapping
(`INSTANCE MergedLog WITH ...`) takes a line as merged when it is in the buffer,
and the outcome as "cut" when the command was killed or wrote a line that is too
long: those are all the ways to lose one.  The outcome is a word of the
specification.  The code has none for it: a reader of the history cannot tell an
output that a long line has cut short from a whole one.

**SystemUpdates** follows each checking goroutine by its `stage` through
`checkSystemUpdates` (236-277): `acquire` (`tryAcquire` or `markAttempt`),
`update` and `simulate` (the two apt commands with their limits), or `command`;
then `record`, `publish`, or `republish` and `set`.  A goroutine works with the
copy of the app that it made when it began.  What the host has is three
releases, mirror, index and installed; a count is the distance of the last two.
Time is a counter of the age of the last attempt, up to the longest interval
(`Longest`), and of the time that an apt command has taken.

**ServiceLifecycle** has files as inodes: `exe` and `tmp` name one each, an open
file descriptor (`fd`) keeps writing to the inode it was opened for, and `body`
is what an inode holds, a version or a part of one.  `stage` is each POST
/update's place, `un` the uninstall's; `pending` is a goroutine that is about to
call `systemctl restart`, `job` systemd's intention to start the unit.  The
process comes up (`Start`), runs the content of `exe`, pings Docker once and retries
if it must (unless `docker.enabled` is off: `DockerEnabled`), and goes down by
signal or crash, with all its goroutines; an update that was writing then is
`"cut"`, and its file stays.

## 3. Runs

| Run | Instance and bounds | What it shows |
|---|---|---|
| RunnerExclusion | 3 requests, 1 name, history of 1, clock 0..1 | exclusion, cancellation, bounded and stable history, and `ExclusiveRuns`' steps |
| RunnerOutcome | 2 requests, an operation and a persistent app operation, exits 0 and 3 | what is recorded of a run |
| RunnerLive | 2 requests, 1 name, 1 failing statement, fair | every run ends; the whole of `ExclusiveRuns` |
| ConfigWrites | 1 app, 2 refreshers, watcher, 1 edit, token to clear, 1 fault | a write-back is based on all others, an edit is undone by one at most; the watcher misses one in three ways only |
| ConfigSettles | 1 operation, 2 refreshers, watcher and POST /reload, versions 0..1, fair | reload and write-back come to rest and agree |
| Registration | 5 tries, 2 crashes, 2 losses, 2 faults, fair | marker, token, pace and progress |
| Upgrade | 2 upgrades, 2 clock readings, 2 refused calls | the container survives; the way back works |
| OutputStream | 2 pipes of 2 lines of widths 1, 3 and 4, both limits 3, a marker of 2, a pipe and a connection that hold 1, fair | order, completeness and end of a stream; what is kept; `MergedLog` |
| SystemUpdates | the ticker and one more goroutine, intervals unset or too short, default 3, minimum 2, a check of 1; 1 release, finished run, reload and failure; fair | no duplicate apt runs; the count settles |
| ServiceLifecycle | 2 updates to different versions, 1 restart, uninstall, crash and failing call, Docker enabled; fair | a whole binary, an uninstall that ends and what it leaves, a service that comes back |
| FindHistory, FindHiddenEdit | the smallest instance that shows it | what a text of the repository says and the code does not do (section 6) |

Why these bounds are enough.  Three requests are the least at which a run, one
that is refused and one that comes after it meet; each name's entries are
independent but for `Prune`, for which RunnerOutcome has two names.  Histories
of one row make `Prune` work at its limit in every run; two clock readings give
ties, and a clock that goes back.  Two write-backs are the least that can lose
each other's version, and the least of which one could undo an edit, or bring
the token back, that the other has met already (`WriteBackIsCurrent` lets `Edit`
and `ClearWrite` overtake the one under way, and nothing else); one edit meets
every one of their stages; the versions 0 and 1 give a stale and a fresh
detection.  Five tries is the code's `maxEnrollRetries`, and two crashes hit both
the window before and the one after the marker.  Two upgrades interleave in all
stages; two refused calls are the failure and a failure of the way
back.  `ServiceEndsUp` is a statement about two upgrades only: with three, one
may start again, on its way back, the very container that another is about to
remove, and none runs.  Lines of 1, 3 and 4 against limits of 3 are one that
fits, one that fills the limit and one that the scanner refuses; two per pipe
order and overflow the capture; a marker of 2 is wider than the least that is
dropped before it, as the code's 15 bytes are; a pipe and a connection of one make every writer
wait.  An interval below the minimum and the default are the two cases of
`RefreshDuration` that differ (one above the minimum behaves as the default
does); a check lasts less than the minimum, as 7 minutes are less than 15; the
ticker and one goroutine are the pair that could overlap, each in the role of
the other.  Two updates with different versions are the least that can mix their
downloads or restart into each other; one failure and one crash hit each of
their stages and each of the uninstall's.

Every bound is a constant (`MaxClock`, `MaxDbFaults`, `MaxEdits`, `MaxVersion`,
`MaxFaults`, `MaxCrashes`, `MaxLosses`, `MaxHistory`, `MaxLines`, `MaxReleases`,
`MaxRuns`, `MaxReloads`, `MaxRestarts`, `Longest`; the sets of requests and goroutines), stands in a guard, and is named in the module's header.

Symmetry is used only where the members of a set are interchangeable and no
liveness is checked.

Deadlock is not checked where the system really stops: in Registration the
goroutines end (enrollment is over, a crash was the last one that the bound
allows), in Upgrade and OutputStream the requests do, and in SystemUpdates an app
may have no check, after which only the bounded events remain.  It is checked in
all others, where the environment (reloads, timers, the Docker daemon) always
has a step.

### Fairness

- `OperationRunner!FairSpec`: a goroutine that can go on does (`Body`), timers
  fire (`Timeout`) and os/exec's watcher runs (`Notice`): the Go scheduler and
  runtime give this.  Not fair: the command's own end, requests, cancels, the
  client's departure, reloads, crashes.  `TidySpec` adds that what a command
  leaves behind closes the pipes in the end; that is a property of the commands
  and not of the code (section 6 says what happens without it).
- `ConfigSync!FairSpec`: tickers tick, goroutines and loaders run.  Each due
  version has a goroutine of its own in the code; as the model's few refreshers
  serve all of them, taking a name is strongly fair.  The operator's edits, runs
  and POST /reload are not fair.
- `Registration!FairSpec`: goroutines run, their timeouts fire, the service
  manager starts the service.  Of the heartbeats and re-enrollments that are
  sent again and again, not all are lost: strong fairness of the two answers,
  an assumption about the network.
- `ContainerUpgrade` has no liveness property.
- `OutputStream!Spec`: the drains, `Run` and its handler go on, the time limit
  ends the command, and a client that stays reads.  The last is an assumption
  about the client: the server sets no `WriteTimeout`, and with a client that
  neither reads nor leaves the run outlasts its limit.
- `SystemUpdates!FairSpec`: time passes, the ticker ticks, goroutines run.  A
  bounded number of checks fail; expiry, runs, reloads and releases are not fair.
- `ServiceLifecycle!FairSpec`: goroutines run, systemd does what it was asked to
  (start, and end a service that is stopping), the retry loop's timer fires.
  Requests, crashes and the Docker daemon's changes are not fair; the daemon
  must stay up for the loop to find it.

## 4. Proofs

TLAPS proves these for all values of the constants that the modules' named
assumptions allow.

**OperationRunnerProofs.**  `TypeCorrect`; then `ExclusionInv`, inductive: at
most one request per name is admitted (`OneHolder`), the names in `active` are
those of admitted requests (`ActiveIsHeld`), `cancels` holds the registered
request of each name (`CancelIsHolders`), and only an admitted request has a
process (`ProcessIsHolders`).  `OneRunPerName` alone is not inductive: a
request that was admitted and has no process yet would get one beside another.
Each action either moves a goroutine without crossing the border of `Admitted`
(lemma `QuietMove`) or is one of those that do: `Admit`, `Register`,
`StartFails`, `Cleanup`, `Crash`.  `OneRun`, `CancelReaches` and
`ActiveMatches` follow.

**RunnerOutcomeProofs.**  `LocalInv` adds what a process' state says of the
stage of its request.  `RefinesExclusiveRuns`: initial states map to initial
states, `Admit` to `Begin`, refusals to `Refuse`, the three ways a context ends
to `Stop`, `Cleanup` to `End`, `Crash` to `Restart`, all else to a stutter.
`RecordInv` adds that row ids are below `nextId` and unique, which is what makes
an `UPDATE ... WHERE id` touch one row, and that a finished row of a run holds
its exit code; from it follow `RowsWait`, `SuccessIsTrue`, `PersistentExit`, and
`HistoryStays`, an action property.  `ReturnedFinished` has an invariant of its
own, `RowsFinished`: the stages after the update are the ones at which the row
is finished.  `TableStaysBounded` has `TableBounded`: for each name, the rows
are at most `MaxHistory`, one for each failed statement, and one for each run
that has a row and has not pruned.  An insert adds a row and such a run; a
`Prune` that works leaves `MaxHistory` rows and no more than the others' runs
and old faults allow; one that fails takes its run away and adds a fault.

**ConfigSyncProofs.**  `ConfigTypes`; `WriteBacksAreCurrent`, an action property,
with the invariant that one refresher at a time is between reading and recording
(`writeMu`, `OneWriteBack`): a rename of another's is then never what makes a
write-back outdated, and of those that the operator or `ClearEnrollmentToken`
overtakes there is one.  `TokenStaysGone`: a token that is neither in the file
nor in the write-back under way never comes back, though `ClearEnrollmentToken`
does not take `writeMu` (config.go:417); what it has read itself is without the
token (`ClearsIt`).  `EditsAreLoaded`, an action property: a watcher at
rest, with no change to look at, comes to be `Behind` the file by an edit before
it started, by one that a write-back hides, or by a load that fails, and in no
other way.  `LoadInv` says what a load under way has in its buffer and what of it
has been put into the maps; `RestCases` and `WorkCases` name the steps that bring
the watcher to rest and that leave it there.  It assumes that the watcher alone
loads the file: with POST /reload beside it an older content may win.  `AgreementStays` is the safety part of `VersionsSettle`:
when cache, maps, file and every buffer under way (of refreshers, loaders and
`ClearEnrollmentToken`) hold the installed version of a name or none of it
(`Agreed`), what is reported is right, and every step keeps that but an edit and
a change of what is installed.  Memory, cache and file alone would not do: a
detection, a write-back or a load that began earlier may carry an older version.

**RegistrationProofs.**  `TypeCorrect`; `MarkerHolds` and `TokenHolds` from the
invariant that a runner past the request, a marker or a cleared token imply that
the token was spent on a registration; `PaceHolds` from `PaceInv`, which bounds
a burst of heartbeats by the losses, stage by stage.

**ContainerUpgradeProofs.**  `TypesCorrect`: the daemon's rules (no two
containers of one name, none that runs and is not there) survive every call,
also one whose answer is lost.  `OneIsLeft`, for any number of requests, counts:
a request removes at most one container, and only between having created its own
and its end, so there is always one more than there are requests that may still
remove (`RemainInv`).  Which container each of them removes does not matter;
`RemoveOld` takes whatever has the backup's name.  `UpgradeIsTrue` and
`OneFailureIsUndone` are about a request that meets no other; `AloneInv` says
for each stage which of the two containers has which name and which runs
(`Progress`), and on the way back that the one fault so far is spent (`WayBack`),
so that the calls that undo it are possible and are not refused.

`TwoEndUp` is about two requests whose clients stay and a daemon that refuses
nothing.  That a container runs in the end is far from inductive; `EndsInv` has
two forms.  Either both requests replace the first container (`Apart`): as soon
as one has started its own (`Up`), one container that was started is there to
stay (`Kept`).  Each would be removed only by the other, by a backup name, and a
backup name is longer than the name under which its request puts its own
container (`BackupLonger`, `NameNotLonger`): not both can have the other's.  And
while none is up, the first container runs or some request is yet to start or
restart one (`NoneUp`).  Or one request found the container that the other had
made (`Chain`): it takes it from there, and what the other may still remove or
rename by name is not called `Original`.  Every call of a request is first put
into its effect on the containers (`Outcome`), without the refusals and
failures, which `Obeyed` rules out (`ObeyedStep`).  The theorem has `AtMostTwo`
as its hypothesis, because the statement is false of three (section 3).

**OutputStreamProofs.**  `OutputInv`: a drain has read no more than was written
(`Reading`); the stages of `Run`, the command and the drains agree, and a drain
ends for one of two reasons (`Phases`); the last event is "done" and is sent at
the end (`Ending`); what was sent and stored of a pipe is what was scanned, give
or take the line in hand (`Counted`).  From it `TypesCorrect`, `DoneComesLast`,
and `OutputIsMerged`: `Store` maps to `Merge`, `Write` to `Write`, `Save` to
`KeepWhole` or `CutShort`, all else to a stutter, and once the output is kept no
pipe is written to.  `TruncateKeepsTail` is about `truncate` alone, for every
sequence of lines and every limit: lines that begin within the limit are a
suffix (`UpwardClosed`), the bytes of two sets of lines add up (`BytesAdd`), and
so what is kept fits and misses the limit by at most a line.  `KeptIsTheTail`
adds that nothing is captured after the output was cut, and that the marker says
whether it was.  The limit is one of the lines: the marker comes on top of it
(section 6).

**SystemUpdatesProofs.**  `NoDuplicates`: a check that is at apt has noted its
attempt, so the last attempt is no older than the time that it has spent there
(`AttemptNoted`), and no check lasts as long as any interval that `Load` lets
through (`RefreshIsLong`): `TryAcquire` refuses everyone else until it has
ended.  This needs that a check has spent nothing before apt (`FreshUnlessApt`).
`RightCountStays` is the safety part of `CountSettles`: when the tracker's count
is right and no check is about to record another (`CountIsRight`), no failure,
late publication, expired entry or reload makes what is reported wrong, for
`SystemUpdateCount` asks the tracker before the cache; only a change of the
host's packages does.

**ServiceLifecycleProofs.**  `BinaryStaysWhole`: until two requests have been at
the binary at once, one writes alone, to a file that is not the binary, and
renames what it has verified (`ServiceInv`); an update that has not opened the
file has made no inode yet (`Fresh`).  `UninstallLeavesNothing` is the safety
part of `UninstallFinishes`: each stage of the removal keeps what the stages
before it have removed, since nothing but an update puts a file back, and an
update that does so overlaps; and a download that is there has an update that
makes it, or that the process took along (`TmpHasMaker`).

Only model-checked:

- all liveness (`WatcherRests`, `VersionsSettle`, `HeartbeatGoesOn`,
  `KeyIsRestored`, `StreamEnds`, `CountSettles`, `UninstallFinishes`,
  `ComesBack`) and the fair part of `ImplementsExclusiveRuns`: fairness and
  ENABLED are out of the prover's reach.  Of some the safety part is proved
  (`AgreementStays`, `RightCountStays`, `UninstallLeavesNothing`);
- `EveryEditIsLoaded` and `HistoryAnswers`, which the code violates (section 6).

Every invariant and every action property of the passing runs is proved.

## 5. What the models leave out

- Data: texts of output, colours, images, networks, URLs, what apt prints.
- `upgradeCompose`: two `docker compose` commands, whose work, and whose way back,
  are another program's; containers run with `--rm`.
- Defaults, validation and the migration of legacy operations in `Load`: pure
  functions of one file's content.
- Latest versions (`version_source`), which are detected and cached as current
  ones are and written back nowhere.
- apt commands whose descendants outlast them: a check is taken to end at its
  limit, though `cmd.Output` waits for whoever holds the pipe, as `Run` does.
- The start of the host (an enabled unit), and a second uninstall.
- Loss of power with unsynced files, except for the truncating write of
  `ClearEnrollmentToken`, which `Registration` cuts short.
- Go's memory model: each access under a mutex is a step; of the reads that are
  not under it, the look-up in `Run` (345) is a step of its own, begun and ended.
- The requests' authentication, a comparison with a constant.

## 6. Where code and text part

| Run | Text | Code |
|---|---|---|
| FindHistory | README.md:126 "Recent run history across all operations" | a row without output makes the listing fail (history.go:109) |
| FindHiddenEdit | watcher.go:12 "unless the change was caused by our own version write-back" | an edit beside a write-back is taken for it (writer.go:106, watcher.go:35) |

Six more are reached by the models and shown by a small change of a run:

- runner.go:369 says of a persistent operation "It then runs to completion or
  timeout".  `wg.Wait` (447) outlasts the limit while a descendant of the
  command holds its pipes, for `cmd.WaitDelay` is not set: with `FairSpec` for
  `TidySpec`, RunnerLive is violated by a run that never gives its name back.
- heartbeat.go:59 says "will start after enrollment".  The marker is looked for
  once, at the start (58): Registration is violated with `EnrolledBeats`.
- upgrade.go:145 says "(rolled back)".  The way back runs in the context whose
  cancellation made it necessary, and fails unseen (143): Upgrade is violated
  with `RolledBackIsTrue`.
- main.go:77 says "Watch config file — reload operations/apps automatically on
  save".  `main` loads the file at main.go:28, asks Docker for up to 5 s and opens
  the database, and `Watch` then takes the file's time for that of what was loaded
  (watcher.go:20): a save in between is not loaded until the file changes again.
  ConfigWrites is violated with `WatchesWhatWasLoaded`: a save, then `Watch`.
- runner.go:459 says "cap stored output at 64 KiB".  `truncate` drops the rest of
  the line that it cuts into and puts its marker of 15 bytes in front (850); where
  that rest is shorter, the stored text is up to 14 bytes longer than 64 KiB.
  OutputStream is violated with `StoredFits`.
- system.go:163 says of Uninstall that it "removes all dockhand files".  A crash
  or restart during a download leaves `<binary>.update`, which no later start
  removes and no command of Uninstall names (191-198).  ServiceLifecycle is
  violated with `AllRemoved`: an update, a crash, a start and an uninstall whose
  every command works.

What the passing runs say of the last three names the exception:
`FileIsLoaded` the edit before the watcher starts, `KeptIsTail` the marker, and
`UninstallFinishes` the file of an update that was cut off.

Met on the way and without a run: the watcher notes a change before it loads it,
so that a load that fails is not tried again (watcher.go:32, main.go:80;
`LoadFails`); system.go:58 says that an update "atomically
replaces the current binary", which two updates at once do not (they share
`<binary>.update`; `BinaryIsWhole` excepts them by `overlap`); a restart that was
asked for just before cuts an uninstall (system.go:165 promises otherwise only
for its own stop); the events of stdout and stderr may run into each other on the
stream (`alone`); README.md:130 describes POST /reload as
reloading operations, the handler reloads apps as well; comments speak of a
4-minute warm-up (sysupdate.go:132) and a 5-minute TTL (runner.go:61) where the
code has 15 and 20 minutes; a run in flight whose operation a reload removed
cannot be cancelled (handlers/operations.go:98), though Reload's comment says
active runs are unaffected; `Run` reads `r.ops` without the lock (345).

## 7. Plan

Done, in this order: HistoryTable and OperationRunner with ExclusiveRuns (the
core: what the service is for), ConfigSync (the state all of it shares),
Registration (the only distributed part), ContainerUpgrade (the only part that
can destroy something); then OutputStream with MergedLog, SystemUpdates and
ServiceLifecycle.

The proofs followed in the same order: the runner's exclusion, refinement and
records, ConfigSync, Registration; then every other safety property that the runs
check, `ServiceEndsUp` last.

Next:

1. An abstract specification for ConfigSync: a register that operator and
   detectors write atomically, but for the one write-back that `WriteBackIsCurrent`
   lets the operator overtake, and a copy that catches up.  `WriteBacksAreCurrent`,
   `EditsAreLoaded` and `AgreementStays` are parts of it.
2. `upgradeCompose`, should the service come to take a part in it: today it is
   two commands of another program.

