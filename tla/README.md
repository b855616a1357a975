# Verification of DevBack

DevBack copies a Git repository, with the files Git ignores, into a directory
of snapshots, and rotates old snapshots away.  It runs from Git hooks, from
several terminals at once, and is killed like any command line program; what it
must never do is spoil a snapshot it has called complete, or call complete what
is not.  The modules here model the parts of the program on which that depends,
at the granularity of single file-system calls, and state what they promise.

References such as `backup.go:1239` are to `internal/usecase/`, `lock.go` is
`internal/adapters/lock/lock.go`, `main.go` is `cmd/app/main.go`.

    tlc -config MCBackupLock_calm.cfg MCBackupLock
    tlapm BackupLockProofs.tla

## 1. The system

### Components

| Component | State | Operations | What is hard about it | What makes it correct |
|---|---|---|---|---|
| Lock adapter (`lock.go`) | directory `.backup.lock`, its file `info` (pid, host, start time, stamp) | `AcquireLock`, `ReleaseLock`, `RefreshLock` | mkdir and the writing of `info` are two steps; stale locks are broken with `RemoveAll`; crashes at any call | exclusion; the remains of a crash never block a later run |
| Backup command (`run.go`) | lock, refresh goroutine | `Backup`, `acquireBackupLock`, `startLockRefresh`; dry runs take no lock | a refresh is cancelled and not waited for | every return gives the lock back |
| Snapshot life cycle (`backup.go:1220-1329`) | `<date>/<time>` directories, markers `.reserve`, `.partial`, `.done` | `createUniqueSnapshotDir`, `copyRepoSnapshot`, the deferred cleanup | signals, crashes and failures between any two steps | `.done` only on complete copies; nothing else is left behind by a run that returns |
| Copy of `.git` (`backup.go:469-563`) | the copy, `copyErrors` | `copyDirRecursive`, `copyDirEntry` | git works in the repository meanwhile | the copy is a repository |
| Copy of the ignored files (`backup.go:565-716`) | channel, wait group, mutex-protected errors | `copySelectedFiles`, its workers | a signal against sends, selects and the final check | complete or reported; it returns |
| Rotation (`backup.go:724-985`) | list of snapshots, age, count, size | `rotateRepo`, three `apply...` loops | stale lists, boundaries of the limits, dry runs | only what the limits ask for goes, oldest first |
| Status (`status.go`) | none | `scanBackups`, `compareHooks`, `deriveRepoKeyStatus` | it reads while a rotation removes; it derives the key by code of its own | a size it reports is whole, unless a rotation is removing a snapshot or left a part of one; its key is that of the backups |
| Repository key (`backup.go:235-379`) | git config at three levels | `deriveRepoKey` in four styles | worktrees, slugs, fallbacks | backups of two directories do not share one unasked |
| Init (`init.go`) | config file and its backups, templates, `init.templateDir` | write the config, the templates, the git config | a failure or a second init between moving the old config away and writing the new one | the owner's config is never lost |
| Setup (`setup.go`) | hook files and their backups, git config, `.devbackignore` | install or merge hooks, enable, ignore file, slug | a crash between moving a hook and writing its wrapper; two setups | the user's hook is still run and never lost; a success means that every hook runs devback |
| Hooks and debounce (`cmd/app/hook*.go`) | stamp of the last post-rewrite backup and its temporary file | preflight, three hooks | git runs on around them; two hooks at once; failed and refused backups | a run that succeeds saved its change; a rebase is held off only after a backup |
| Path filter (`backup.go:381-467`) | patterns | `shouldSkip` | string matching | - |
| Command line (`main.go`, `exitcodes.go`) | signal context | `runMain`, exit codes | the error of a cancelled context changes its type on the way up | - |
| Adapters for git, files, config, templates, process, notification, logging | none | calls to the outside | they ignore the context, except git's | - |

### Interaction

`runMain` makes a context that SIGINT and SIGTERM cancel and passes it down.
`Backup` takes the lock of the repository's backup directory, starts the
refresh goroutine and calls `handleBackupFlow`, which reserves a directory,
writes `.partial`, copies `.git`, asks git for the ignored files, copies these
through the pool of workers, exchanges `.partial` for `.done`, and rotates.
When it returns without success, a deferred function removes the directory.
The lock is then removed.  Processes share nothing but the file system: the lock
directory, the tree of snapshots, the stamp, and what `init` and `setup` write,
which no lock protects.  `init` writes the config and the templates, `setup`
copies the templates to the hooks of a repository, git runs the hooks, and each
of them is a run of `devback hook`, which asks for the lock like any other.
Within a process the main goroutine shares the channel, the wait group and
`copyState` with the workers, and the info file with the refresh goroutine.

## 2. The modules

| Module | Models | Extends or uses |
|---|---|---|
| `ExclusiveLock` | what a run expects of the lock (abstract) | |
| `BackupLock` | the lock adapter and the refresh goroutine, one file-system call per step | refines `ExclusiveLock` |
| `BackupRun` | the snapshot life cycle of several processes, rotation by count, cleanup | composed with `ExclusiveLock` |
| `CopyPool` | `copySelectedFiles` and its workers | |
| `Rotation` | `rotateRepo` with all three limits, overlapping and dry, and `scanBackups` beside it | |
| `GitCopy` | `copyDirRecursive` over a `.git` that git is changing | |
| `InitConfig` | `devback init` | |
| `HookSetup` | `devback setup` | extends `InitConfig` |
| `RepoKey` | what is read of the git config, and the two derivations of the key (no state) | |
| `BackupHooks` | git, its hooks, `devback hook`, debounce, runs by hand | extends `HookSetup` and `RepoKey`, composed with `ExclusiveLock` |
| `BackupLockProofs`, `CopyPoolProofs`, `BackupRunProofs`, `SteadyRunProofs`, `RotationProofs`, `GitCopyProofs`, `BackupHooksProofs` | theorems | the module they are named after (`SteadyRunProofs`: `BackupRun`) |
| `Induction` | lemmas about data: least elements, induction over numbers and over the subsets of a finite set, sums, iterates | used by four of them |
| `MC...` | instances for TLC | the module they are named after |

Definitions introduced by "Mistake:" are plausible wrong versions of the
definition after them.  Nothing refers to them; put in its place, each makes TLC
report the property it is meant for, which shows that the property can fail.

**`ExclusiveLock`.**  `status[p]` is what process `p` has been told.  A request
is granted only when nobody holds the lock; "busy" is an honest answer: another
process holds it, or one of another host died with it.  `BackupLock` has to
implement this; `BackupRun` and `BackupHooks` use its actions as they are.  A
lock that could not be given back is "kept": its process goes on without it
(`run.go:300` ignores the error), others may be told "busy" because of it, and
when that process has exited it is a lock like that of a process that died.

**`BackupLock`.**  The disk is `dir` (no directory, no info file, an empty,
garbled or readable one), the process the file names, and whether its stamp is
older than 24 hours.  `os.WriteFile` is an open that truncates and a write
through the descriptor, which goes nowhere when the file was unlinked;
`os.RemoveAll` is a try, an unlink and an rmdir.  The program counter of a
process walks through `AcquireLock` (`Mkdir`, `ReadInfo`, `Judge`, `Break...`,
`MkdirAgain`, `Create...`), holds, and walks through `ReleaseLock`; `rpc` is its
refresh goroutine.  `Kill` may fall between any two calls; any call of an
acquisition may fail (`AcquireError`, and `CloseError` after the whole file has
been written), and any of a release (`ReleaseFails`).  The places "kept" and
"left" are those of a process, running or gone, whose `info` may have stayed
behind: it names somebody who has no backup to protect.  What the environment
may do beyond that is named in `Hazards`, so that a property can be stated for a
quiet environment and for a hostile one.  `Alive` stands for the comparison of
pid, start time and start ticks; that a pid can be reused within one clock tick
is left out.

**`BackupRun`.**  `snap[name]` holds the markers of a snapshot directory and how
far its copy has come, `dates` the date directories.  The removal of a directory
takes two steps (`Tear`, then gone) and that of its date directory two more
(read and found empty, then `RemoveAll`), since another process may act in
between and a crash may fall there.  `faults` is what may go wrong in a
behaviour, one of the `Scenarios`: kills, failing writes, removals that stop
half-way (their errors are ignored), a lock that fails to exclude, a clock set
back; a release fails when removals do.  Dry runs write nothing and are in
`Rotation`.  `Suffixes` stands for the 100 suffixes tried.  The branch of
`handleBackupFlow` for a partial success (`backup.go:1289`) is not there,
because it cannot be reached: every caller of `recordCopyError` turns the
recorded errors into a returned one.

**`CopyPool`.**  Paths are numbered in the order sent, so that the channel is
the interval `received+1 .. sent`.  `Send` waits for room and for nothing else,
as `jobs <- p` does; `Receive` and `Leave` are the two cases of the select,
either of which is taken when both are ready.  `Return` is `wg.Wait`, the
recorded error, and the check of the context that follows it.

**`Rotation`.**  Each rotation lists, looks up `.done` in each directory and
goes through the three loops, one snapshot per step, with the program's own
variables.  What it decides to remove is its `victim`, which then goes file by
file: `Tear` takes a part (`kb` is what is left in the directory) and with it,
or not, `.done`; `Gone` is the end of it; `RemoveFails` stops anywhere before,
and leaves in `stuck` what the rotation does not count any more.  Everybody else
may act between these steps and see a part.  `disturbed` remembers the rotations
and scans whose list holds a snapshot that another one has begun to remove,
`verdict` is the log, which is the whole outcome of a dry run.  A status scan
(`scans`) lists in the same way, then measures each snapshot and stats it, two
calls between which it may go.  A walk is one step, because what it finds of a
directory that is losing files is what was there at some moment of it; and a
failing walk counts as what it has found, which here is all there is.  Scans
that are interrupted, and a size margin larger than the limit, are left out.

**`GitCopy`.**  Of `.git` it has the loose objects, the packs, `packed-refs` and
`refs/heads`; `filepath.Walk` visits them in this order and lists each directory
once.  Git itself is external: a commit writes objects and then a ref; a
repacking writes a pack and then removes what it holds; packing the refs
rewrites `packed-refs` and then removes equal refs.  A file that was listed and
is gone is a recorded error.  Object `n` stands for a commit with everything it
adds, so that its history is `1 .. n`.

**`InitConfig`.**  `config` is `config.toml`, `bak` its backups by the second in
their names, `template` the four template files.  Each write is an open that
truncates and a write; `saving` holds the processes with the file open, whose
content goes where the file went when another init has moved it away meanwhile.
The variables of a process (`pc` to `result`) serve the commands of all modules
that extend this one: a slot of `Proc` runs one command after the other.
`InitFails` is a failing call (a directory that cannot be made ends init like a
template that cannot be opened); `cuts` remembers which kind of file a failure
or a kill left half-written, so that a property can say what happens without
them.

**`HookSetup`.**  A hook file is absent, empty, the user's, the template (before
or after it can be executed), or the wrapper of a backup with a number.  A copy
is an open, a write, the mode of the template, which is executable or not, and
then the `chmod` that makes sure.  `Called` follows
what the shell runs: the wrapper, what the wrapper calls (`Callee`), and so on.
`armed` remembers that a setup that installs hooks has succeeded; the one of a
worktree installs none (`WithHooks`).
`reserveHookBackup` only looks for a free name, so that another setup can take
it before the rename.  A linked worktree uses the hooks of its main repository
and gets a slug of its own in two steps.

**`RepoKey`.**  A git config is a value for each of three levels.  A key is the
sequence of its path elements; sanitizing and hashing are taken to keep
different values different.

**`BackupHooks`.**  Git makes a change (`head`) and runs a hook; behind an amend
it runs `post-rewrite` after `post-commit`, behind a rebase it removes its state
directory after `post-rewrite`, or before, depending on the kind of rebase
(`scene.cleansFirst`).  `devback hook` asks whether the repository is enabled
and the config usable, whether a rebase is going on, whether the debounce holds,
takes the lock, copies what the repository is at that time (`copied`), and
writes the stamp through its temporary file, of which all hooks share the name:
it is truncated, written and renamed in three steps.  Whether a commit belongs
to a rebase is asked of the state directory and of `GIT_REFLOG_ACTION`.  The run
itself is three steps here: `BackupRun` has its details.  A clock unit is a
minute for the debounce and a second for the names of config backups; only the
order of readings and their equality matter to either.  `scene` says from which
installation a behaviour starts and how many commands, faults and ticks it may
take.

## 3. What TLC checks

| Run | Instance | Shows |
|---|---|---|
| `lock_calm` | 3 processes on 2 hosts, no hazards | Lock calls that do not overlap: `Mutex`, `NeverCollides` (no remains make a later run fail), and the refinement of `ExclusiveLock`, across kills and failing calls at every step, of a release too, and stamps that get old. |
| `lock_hazards` | 3 processes, every hazard | `OnlyRobbedOverlap`: two backups overlap only after a third party removed the directory of one; the exclusive mkdir is never won twice. |
| `lock_overlap` | as above, overlapping calls only | Violation of `Mutex`, see findings. |
| `pool` | 3 workers, 5 paths, capacity 2, a signal | A copy reported complete is complete, every received path is copied or recorded, errors are not hidden by a signal, no write after the return; it returns or is in the one state in which it hangs. |
| `pool_signal` | 2 workers | Violation of `Returns`. |
| `run_crash` | 3 processes, 3 readings on 2 days, keep 1, kills and failing writes; 2 of them at 2 readings with every fault | `.done` means complete or in removal; a result that is reported is true of the disk; only kills leave unfinished directories; the count is bounded after a success; nobody removes what another one writes; with every fault, the reservation is never won twice. |
| `rotation` | 2 rotations or scans, 3 snapshots, 3 sets of limits, removals file by file that may stop half-way | The newest are kept under stale lists, what is on disk afterwards is within the limits but for what could not be removed, nothing more than needed goes, dry runs of a list predict real ones of it, a scan reports the whole unless it meets a removal or its remains, and then between what is left and the whole. |
| `gitcopy` | 3 objects, 2 branches | A copy that succeeds has every object the repository began with, however a repacking moves them; branches that existed (no packing of refs); their history (no commit). |
| `git_commit` | a commit | Violation of `CopyIsWhole`. |
| `client` | 2 processes, 6 scenes (below) | The owner's config and the user's hooks survive inits and setups beside each other, failing or killed; after successes devback is armed; a dry run writes nothing; a run that succeeds saved its change; the debounce is earned; status and backup agree on the key, and keys are not shared unasked. |
| `rebase` | 1 rebase | Violation of `RebaseIsBackedUp`. |
| `advice` | 1 setup of an installation with a merged hook | Violation of `AdviceKeepsUserHook`. |

Bounds.  The lock needs three processes: a holder or its remains, one that
breaks it and one that comes in between.  Two hosts make a lock that cannot be
judged.  In the pool, five paths over a channel of two places fill it, block the
main goroutine and leave paths unsent; the third worker lets one report an error
while one copies and one leaves.  In `BackupRun` the third run rotates what the
first two left, on the same day and on another one; two suffixes show both a
collision and running out.  With every fault at once, the constraint `Bound`
keeps to two processes and two readings: equal readings, a lock held by both and
a date directory removed under a writer need no more.  Three snapshots with
limits of one and two give an excess of one and two, and removals by age, count
and size in one rotation.  A snapshot of two KB can be whole, in part or empty.
The constraint `Bound` of `MCRotation` fixes what a set of limits does not look
at (ages without keep_days, sizes without a size limit), and under all three
limits takes snapshots finished in the order of their names and of one size.
`rotation` has 11 million states and `client` 2 million, the largest.  In
`GitCopy` two branches are needed for one to move while another one is copied;
one repacking is enough since a second one finds the same kinds of file.

The scenes of `client` are: two inits, a fault and a tick, on a machine without
devback or with an edited config; an init and a setup beside each other with a
hook of the user; two setups and a fault; a setup and a commit; three git or
manual commands, with a fault and a tick, where rebases clean up first; two such
commands where they do not.  Two processes are enough to overlap, and a process
may run several commands in sequence; three commands let one hold the lock, one
be refused and one come after; two clock readings show equality and difference,
and two backup names show a taken name and running out.

The cfg files say `CHECK_DEADLOCK FALSE` only for the pool, where stopping is
the finding, and for the runs of `BackupHooks`, where the budget is used up in
the end.  Everywhere else the end of all processes is an explicit stutter.

Fairness.  Only `CopyPool` has any: the main goroutine and each worker are run
when they can run (the Go scheduler) and file-system calls return.  There is
none for a particular case of the select, and none for the signal.

Symmetry.  Interchangeable processes, rotations and branches are permuted in
runs of safety properties; the runs with refinement or liveness use none.
`DryRunsWriteNothing` is a property of single steps that names no process.

## 4. What is proved

TLAPS checks the following for all values of the constants.  The proofs need the
named assumptions of the modules only (`ProcAssumption`: `NoProc` is no process;
`PathsAssumption`, `CapacityAssumption`: positive numbers; `TimesAssumption`: a
finite set of numbers; and so on), and the theorems marked *calm* the further
assumption `Hazards = {}`.

Lock (`BackupLockProofs`):

* `TypeCorrect`: `TypeOK`.  It is inductive by itself.
* `OverlapNeedsRobbery`: `OnlyRobbedOverlap` under all hazards.  It is not
  inductive, since it says nothing of who made the directory; `MakerInv` is: a
  process that has made the directory, has not given it up and was not robbed is
  the one `maker` names, and the directory exists.  Two owners that were not
  robbed would both be `maker`.
* `CalmMutex`, `CalmNeverCollides` (*calm*): a step of `AcquireLock` relies on
  what an earlier one saw, so the inductive invariant `CalmInv` says what may be
  relied on in between: one call is in progress (`OneCall`), one process owns
  the lock (`OneOwner`); a readable file names a process that has the lock or
  was killed with it (`InfoInv`); while a process breaks a lock nobody has it
  (`BreakInv`); what is on disk at each step of a call (`CallInv`); the file of
  the owner names it unless the owner is just rewriting it (`HeldInv`); and a
  refresh works for its own process on its own file (`RefreshInv`).  A file
  that a failed release, or an acquisition that failed late, has left names a
  process at "kept" or "left" and counts for `InfoInv` like that of a killed one.
* `CalmRefinement` (*calm*): `BackupLock` implements `ExclusiveLock`.  Every step
  is a step of the abstract lock or leaves `statusOf` alone; `CalmInv` gives the
  guard of `Grant` and the witness of `Refuse`: the process that the file names
  has the lock, has kept it, or is gone.  A release that fails is the step `Keep`.

Pool (`CopyPoolProofs`):

* `PoolTypeCorrect`, `CompleteCopies`, `AllAccountedFor`, `ErrorsReported`,
  `QuietAfterReturn`: types and the safety properties, for any number of paths,
  workers and places.  The inductive invariant `PoolInv` says that each path
  received is in exactly one of: the hands of one worker, the copy, the list of
  errors; that a worker is gone only after a signal or when the closed channel
  is empty; and that an outcome is set only when all are gone.

Snapshots (`BackupRunProofs`), for any number of processes, any clock, and any
scenario:

* `TypeCorrect`: `TypeOK`.  It is not inductive: that `Victim` is a member of the
  victims needs there to be one, so `TypeInv` adds where a process has a target
  and victims, and that it holds the lock.
* `ReservationExcludes`: `ReservationIsExclusive`.  The inductive `ReserveInv`
  adds that a writer whose directory is gone was clobbered: a name can be won
  again only after that.
* Under `Steady` (`SteadyRunProofs`; processes are killed and writes fail at any
  point, but the lock excludes, the clock goes on, and what is removed is gone):
  `DoneIsTrue` (`DoneIsComplete`), `NobodyClobbers` (`NothingClobbered`),
  `LeftoversFromKills` (`LeftoversAreFromKills`), `ResultsAreTrue`
  (`ResultIsTrue`) and `CountBounded` (`CountIsBounded`), for any keep_count and
  any number of processes.  None is inductive; all follow from `SteadyInv`, which
  TLC has checked on the instance of `run_crash`.  It says of every process how
  far its snapshot has come (`StageAt`), that this is the newest of all
  (`NewestAt`), what the rotation still has to remove (`RotationAt`) and what the
  result may say (`ResultAt`); of the snapshots that none is of the future and
  that `.done` is true (`SteadyStore`); and that each one that is not whole is
  the target or a victim of a process that runs or was killed (`LeftoverInv`).
  A step keeps it because the lock leaves one process active, so that what the
  others know cannot become stale (`SteadyFrame`).  That a rotation spares the
  snapshot just made needs the order of the clock readings; that it leaves no
  more than keep_count needs the count of the oldest (`OldestLeaves`), which is
  proved without induction, from the first of those that are left.

Rotation (`RotationProofs`), for any number of rotations, scans, snapshots and
limits:

* `NewestAreKept`: `NewestKept`.  The inductive `RotationInv` says what a
  rotation knows of its list by the phase it is in: its list is of snapshots that
  were made (`ListAt`), what is left of it counts `keepCount + toRemove` during a
  removal by count (`CountAt`), it is young and still there, whole, unless another
  rotation meddled (`AgeAt`), what is on disk though it no longer counts is just
  being removed or could not be (`VictimAt`), and what a removal by count took has
  `keepCount` newer ones (`NewestAt`), since the rest of the list is newer than
  its first.  A removal only makes the disk smaller (`RemovalEffect`).
* `RotationTypes`, `LimitsAreKept`, `NoneTooMany`, `ScansAreWhole`: `TypeOK`,
  `LimitsHold`, `NoMoreThanNeeded`, `ScanIsWhole`.  Above `RotationInv`, the
  inductive `SizeInv` says what the running total stands for: the part of the
  list that has been measured, or, once the removal by size has begun, all that
  is left (`SizeAt`), so that subtracting from it never goes below zero; that what
  was measured is at least what is there now and at most what was finished, and
  exactly that for a list nobody meddled with (`Fair`); and that the last snapshot
  removed by size was too much.  The total of a scan lies between the same bounds
  (`ScanAt`).  `LimitsHold` speaks of the disk: by `VictimAt` what a rotation
  listed and finds there at its end is `alive` or `stuck`, and by `Fair` it weighs
  no more than the total the rotation has kept.
* `DryRunsPredict`: `DryRunPredicts`.  The third layer, `JudgeInv`, says of a
  rotation whose list nobody meddled with that its verdicts depend on the list
  alone: "age" on what is too old (`AgedAt`), "count" on the oldest of the rest
  (`CountedAt`), "size" by the sizes at rest (`MeasuredAt`).  Two such rotations
  have left the same by age; of what they remove by count and by size each is a
  set of the oldest, so that one contains the other, and the larger one would
  have gone further than `CountAt` or `SizeAt` lets it (`SameCounted`, `SameBig`).

Copy of `.git` (`GitCopyProofs`), for any number of objects, any branches and
whatever git does meanwhile:

* `TypeCorrect`, `NoObjectLost`, `BranchesCurrent`, `HistoriesWhole`: `TypeOK`,
  `ObjectsKept`, `RefsCurrent`, `RefsResolve`.  The inductive `CopyInv` says that
  git loses no object, because the pack of a repacking holds all that it prunes
  (`GitInv`); that an object of the beginning is copied, reported as an error, or
  still in something the walk will list (`ObjectInv`), which holds only in the
  order loose objects before packs; and what is known of the refs without a
  packing of refs (`RefInv`) and of the histories without a commit
  (`HistoryInv`).

Installation (`BackupHooksProofs`), for any number of processes, clock readings
and backup names, and any scene:

* `TypeCorrect`: `TypeOK`, again through a `TypeInv` that says which command a
  process at a place runs and what it still has to visit.  `saved` is at most
  `head` and the lock is exclusive as part of it.
* `SuccessIsSaved`, `DebounceAfterBackup`: `OkIsSaved` and `DebounceIsEarned`.
  The inductive `SavedInv` says that a copy has found its own change and
  everything saved before, which needs the lock, and that there is a stamp, or a
  temporary one, only after a backup that saved its change or failed.
* `EditedConfigIsKept`, `GapsAreCuts`: `EditedConfigKept` and
  `ConfigGapsAreCuts`, for any number of inits beside each other.  The inductive
  `ConfigInv` says that whoever is about to open the config has seen it gone, that
  a backup exists only in a second in which a config was moved, and who is still
  going to write the config when there is none or a truncated one.
* `StatusAgrees`: `StatusShowsBackupKey`, from a lemma for any entries of the git
  config, not only for those a setup writes.
* `DryRunsAreDry`: `DryRunsWriteNothing`, from where a dry run can be (`DryInv`).
* `IgnoreFileIsWhole`: `IgnoreIsWhole`.  It relates two files and the writers of
  both: the inductive `WholeInv` says that one process installs unless two
  overlapped, and that an empty template or ignore file is just being written,
  or was when a fault hit.
* `UserHooksAreKept`, `HooksDoNotLoop`: `UserHookKept` and `NoHookLoop`.  The
  inductive `CallInv` says, unless two installations overlapped, what is in the
  hook a setup is working on and in its backup (`HookAt`); that a backup is never
  a wrapper, so that a chain of calls ends after one step (`ChainEnds`); and that
  a hook of the user is stored, and reached or about to be (`Stored`,
  `Reached`).  That a `--force` is on record before it overwrites is `ForceInv`.
* `HooksAreArmed`: `InstalledIsArmed`.  `EnabledInv` says that a setup with hooks
  has enabled backups before it comes to the ignore file.  `CalmInv`, as long as
  nothing was cut short and nothing overlapped: templates are there all or none
  but while an init writes them (`AllOrNone`); the setup that is installing has
  done the hooks it has left behind (`InstallAt`); and after a success only the
  hook that another setup is just writing may be undone (`ArmedHooks`).  The
  config is `ConfigGapsAreCuts`.
* `KeysAreApart`: `KeysAreOwn`, by cases on the style and the remote, whatever
  the slugs are.

Data (`Induction`).  `Calls` and the sums of `Rotation` are defined by
recursion, and induction theorems that take an operator cannot be used here.  So
induction is stated of sets: a set of numbers that has 0 and with each number
the next is `Nat`, and a set of subsets of a finite set that has each one all
whose proper subsets it has is all of them.  From these follow that the function
a recursion defines exists (`IteratesExist`, `SumsExist`), and what sums are:
`SumUnfolds`, `SumOfElement` (one element contributes its weight, whichever is
taken first), `SumsAlike`, `SumsOrdered`, `SumOfFewer`.

Left to TLC: liveness of the pool (`ReturnsOrStalls`), which is beyond this
prover, and the properties of the runs that are to be violated.  Every other
property of a run is a theorem.

## 5. Findings

Shown by a run:

1. *Two processes can take the lock* (`lock_overlap`).  `AcquireLock` makes the
   directory at `lock.go:41` and writes `info` after that; a process that looks
   in between finds no readable file, takes the lock for stale, removes it and
   locks it too.  `OnlyRobbedOverlap` shows that this is the only kind of way.
2. *A signal can hang the copy* (`pool_signal`).  The send at `backup.go:598`
   does not look at the context.  When the channel is full and every worker
   takes the `ctx.Done` case, nobody receives any more.  `ReturnsOrStalls` shows
   that nothing else hangs.
3. *A commit during the copy* (`git_commit`).  The refs are copied after the
   objects, so that a branch of a snapshot marked `.done` can point at a commit
   that is not in it.  With `Scenarios` set to `{{"packRefs"}}` TLC finds the
   other way to violate `CopyIsWhole`: `packed-refs` is copied, git packs and
   prunes the refs, and the branch is in neither part of the copy.
4. *A rebase is not backed up* (`rebase`).  Git runs `post-rewrite` while its
   state directory exists, `isRebaseInProgress` finds it and the hook is skipped;
   `post-commit` has left the commits of the rebase to this hook.
5. *The advice of status drops a hook* (`advice`).  `compareHooks` finds every
   merged hook different from its template, status advises `setup --force`, and
   that overwrites the wrapper: the hook of the user is no longer run.

Seen while modelling, without a run of their own:

* A process killed during the `RemoveAll` of a rotation can leave `.done` on what
  remains, which later runs count as a snapshot, whereas `README.md:33` calls
  `.done` "created after successful completion" (`LeftoversAreFromKills` and
  `DoneIsComplete` allow for it).
* `ReleaseLock` can fail at `lock.go:73`, and `run.go:300` ignores that.  Then
  `info` names a run that is over: this host is told "busy" until the process has
  exited, another one until the stamp is 24 hours old, as after a crash
  (`ImplementsExclusiveLock` allows for it as `Keep`).
* A rotation counts a snapshot as gone whose `RemoveAll` failed
  (`backup.go:841`), so that the disk can be over all limits afterwards;
  `LimitsHold` names those snapshots, and the next rotation tries them again as
  long as they have `.done`.
* `dirSizeKB` passes over errors (`backup.go:827`), so that a scan beside a
  removal, or after one that stopped half-way, ends well with a part of the size
  (`ScanIsWhole` says when, and in which bounds).
* A git command killed by the signal comes back as `ErrCritical`, exit code 1
  rather than the 130 of `README.md:396`.
* When the clock is set back the new snapshot sorts first and the rotation of the
  same run removes it; when the newest snapshot alone exceeds the size limit it
  is removed as well.
* A dry run does not count the snapshot that the real run would add (it rotates at
  `backup.go:1212`, a real run at 1283 after `.done`), so that with a full
  keep_count it announces one removal too few, whereas `README.md:363` says that
  it "simulates the entire process including rotation".  `DryRunPredicts` speaks
  of rotations of the same list.
* What the properties of `BackupHooks` except is what the code leaves open: two
  setups beside each other can take the same free name for the backup of a hook
  (`setup.go:509`) and lose the hook; two configs moved away in one second share
  the name of the backup (`init.go:181`); an ignore file that could not be written
  stays empty, and the next setup finds it there (`setup.go:347`); an init beside
  a setup can be caught with half of its templates (`setup.go:178`); the stamp is
  written for a failed backup as well (`hook_post_rewrite.go:124`); a commit whose
  hook is told "busy" stays unsaved until the next run (`hook_post_commit.go:94`).
* Two `post-rewrite` hooks share the name of the temporary stamp, so that one can
  publish what the other has just truncated.  An empty stamp counts as none: the
  next rebase is backed up though it need not be.
* A clock set back leaves a stamp of the future, which holds off rebases until
  the clock has caught up.
* `init` fails at `init.go:330` when `init.templateDir` is another one, and
  advises `--no-gitconfig`; that now fails too, since the config exists.
* `README.md:147` says that `setup` in a worktree fails when hooks are not
  installed in the main repository.  `hooksInstalled` (`setup.go:359`) asks only
  whether there are files of these names: over hooks of the user it succeeds, and
  none of them runs devback.  `InstalledIsArmed` therefore speaks of setups that
  install hooks, and says nothing of one in a worktree.
* Only runs by hand get the context that a signal cancels; subcommands have none.
* `README.md:99` begins with a bare `devback init`, which fails without
  `--backup-dir`.  An empty config counts as none for a run and as one for `init`.
* `setup` writes to `.git/hooks` whatever `core.hooksPath` says.

## 6. What is not modelled

Strings: patterns of `.devbackignore` and the rest of the path filter, the
splitting of remote URLs, sanitizing and hashing, TOML and its validation, the
wording of logs and reports.  Checks before the lock is taken end a run that has
no state yet.  `IsLocked` and `TestLocks` only read, `CleanupStaleLocks` does
nothing.  `hook --dry-run` ends before the lock.  Notification, process, logging
and noop adapters have no state a property speaks of.  Symbolic links and modes
of copied files are data of the copy.  Exit codes are a table.

## 7. Where to go on

The order so far was by what a failure costs: the lock, the snapshot life cycle
and the copies, then what starts backups and changes the user's repository.
What would come next:

1. The way of an error from `copyRepoSnapshot` to the exit code, as a table
   checked against `README.md`.
2. The setup of a worktree as a run of its own, with the hooks of the main
   repository removed again or replaced by the user's.
