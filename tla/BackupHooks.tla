------------------------------ MODULE BackupHooks ------------------------------
(***************************************************************************)
(* From a git command to a backup: git runs the hooks that HookSetup has   *)
(* installed, devback hook <name> (cmd/app/hook*.go) decides whether to    *)
(* back up, and the run takes the lock of ExclusiveLock, copies what the   *)
(* repository is at that time and notes the time of a post-rewrite backup. *)
(* With InitConfig and HookSetup this is the life of an installation: init *)
(* and setup, concurrent and killed anywhere, and the git commands after.  *)
(***************************************************************************)
EXTENDS Integers, HookSetup, RepoKey

CONSTANTS
    HostOf,         \* the host of each process
    Debounce,       \* how long a post-rewrite backup holds off the next (60 s)
    Scenes          \* where the behaviours start, and how much may happen

Stages == {"fresh", "inited", "installed"}
Supplies == {"init", "setup", "event", "fault", "tick"}

ASSUME DebounceAssumption == Debounce \in Nat
ASSUME ScenesAssumption ==
    Scenes \subseteq [stage : Stages, userHooks : SUBSET Hook, edited : SUBSET BOOLEAN,
                      templateDirs : SUBSET {"unset", "other"}, cleansFirst : BOOLEAN,
                      budget : [Supplies -> Nat]]

VARIABLES
    scene,          \* the scene
    head,           \* how many changes have been made to the repository
    saved,          \* the latest of them that is in a finished snapshot
    rebasing,       \* the state directory of a rebase exists
    stamp,          \* devback-backup-stamp: no file, an empty one or a time
    tmp,            \* devback-backup-stamp.tmp, and the processes that have it open
    status,         \* the lock
    mine,           \* the change each process was started for
    copied,         \* the change its copy has found
    rewrites        \* history: what the stamps were written for

backup == <<head, saved, rebasing, stamp, tmp, status, mine, copied, rewrites>>
install == <<home, initHistory, repo, slot, setupHistory>>
vars == <<scene, now, process, budget, install, backup>>

Lock == INSTANCE ExclusiveLock

(* What the file of a stamp holds; Blank is a file that is empty.          *)
Blank == -1
StampFile == SUBSET (Second \cup {Blank})

Running == {"preflight", "inRebase?", "debounce?", "lock", "copyRepo", "finish",
            "release", "stamp", "write stamp", "move stamp", "rewrite", "clean"}
Commands == {"none", "init", "setup", "commit", "merge", "amend", "rebase", "manual"}
InitSteps == {"check", "move", "save", "save2", "template", "template2", "git"}
Skips == {"notInstalled", "disabled", "noConfig", "inRebase", "debounced"}
Results == {"none", "ok", "exists", "noDir", "templateDir", "critical", "usage", "noTemplates",
            "noHooks", "failed", "busy", "interrupted", "killed"} \cup Skips

TypeOK ==
    /\ HomeTypeOK /\ RepoTypeOK /\ scene \in Scenes
    /\ todo \in [Proc -> SUBSET Template]
    /\ pc \in [Proc -> {"idle", "ended"} \cup InitSteps \cup SetupSteps \cup Running]
    /\ cmd \in [Proc -> Commands] /\ result \in [Proc -> Results]
    /\ opts \in [Proc -> SUBSET (InitFlags \cup SetupFlags \cup {"amend", "rebase", "reflog"})]
    /\ head \in Nat /\ saved \in 0 .. head /\ rebasing \in BOOLEAN
    /\ stamp \in StampFile /\ tmp \in [holds : StampFile, open : SUBSET Proc]
    /\ rewrites \subseteq [change : 0 .. head, how : {"ok", "failed"}]
    /\ Lock!LockTypeOK /\ Lock!Exclusive
    /\ mine \in [Proc -> 0 .. head] /\ copied \in [Proc -> 0 .. head]

(* A machine without devback, one with its templates, or an installation.  *)
HasTemplates == scene.stage \in {"inited", "installed"}
Installed == scene.stage = "installed"
Init ==
    /\ scene \in Scenes /\ budget = scene.budget
    /\ \E hooks \in SUBSET scene.userHooks, edited \in scene.edited :
          /\ owned = hooks \cup (IF edited THEN {0} ELSE {})
          /\ config = IF edited THEN "edited" ELSE IF HasTemplates THEN "default" ELSE "none"
          /\ hook = [h \in Hook |->
                IF Installed THEN (IF h \in hooks THEN Wrapper(0) ELSE File("template"))
                ELSE IF h \in hooks THEN File("user") ELSE File("none")]
          /\ orig = [h \in Hook |-> [k \in Slot |->
                File(IF Installed /\ h \in hooks /\ k = 0 THEN "user" ELSE "none")]]
    /\ bak = [s \in Second |-> "none"] /\ moves = [s \in Second |-> 0]
    /\ template = [t \in Template |-> IF HasTemplates THEN "whole" ELSE "none"]
    /\ templateDir \in (IF HasTemplates THEN {"ours"} ELSE scene.templateDirs)
    /\ ignore = (IF Installed THEN "whole" ELSE "none") /\ enabled = Installed
    /\ worktreeConfig = FALSE /\ slug = [r \in {"main", "worktree"} |-> FALSE]
    /\ now = 0 /\ saving = {} /\ cuts = {} /\ forced = {} /\ overlapped = FALSE
    /\ inited = HasTemplates /\ armed = Installed
    /\ pc = [p \in Proc |-> "idle"] /\ cmd = [p \in Proc |-> "none"]
    /\ opts = [p \in Proc |-> {}] /\ todo = [p \in Proc |-> {}]
    /\ result = [p \in Proc |-> "none"] /\ slot = [p \in Proc |-> 0]
    /\ head = 0 /\ saved = 0 /\ rebasing = FALSE
    /\ stamp = {} /\ tmp = [holds |-> {}, open |-> {}] /\ rewrites = {}
    /\ Lock!LockInit
    /\ mine = [p \in Proc |-> 0] /\ copied = [p \in Proc |-> 0]

-----------------------------------------------------------------------------
(* Git makes a change and runs a hook; an amend runs post-commit and then  *)
(* post-rewrite, a rebase post-rewrite while its state directory is still  *)
(* there, unless it is of a kind that removes it first.  A commit that a   *)
(* rebase makes on its way tells its hook so in GIT_REFLOG_ACTION.         *)
HookOf == [commit |-> 1, merge |-> 2, amend |-> 3, rebase |-> 3]

(* The process runs on behind the hook: what git does when it has ended.   *)
HookEnds(p, res) ==
    /\ result' = [result EXCEPT ![p] = res]
    /\ Goto(p, IF Has(p, "amend") THEN "rewrite" ELSE IF Has(p, "rebase") THEN "clean" ELSE "ended")

RunHook(p, command, flags) ==
    /\ cmd' = [cmd EXCEPT ![p] = command] /\ opts' = [opts EXCEPT ![p] = flags]
    /\ status' = [status EXCEPT ![p] = "idle"]
    /\ LET installed == RunsDevback(HookOf[command])
           next == IF "amend" \in flags THEN "rewrite" ELSE IF "rebase" \in flags THEN "clean" ELSE "ended"
       IN  /\ Goto(p, IF installed THEN "preflight" ELSE next)
           /\ result' = [result EXCEPT ![p] = IF installed THEN "none" ELSE "notInstalled"]

Change(p) ==
    /\ Idle(p) /\ Spend("event")
    /\ head' = head + 1 /\ mine' = [mine EXCEPT ![p] = head + 1]
    /\ UNCHANGED <<scene, now, todo, install, saved, stamp, tmp, copied, rewrites>>

GitCommit(p) ==
    /\ Change(p)
    /\ \/ RunHook(p, "commit", {}) \/ RunHook(p, "commit", {"amend"}) \/ RunHook(p, "merge", {})
       \/ rebasing /\ RunHook(p, "commit", {"reflog"})
    /\ UNCHANGED rebasing

AmendRewrite(p) ==
    /\ pc[p] = "rewrite" /\ RunHook(p, "amend", {})
    /\ UNCHANGED <<scene, now, todo, budget, install, head, saved, rebasing, stamp, tmp, mine, copied, rewrites>>

RebaseStart ==
    /\ ~rebasing /\ budget["event"] > 0 /\ rebasing' = TRUE
    /\ UNCHANGED <<scene, now, process, budget, install, head, saved, stamp, tmp, status, mine, copied, rewrites>>

RebaseFinish(p) ==
    /\ rebasing /\ \A q \in Proc : ~Has(q, "rebase") \/ Idle(q)
    /\ Change(p)
    /\ RunHook(p, "rebase", IF scene.cleansFirst THEN {} ELSE {"rebase"})
    /\ rebasing' = ~scene.cleansFirst

RebaseClean(p) ==
    /\ pc[p] = "clean" /\ rebasing' = FALSE /\ Goto(p, "ended")
    /\ UNCHANGED <<scene, now, cmd, opts, todo, result, budget, install, head, saved, stamp, tmp, status,
                   mine, copied, rewrites>>

(* devback, started by hand.                                               *)
Manual(p) ==
    /\ Idle(p) /\ Spend("event")
    /\ Begin(p, "manual", {}, "preflight")
    /\ mine' = [mine EXCEPT ![p] = head] /\ status' = [status EXCEPT ![p] = "idle"]
    /\ UNCHANGED <<scene, now, install, head, saved, rebasing, stamp, tmp, copied, rewrites>>

-----------------------------------------------------------------------------
(* runHookPreflight, and runRootCommand for a run started by hand, which   *)
(* does not ask whether the repository is enabled.                         *)
Usable == config \in {"default", "edited"}
EnabledLevels ==
    [worktree |-> "unset", local |-> IF enabled THEN "true" ELSE "unset", global |-> "unset"]
AsksForRebase == {"commit", "merge", "rebase"}
Rewriting(p) == cmd[p] \in {"amend", "rebase"}
Resume(p, label) == Goto(p, label) /\ UNCHANGED result

Preflight(p) ==
    /\ pc[p] = "preflight"
    /\ IF cmd[p] # "manual" /\ ~ParseBool(HookConfig(EnabledLevels)) THEN HookEnds(p, "disabled")
       ELSE IF ~Usable THEN HookEnds(p, IF cmd[p] = "manual" THEN "usage" ELSE "noConfig")
       ELSE Resume(p, IF cmd[p] \in AsksForRebase THEN "inRebase?" ELSE "lock")
    /\ UNCHANGED <<scene, now, cmd, opts, todo, budget, install, backup>>

(* isRebaseReflogAction, of post-commit only, and isRebaseInProgress; an   *)
(* amend does not ask.                                                     *)
CheckRebase(p) ==
    /\ pc[p] = "inRebase?"
    /\ IF Has(p, "reflog") \/ rebasing THEN HookEnds(p, "inRebase")
       ELSE Resume(p, IF cmd[p] = "rebase" THEN "debounce?" ELSE "lock")
    /\ UNCHANGED <<scene, now, cmd, opts, todo, budget, install, backup>>

(* isDebounceActive.                                                       *)
Debounced == \E t \in stamp \cap Second : now - t < Debounce
CheckDebounce(p) ==
    /\ pc[p] = "debounce?"
    /\ IF Debounced THEN HookEnds(p, "debounced") ELSE Resume(p, "lock")
    /\ UNCHANGED <<scene, now, cmd, opts, todo, budget, install, backup>>

(* usecase.Backup: the lock, the copy, the markers.  A post-rewrite backup *)
(* that was not refused or interrupted is noted in the stamp.              *)
Stamped(p, res) ==
    /\ result' = [result EXCEPT ![p] = res] /\ Goto(p, "stamp")
    /\ rewrites' = rewrites \cup {[change |-> mine[p], how |-> res]}

(* Mistake: a refused one is noted, too.                                   *)
EndedStamped(p, res) ==
    IF Rewriting(p) /\ res \in {"ok", "failed", "busy"} THEN Stamped(p, res)
    ELSE HookEnds(p, res) /\ UNCHANGED rewrites

Ended(p, res) ==
    IF Rewriting(p) /\ res \in {"ok", "failed"} THEN Stamped(p, res)
    ELSE HookEnds(p, res) /\ UNCHANGED rewrites

AcquireLock(p) ==
    /\ pc[p] = "lock"
    /\ \/ Lock!Grant(p) /\ Resume(p, "copyRepo") /\ UNCHANGED <<budget, rewrites>>
       \/ Lock!Refuse(p) /\ Ended(p, "busy") /\ UNCHANGED budget
       \/ Spend("fault") /\ (Lock!Fail(p) \/ Lock!Keep(p)) /\ Ended(p, "failed")
    /\ UNCHANGED <<scene, now, cmd, opts, todo, install, head, saved, rebasing, stamp, tmp, mine, copied>>

Copy(p) ==
    /\ pc[p] = "copyRepo" /\ copied' = [copied EXCEPT ![p] = head] /\ Resume(p, "finish")
    /\ UNCHANGED <<scene, now, cmd, opts, todo, budget, install, head, saved, rebasing, stamp, tmp,
                   status, mine, rewrites>>

(* Mistake: the snapshot is of the change the hook was run for.            *)
FinishOwn(p) ==
    /\ pc[p] = "finish" /\ saved' = mine[p]
    /\ result' = [result EXCEPT ![p] = "ok"] /\ Goto(p, "release")
    /\ UNCHANGED <<scene, now, cmd, opts, todo, budget, install, head, rebasing, stamp, tmp, status,
                   mine, copied, rewrites>>

Finish(p) ==
    /\ pc[p] = "finish" /\ saved' = copied[p]
    /\ result' = [result EXCEPT ![p] = "ok"] /\ Goto(p, "release")
    /\ UNCHANGED <<scene, now, cmd, opts, todo, budget, install, head, rebasing, stamp, tmp, status,
                   mine, copied, rewrites>>

(* Only a run started by hand has the context that a signal cancels.       *)
CopyFails(p) ==
    /\ pc[p] \in {"copyRepo", "finish"} /\ Spend("fault")
    /\ \E res \in {"failed"} \cup (IF cmd[p] = "manual" THEN {"interrupted"} ELSE {}) :
          result' = [result EXCEPT ![p] = res]
    /\ Goto(p, "release")
    /\ UNCHANGED <<scene, now, cmd, opts, todo, install, backup>>

(* Whether the lock could be given back is not looked at.                  *)
ReleaseLock(p) ==
    /\ pc[p] = "release" /\ Ended(p, result[p])
    /\ \/ Lock!GiveBack(p) /\ UNCHANGED budget
       \/ Spend("fault") /\ Lock!Keep(p)
    /\ UNCHANGED <<scene, now, cmd, opts, todo, install, head, saved, rebasing, stamp, tmp,
                   mine, copied>>

(* updateStamp: a temporary file of one name for all, truncated, written   *)
(* and renamed.  When another process has renamed it meanwhile, the time   *)
(* is written to the stamp, or to a file that has been replaced since.     *)
TruncateStamp(p) ==
    /\ pc[p] = "stamp" /\ tmp' = [holds |-> {Blank}, open |-> tmp.open \cup {p}]
    /\ Resume(p, "write stamp")
    /\ UNCHANGED <<scene, now, cmd, opts, todo, budget, install, head, saved, rebasing, stamp, status,
                   mine, copied, rewrites>>

WriteTime(p, time) ==
    /\ pc[p] = "write stamp"
    /\ IF p \in tmp.open
       THEN tmp' = [holds |-> {time}, open |-> tmp.open \ {p}] /\ UNCHANGED stamp
       ELSE stamp' \in {stamp, {time}} /\ UNCHANGED tmp
    /\ Resume(p, "move stamp")
    /\ UNCHANGED <<scene, now, cmd, opts, todo, budget, install, head, saved, rebasing, status,
                   mine, copied, rewrites>>

(* Mistake: the time is rounded up.                                        *)
WriteStampRounded(p) == WriteTime(p, now + 1)

WriteStamp(p) == WriteTime(p, now)

MoveStamp(p) ==
    /\ pc[p] = "move stamp" /\ tmp' = [holds |-> {}, open |-> {}]
    /\ stamp' = IF tmp.holds = {} THEN stamp ELSE tmp.holds
    /\ HookEnds(p, result[p])
    /\ UNCHANGED <<scene, now, cmd, opts, todo, budget, install, head, saved, rebasing, status,
                   mine, copied, rewrites>>

StampFails(p) ==
    /\ pc[p] \in {"stamp", "write stamp", "move stamp"} /\ Spend("fault") /\ HookEnds(p, result[p])
    /\ UNCHANGED <<scene, now, cmd, opts, todo, install, backup>>

(* A process is killed; a lock it holds is stale from then on, and git     *)
(* goes on behind a hook.                                                  *)
Kill(p) ==
    /\ ~Idle(p) /\ pc[p] \notin {"rewrite", "clean"} /\ Spend("fault")
    /\ Cut(p) /\ HookEnds(p, "killed")
    /\ IF status[p] = "held" THEN Lock!Die(p) ELSE UNCHANGED status
    /\ UNCHANGED <<scene, now, cmd, opts, todo, home, moves, inited, overlapped, repo, slot, setupHistory,
                   head, saved, rebasing, stamp, tmp, mine, copied, rewrites>>

-----------------------------------------------------------------------------
HookStep(p) ==
    \/ AmendRewrite(p) \/ RebaseClean(p) \/ Preflight(p) \/ CheckRebase(p) \/ CheckDebounce(p)
    \/ AcquireLock(p) \/ Copy(p) \/ Finish(p) \/ ReleaseLock(p) \/ TruncateStamp(p) \/ WriteStamp(p)
    \/ MoveStamp(p)

Next ==
    \/ \E p \in Proc :
          \/ InitStep(p) /\ UNCHANGED <<scene, repo, slot, setupHistory, backup>>
          \/ (SetupStart(p) \/ SetupStep(p) \/ SetupFails(p)) /\ UNCHANGED <<scene, backup>>
          \/ GitCommit(p) \/ RebaseFinish(p) \/ Manual(p)
          \/ HookStep(p) \/ CopyFails(p) \/ StampFails(p) \/ Kill(p)
    \/ RebaseStart
    \/ Tick /\ UNCHANGED <<scene, repo, slot, setupHistory, backup>>

Spec == Init /\ [][Next]_vars

-----------------------------------------------------------------------------
NobodyInstalls == \A p \in Proc : ~Installing(p)

(* The config the owner has edited is never lost, whoever runs init --force *)
(* beside whom: it is in place or in a backup, unless two configs were     *)
(* moved away within one second, the resolution of the name of a backup.   *)
EditedConfigKept ==
    0 \in owned => \/ config = "edited"
                   \/ \E s \in Second : bak[s] = "edited" \/ moves[s] > 1

(* Once there was a config, there is one that can be read, except while an *)
(* init is writing it, or after one was killed or failed in doing so.      *)
ConfigGapsAreCuts ==
    ~Usable /\ (inited \/ 0 \in owned) =>
        "config" \in cuts \/ \E p \in Proc : pc[p] \in {"save", "save2"}

(* When an init and a setup of the main repository have succeeded, one     *)
(* after the other and none of them cut short, every hook runs devback and *)
(* nothing makes it skip.  (That of a worktree asks only whether there are *)
(* hooks, hooksInstalled, not whether they run devback.)                   *)
InstalledIsArmed ==
    inited /\ armed /\ cuts = {} /\ ~overlapped /\ NobodyInstalls =>
        Usable /\ enabled /\ \A h \in Hook : RunsDevback(h)

(* A hook of the user is still run after any sequence of setups without    *)
(* --force that did not overlap and were not cut short ("the original hook *)
(* first"), and is never lost even when they were.                         *)
UserHookKept ==
    forced = {} /\ ~overlapped => \A h \in owned \ {0} :
        /\ NobodyInstalls /\ "hook" \notin cuts => RunsUser(h)
        /\ hook[h].kind = "user" \/ \E k \in Slot : orig[h][k].kind = "user"

(* No wrapper calls itself, unless two setups reserved one backup name.    *)
NoHookLoop == ~overlapped => \A h \in Hook : ~CallsItself(h)

(* An empty .devbackignore, which no later setup replaces, is left only by *)
(* a fault, or by a setup beside an init.                                  *)
IgnoreIsWhole ==
    ignore = "empty" /\ NobodyInstalls => cuts \cap {"ignore", "template"} # {} \/ overlapped

(* --dry-run writes nothing ("show planned changes without writing to      *)
(* disk"): a step of a command so run changes no file and no git config.   *)
DryRunsWriteNothing ==
    [][\A p \in Proc : Installing(p) /\ Has(p, "dryRun") /\ pc'[p] # pc[p] => UNCHANGED <<home, repo>>]_vars

(* A successful run has saved the change its process was started for, be   *)
(* it by hand or from a hook, whatever was committed beside it.            *)
OkIsSaved ==
    \A p \in Proc : result[p] = "ok" /\ cmd[p] \notin {"init", "setup"} => saved >= mine[p]

(* A rebase is held off only after a post-rewrite backup that saved what   *)
(* it was started for, or that failed; never because of one that found the *)
(* lock busy, or of a commit's.                                            *)
DebounceIsEarned ==
    \A p \in Proc : result[p] = "debounced" =>
        \E r \in rewrites : r.how = "failed" \/ (r.how = "ok" /\ saved >= r.change)

(* What the doc says: "hooks automatically trigger a backup after `git     *)
(* commit`, `git merge`, and `git rebase --rebase-merges`".  A rebase that *)
(* was neither held off nor went wrong is in a snapshot.                   *)
RebaseIsBackedUp ==
    \A p \in Proc : cmd[p] = "rebase" /\ result[p] \in {"ok", "inRebase"} => saved >= mine[p]

(* What status advises ("run: devback setup --force") keeps what the doc   *)
(* promises ("runs the original hook first and `devback hook <name>`       *)
(* second"): the hooks of the user are still run, when every --force was   *)
(* given on that advice.                                                   *)
AdviceKeepsUserHook ==
    "unadvised" \notin forced /\ cuts = {} /\ ~overlapped /\ NobodyInstalls =>
        \A h \in owned \ {0} : RunsUser(h)

-----------------------------------------------------------------------------
(* The repository and a linked worktree of it, as git answers them.        *)
Name(isSet) == IF isSet THEN "slug" ELSE "unset"
Levels(r) ==
    [worktree |-> Name(r = "worktree" /\ worktreeConfig /\ slug["worktree"]),
     local |-> Name(slug["main"]), global |-> "unset"]
Main == [dir |-> "main", base |-> "repo"]
Trees == {[dir |-> "worktree", base |-> name] : name \in {"repo", "tree"}}
Origin == [host |-> "host", owner |-> "owner", repo |-> "repo"]

SetUp == \E p \in Proc : cmd[p] = "setup" /\ pc[p] = "ended"

(* Status shows the directory a backup of this repository goes to, though  *)
(* it derives it by code of its own: whatever a setup has set beside others*)
(* or killed half-way, with every style and in a worktree.                 *)
StatusShowsBackupKey ==
    SetUp => \A style \in Styles, merge \in BOOLEAN, remote \in {NoRemote, Origin}, root \in {Main} \cup Trees :
        DeriveRepoKeyStatus(style, merge, Levels(root.dir), root.dir = "worktree", remote, root)
            = DeriveRepoKey(style, merge, Levels(root.dir), remote, root)

(* The backups of a worktree do not go to those of its repository, unless  *)
(* the owner asked for it: by a key from the remote alone, or by one slug  *)
(* for two directories of one name.                                        *)
KeysAreOwn ==
    SetUp => \A style \in Styles, merge \in BOOLEAN, remote \in {NoRemote, Origin}, tree \in Trees :
        DeriveRepoKey(style, merge, Levels("main"), remote, Main)
            = DeriveRepoKey(style, merge, Levels("worktree"), remote, tree)
        => \/ remote = Origin /\ (style = "remote-hierarchy" \/ (style = "auto" /\ merge))
           \/ tree.base = Main.base /\ slug["main"] /\ style \in {"auto", "custom"}
=============================================================================
