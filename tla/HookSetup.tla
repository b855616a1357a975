------------------------------- MODULE HookSetup -------------------------------
(***************************************************************************)
(* devback setup (Setup of internal/usecase/setup.go): the templates are   *)
(* copied to the hooks of the repository, a hook that is already there is  *)
(* moved to a backup and called by a wrapper, then the repository is       *)
(* enabled and gets its ignore file and its slug.  A linked worktree uses  *)
(* the hooks of its main repository.                                       *)
(***************************************************************************)
EXTENDS InitConfig

CONSTANTS
    Backups,        \* names <hook>.devback.orig[.n] that are tried (21 in the code)
    SetupOptions    \* the combinations of flags setup is run with

SetupFlags == {"force", "noHooks", "worktree", "slug", "dryRun"}

ASSUME BackupsAssumption == Backups \in Nat \ {0}
ASSUME SetupOptionsAssumption == SetupOptions \subseteq SUBSET SetupFlags

VARIABLES
    hook,           \* the files .git/hooks/<hook>
    orig,           \* their backups
    slot,           \* the backup each process has chosen
    enabled,        \* backup.enabled in the local git config
    ignore,         \* .devbackignore
    worktreeConfig, \* extensions.worktreeConfig
    slug,           \* backup.slug of the main repository and of its worktree
    owned,          \* history: the hooks the user had before, 0 for the config
    forced,         \* history: setups --force, of hooks that status says to force or not
    armed           \* history: a setup that installs hooks has succeeded

repo == <<hook, orig, enabled, ignore, worktreeConfig, slug>>
setupHistory == <<owned, forced, armed>>

(* The content of a hook file: nothing, a hook of the user, the template,  *)
(* the template before it got its mode, or the wrapper of a backup.        *)
File(kind) == [kind |-> kind, calls |-> 0]
Wrapper(k) == [kind |-> "merged", calls |-> k]
Slot == 0 .. Backups - 1
HookFile ==
    {File(kind) : kind \in {"none", "empty", "user", "template", "plain"}} \cup {Wrapper(k) : k \in Slot}

(* isDevbackHookContent: by the text, not by the mode.                     *)
IsDevback(file) == file.kind \in {"template", "plain", "merged"}
Exists(h) == hook[h].kind # "none"
SetupSteps ==
    {"setup", "hook", "reserve", "merge", "merge2", "merge3", "copy", "copy2", "copy3", "chmod",
     "enable", "ignore", "ignore2", "slug", "slug2"}
H(p) == Min(todo[p])

(* compareHooks of status: every hook is there and equals its template.    *)
Current ==
    \A h \in Hook : /\ template[h] # "none"
                    /\ hook[h].kind \in (IF template[h] = "whole" THEN {"template", "plain"} ELSE {"empty"})

SetupStart(p) ==
    /\ Spend("setup")
    /\ \E flags \in SetupOptions :
          /\ Begin(p, "setup", flags, "setup")
          /\ forced' = IF "force" \in flags /\ "worktree" \notin flags
                       THEN forced \cup {IF armed /\ ~Current THEN "advised" ELSE "unadvised"} ELSE forced
    /\ NoteOverlap(p)
    /\ UNCHANGED <<repo, slot, owned, armed, home, now, moves, cuts, inited>>

-----------------------------------------------------------------------------
(* The options are checked, the templates that exist are listed, and       *)
(* applySetupHooks takes the way the options ask for.                      *)
Ends(p, res) == End(p, res) /\ UNCHANGED todo
Continue(p, label) == Goto(p, label) /\ UNCHANGED <<todo, result>>

Files == {h \in Hook : template[h] # "none"}
Refused(p) ==
    IF {"worktree", "force"} \subseteq opts[p] THEN "usage"
    ELSE IF Files = {} THEN "noTemplates"
    ELSE IF Has(p, "worktree") /\ ~Has(p, "noHooks") /\ \E h \in Hook : ~Exists(h) THEN "noHooks"
    ELSE "none"
FirstStep(p) ==
    IF Has(p, "noHooks") THEN "ignore" ELSE IF Has(p, "worktree") THEN "enable" ELSE "hook"

CheckSetup(p) ==
    /\ pc[p] = "setup"
    /\ IF Refused(p) # "none" THEN Ends(p, Refused(p))
       ELSE IF Has(p, "dryRun") THEN Ends(p, "ok")
       ELSE Goto(p, FirstStep(p)) /\ todo' = [todo EXCEPT ![p] = Files] /\ UNCHANGED result
    /\ UNCHANGED <<repo, slot, cmd, opts, budget, setupHistory>>

NextHook(p) ==
    /\ todo' = [todo EXCEPT ![p] = @ \ {H(p)}]
    /\ Goto(p, IF todo[p] = {H(p)} THEN "enable" ELSE "hook")
    /\ UNCHANGED result

(* devbackPathFromTemplate finds the path of devback in the template.      *)
TemplateParses(h) == template[h] = "whole"

(* Mistake: a hook that is there is left as it is.                         *)
ReadHookKeeps(p) ==
    /\ pc[p] = "hook"
    /\ IF Has(p, "force") \/ ~Exists(H(p)) THEN Continue(p, "copy") ELSE Continue(p, "chmod")
    /\ UNCHANGED <<repo, slot, cmd, opts, budget, setupHistory>>

(* installMergedHook reads the hook that is there ...                      *)
ReadHook(p) ==
    /\ pc[p] = "hook"
    /\ IF Has(p, "force") \/ ~Exists(H(p)) THEN Continue(p, "copy")
       ELSE IF IsDevback(hook[H(p)]) THEN Continue(p, "chmod")
       ELSE IF TemplateParses(H(p)) THEN Continue(p, "reserve") ELSE Ends(p, "critical")
    /\ UNCHANGED <<repo, slot, cmd, opts, budget, setupHistory>>

(* Mistake: the first name is taken without looking.                       *)
ReserveFirst(p) ==
    /\ pc[p] = "reserve"
    /\ slot' = [slot EXCEPT ![p] = 0] /\ Continue(p, "merge")
    /\ UNCHANGED <<repo, cmd, opts, budget, setupHistory>>

(* ... reserveHookBackup picks the first free name, which nothing keeps ...*)
Reserve(p) ==
    /\ pc[p] = "reserve"
    /\ LET free == {k \in Slot : orig[H(p)][k].kind = "none"}
       IN  IF free = {} THEN Ends(p, "critical") /\ UNCHANGED slot
           ELSE slot' = [slot EXCEPT ![p] = Min(free)] /\ Continue(p, "merge")
    /\ UNCHANGED <<repo, cmd, opts, budget, setupHistory>>

(* Mistake: the wrapper is in place before the hook is moved.              *)
MoveHookLate(p) ==
    /\ pc[p] = "merge"
    /\ orig' = [orig EXCEPT ![H(p)][slot[p]] = Wrapper(slot[p])]
    /\ hook' = [hook EXCEPT ![H(p)] = File("none")]
    /\ Continue(p, "merge2")
    /\ UNCHANGED <<enabled, ignore, worktreeConfig, slug, slot, cmd, opts, budget, setupHistory>>

(* ... the hook is renamed to it, and the wrapper is written.              *)
MoveHook(p) ==
    /\ pc[p] = "merge"
    /\ IF ~Exists(H(p)) THEN Ends(p, "critical") /\ UNCHANGED <<hook, orig>>
       ELSE /\ orig' = [orig EXCEPT ![H(p)][slot[p]] = hook[H(p)]]
            /\ hook' = [hook EXCEPT ![H(p)] = File("none")]
            /\ Continue(p, "merge2")
    /\ UNCHANGED <<enabled, ignore, worktreeConfig, slug, slot, cmd, opts, budget, setupHistory>>

WrapperOpen(p) ==
    /\ pc[p] = "merge2"
    /\ hook' = [hook EXCEPT ![H(p)] = File("empty")]
    /\ Continue(p, "merge3")
    /\ UNCHANGED <<orig, enabled, ignore, worktreeConfig, slug, slot, cmd, opts, budget, setupHistory>>

WrapperWrite(p) ==
    /\ pc[p] = "merge3"
    /\ hook' = [hook EXCEPT ![H(p)] = Wrapper(slot[p])]
    /\ Continue(p, "chmod")
    /\ UNCHANGED <<orig, enabled, ignore, worktreeConfig, slug, slot, cmd, opts, budget, setupHistory>>

(* copyHookTemplate: fs.Copy truncates, writes and gives the copy the mode *)
(* of the template, which is executable; then the mode is set once more.   *)
CopyOpen(p) ==
    /\ pc[p] = "copy"
    /\ IF template[H(p)] = "none" THEN Ends(p, "critical") /\ UNCHANGED hook
       ELSE hook' = [hook EXCEPT ![H(p)] = File("empty")] /\ Continue(p, "copy2")
    /\ UNCHANGED <<orig, enabled, ignore, worktreeConfig, slug, slot, cmd, opts, budget, setupHistory>>

CopyWrite(p) ==
    /\ pc[p] = "copy2"
    /\ hook' = [hook EXCEPT ![H(p)] = File(IF template[H(p)] = "whole" THEN "plain" ELSE "empty")]
    /\ Continue(p, "copy3")
    /\ UNCHANGED <<orig, enabled, ignore, worktreeConfig, slug, slot, cmd, opts, budget, setupHistory>>

MakeExecutable(h) ==
    hook' = IF hook[h].kind = "plain" THEN [hook EXCEPT ![h] = File("template")] ELSE hook

CopyMode(p) ==
    /\ pc[p] = "copy3"
    /\ IF ~Exists(H(p)) THEN Ends(p, "critical") /\ UNCHANGED hook
       ELSE MakeExecutable(H(p)) /\ Continue(p, "chmod")
    /\ UNCHANGED <<orig, enabled, ignore, worktreeConfig, slug, slot, cmd, opts, budget, setupHistory>>

Chmod(p) ==
    /\ pc[p] = "chmod"
    /\ IF ~Exists(H(p)) THEN Ends(p, "critical") /\ UNCHANGED hook
       ELSE MakeExecutable(H(p)) /\ NextHook(p)
    /\ UNCHANGED <<orig, enabled, ignore, worktreeConfig, slug, slot, cmd, opts, budget, setupHistory>>

(* setBackupEnabled, for a worktree too.                                   *)
Enable(p) ==
    /\ pc[p] = "enable" /\ enabled' = TRUE
    /\ Continue(p, "ignore")
    /\ UNCHANGED <<hook, orig, ignore, worktreeConfig, slug, slot, cmd, opts, budget, setupHistory>>

(* The slug comes last; without one, setup has succeeded.                  *)
WithHooks(p) == opts[p] \cap {"noHooks", "worktree"} = {}
Last(p) ==
    IF Has(p, "slug") THEN Continue(p, "slug") /\ UNCHANGED armed
    ELSE Ends(p, "ok") /\ armed' = (armed \/ WithHooks(p))

(* Mistake: the file is made, and left to the user to fill.                *)
CheckIgnoreTouches(p) ==
    /\ pc[p] = "ignore" /\ Last(p)
    /\ ignore' = IF Has(p, "worktree") \/ ignore # "none" THEN ignore ELSE "empty"
    /\ UNCHANGED <<hook, orig, enabled, worktreeConfig, slug, slot, cmd, opts, budget, owned, forced>>

(* installDevbackIgnore never overwrites.                                  *)
CheckIgnore(p) ==
    /\ pc[p] = "ignore"
    /\ IF Has(p, "worktree") \/ template[Ignore] = "none" \/ ignore # "none"
       THEN Last(p) /\ UNCHANGED ignore
       ELSE ignore' = "empty" /\ Continue(p, "ignore2") /\ UNCHANGED armed
    /\ UNCHANGED <<hook, orig, enabled, worktreeConfig, slug, slot, cmd, opts, budget, owned, forced>>

WriteIgnore(p) ==
    /\ pc[p] = "ignore2" /\ ignore' = template[Ignore]
    /\ Last(p)
    /\ UNCHANGED <<hook, orig, enabled, worktreeConfig, slug, slot, cmd, opts, budget, owned, forced>>

(* applySetupSlug: a worktree has a git config of its own, once enabled.   *)
SetSlug(p) ==
    /\ pc[p] = "slug"
    /\ IF Has(p, "worktree")
       THEN worktreeConfig' = TRUE /\ Continue(p, "slug2") /\ UNCHANGED <<slug, armed>>
       ELSE /\ slug' = [slug EXCEPT !["main"] = TRUE] /\ Ends(p, "ok")
            /\ armed' = (armed \/ WithHooks(p)) /\ UNCHANGED worktreeConfig
    /\ UNCHANGED <<hook, orig, enabled, ignore, slot, cmd, opts, budget, owned, forced>>

SetWorktreeSlug(p) ==
    /\ pc[p] = "slug2"
    /\ slug' = [slug EXCEPT !["worktree"] = TRUE] /\ Ends(p, "ok")
    /\ UNCHANGED <<hook, orig, enabled, ignore, worktreeConfig, slot, cmd, opts, budget, setupHistory>>

(* A copy, a rename, a write, a chmod or a git command fails.              *)
SetupFails(p) ==
    /\ pc[p] \in SetupSteps \ {"setup", "hook", "reserve"}
    /\ Spend("fault") /\ Cut(p) /\ Ends(p, "critical")
    /\ UNCHANGED <<repo, slot, cmd, opts, setupHistory, home, now, moves, inited, overlapped>>

SetupStep(p) ==
    /\ \/ CheckSetup(p) \/ ReadHook(p) \/ Reserve(p) \/ MoveHook(p)
       \/ WrapperOpen(p) \/ WrapperWrite(p) \/ CopyOpen(p) \/ CopyWrite(p) \/ CopyMode(p) \/ Chmod(p) \/ Enable(p)
       \/ CheckIgnore(p) \/ WriteIgnore(p) \/ SetSlug(p) \/ SetWorktreeSlug(p)
    /\ UNCHANGED <<home, now, initHistory>>

-----------------------------------------------------------------------------
(* What git runs when it runs a hook: the file, then what it calls.        *)
Callee(h) ==
    [file \in HookFile |-> IF file.kind = "merged" THEN orig[h][file.calls] ELSE File("none")]
Calls(h) ==
    LET file[n \in 0 .. Backups] == IF n = 0 THEN hook[h] ELSE Callee(h)[file[n - 1]]
    IN  file
Called(h) == [n \in 0 .. Backups |-> Calls(h)[n].kind]
(* The hook ends up in devback, in the hook of the user, or in itself.     *)
RunsDevback(h) == \E n \in 0 .. Backups : Called(h)[n] \in {"template", "merged"}
RunsUser(h) == \E n \in 0 .. Backups : Called(h)[n] = "user"
CallsItself(h) == Called(h)[Backups] = "merged"

RepoTypeOK ==
    /\ hook \in [Hook -> HookFile] /\ orig \in [Hook -> [Slot -> HookFile]]
    /\ slot \in [Proc -> Slot] /\ enabled \in BOOLEAN
    /\ ignore \in {"none", "empty", "whole"}
    /\ worktreeConfig \in BOOLEAN /\ slug \in [{"main", "worktree"} -> BOOLEAN]
    /\ owned \subseteq Hook \cup {0} /\ forced \subseteq {"advised", "unadvised"}
    /\ armed \in BOOLEAN
=============================================================================
