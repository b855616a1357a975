------------------------------ MODULE InitConfig ------------------------------
(***************************************************************************)
(* devback init (Init of internal/usecase/init.go): the owner's config is  *)
(* moved away and written anew, the templates of the hooks are written one *)
(* after the other, and git is told where they are.  Nothing locks out a   *)
(* second init, and each write is a truncation followed by the content.    *)
(* HookSetup and BackupHooks add the other commands; the variables of a    *)
(* process (pc to result) are shared by all of them.                       *)
(***************************************************************************)
EXTENDS Naturals, FiniteSets, FiniteSetsExt

CONSTANTS
    Proc,           \* slots for processes, each runs one command at a time
    Seconds,        \* clock readings, 0 .. Seconds
    InitOptions     \* the combinations of flags init is run with

InitFlags == {"force", "dir", "noGitConfig", "templatesOnly", "dryRun"}

ASSUME SecondsAssumption == Seconds \in Nat
ASSUME InitOptionsAssumption == InitOptions \subseteq SUBSET InitFlags

VARIABLES
    config,         \* ~/.config/devback/config.toml
    saving,         \* the processes that have it open and write to it
    bak,            \* config.toml.bak.<second>
    template,       \* the template files
    templateDir,    \* init.templateDir in the global git config
    now,            \* the clock, in seconds
    pc, cmd, opts,  \* where each process is, its command and its flags
    todo,           \* the files its loop still has to visit
    result,         \* how its command ended
    budget,         \* how many commands, events, faults and ticks are left
    moves,          \* history: configs moved away in each second
    cuts,           \* history: what was being written when a fault hit
    inited,         \* history: an init has written the config and every template
    overlapped      \* history: two processes ran init or setup at a time

home == <<config, saving, bak, template, templateDir>>
process == <<pc, cmd, opts, todo, result>>
initHistory == <<moves, cuts, inited, overlapped>>

(* "torn" is a truncated file, which decodes to an empty configuration.    *)
Config == {"none", "torn", "default", "edited"}
Second == 0 .. Seconds

(* The files of templates/hooks, in the order of their names, and the one  *)
(* of templates/repo.                                                      *)
Hook == 1 .. 3
Ignore == 4
Template == Hook \cup {Ignore}

Idle(p) == pc[p] \in {"idle", "ended"}
Goto(p, label) == pc' = [pc EXCEPT ![p] = label]
End(p, res) == Goto(p, "ended") /\ result' = [result EXCEPT ![p] = res]
Spend(what) == budget[what] > 0 /\ budget' = [budget EXCEPT ![what] = @ - 1]
Has(p, flag) == flag \in opts[p]

Begin(p, command, flags, label) ==
    /\ Idle(p) /\ Goto(p, label)
    /\ cmd' = [cmd EXCEPT ![p] = command]
    /\ opts' = [opts EXCEPT ![p] = flags]
    /\ todo' = [todo EXCEPT ![p] = {}]
    /\ result' = [result EXCEPT ![p] = "none"]

Installing(p) == ~Idle(p) /\ cmd[p] \in {"init", "setup"}
NoteOverlap(p) == overlapped' = (overlapped \/ \E q \in Proc \ {p} : Installing(q))

InitStart(p) ==
    /\ Spend("init")
    /\ \E flags \in InitOptions : Begin(p, "init", flags, "check")
    /\ NoteOverlap(p)
    /\ UNCHANGED <<home, now, moves, cuts, inited>>

-----------------------------------------------------------------------------
(* ensureGitTemplateDir runs unless it is switched off.                    *)
AfterTemplates(p) ==
    IF opts[p] \cap {"templatesOnly", "noGitConfig"} = {}
    THEN Goto(p, "git") /\ UNCHANGED result ELSE End(p, "ok")

(* A dry run reads the templates and writes none.                          *)
AfterConfig(p) ==
    IF Has(p, "dryRun") THEN AfterTemplates(p) /\ UNCHANGED todo
    ELSE /\ Goto(p, "template") /\ todo' = [todo EXCEPT ![p] = Template]
         /\ UNCHANGED result

(* ensureConfig: the path is looked up, then the flags are checked.        *)
Refusal(p) ==
    IF Has(p, "templatesOnly") THEN "none"
    ELSE IF config # "none" /\ ~Has(p, "force") THEN "exists"
    ELSE IF ~Has(p, "dir") THEN "noDir" ELSE "none"

(* Mistake: an old config is overwritten in place.                         *)
CheckConfigInPlace(p) ==
    /\ pc[p] = "check"
    /\ IF Refusal(p) # "none" THEN End(p, Refusal(p)) /\ UNCHANGED todo
       ELSE IF opts[p] \cap {"templatesOnly", "dryRun"} # {} THEN AfterConfig(p)
       ELSE Goto(p, "save") /\ UNCHANGED <<todo, result>>
    /\ UNCHANGED <<home, now, cmd, opts, budget, initHistory>>

(* Mistake: a dry run goes on to write.                                    *)
CheckConfigWet(p) ==
    /\ pc[p] = "check"
    /\ IF Refusal(p) # "none" THEN End(p, Refusal(p)) /\ UNCHANGED todo
       ELSE IF Has(p, "templatesOnly") THEN AfterConfig(p)
       ELSE Goto(p, IF config = "none" THEN "save" ELSE "move") /\ UNCHANGED <<todo, result>>
    /\ UNCHANGED <<home, now, cmd, opts, budget, initHistory>>

CheckConfig(p) ==
    /\ pc[p] = "check"
    /\ IF Refusal(p) # "none" THEN End(p, Refusal(p)) /\ UNCHANGED todo
       ELSE IF opts[p] \cap {"templatesOnly", "dryRun"} # {} THEN AfterConfig(p)
       ELSE Goto(p, IF config = "none" THEN "save" ELSE "move") /\ UNCHANGED <<todo, result>>
    /\ UNCHANGED <<home, now, cmd, opts, budget, initHistory>>

(* Mistake: init returns when the old config is safe.                      *)
MoveConfigReturns(p) ==
    /\ pc[p] = "move" /\ config # "none"
    /\ bak' = [bak EXCEPT ![now] = config] /\ config' = "none"
    /\ saving' = {} /\ moves' = [moves EXCEPT ![now] = @ + 1] /\ End(p, "ok")
    /\ UNCHANGED <<template, templateDir, now, cmd, opts, todo, budget, cuts, inited, overlapped>>

(* backupConfig: the name of the backup has a resolution of one second.    *)
MoveConfig(p) ==
    /\ pc[p] = "move"
    /\ IF config = "none"
       THEN End(p, "critical") /\ UNCHANGED <<config, saving, bak, moves>>
       ELSE /\ bak' = [bak EXCEPT ![now] = config] /\ config' = "none" /\ saving' = {}
            /\ moves' = [moves EXCEPT ![now] = @ + 1]
            /\ Goto(p, "save") /\ UNCHANGED result
    /\ UNCHANGED <<template, templateDir, now, cmd, opts, todo, budget, cuts, inited, overlapped>>

SaveOpen(p) ==
    /\ pc[p] = "save" /\ config' = "torn" /\ saving' = saving \cup {p}
    /\ Goto(p, "save2")
    /\ UNCHANGED <<bak, template, templateDir, now, cmd, opts, todo, result, budget, initHistory>>

(* The content arrives.  When the file has been moved away meanwhile, the  *)
(* backup is what this init wrote.                                         *)
SaveWrite(p) ==
    /\ pc[p] = "save2" /\ saving' = saving \ {p}
    /\ IF p \in saving
       THEN config' = "default" /\ UNCHANGED bak
       ELSE bak' = [s \in Second |-> IF bak[s] = "torn" THEN "default" ELSE bak[s]] /\ UNCHANGED config
    /\ AfterConfig(p)
    /\ UNCHANGED <<template, templateDir, now, cmd, opts, budget, initHistory>>

(* installTemplates and installRepoTemplates: truncate, then write.        *)
TemplateOpen(p) ==
    /\ pc[p] = "template"
    /\ template' = [template EXCEPT ![Min(todo[p])] = "empty"]
    /\ Goto(p, "template2")
    /\ UNCHANGED <<config, saving, bak, templateDir, now, cmd, opts, todo, result, budget, initHistory>>

TemplateWrite(p) ==
    /\ pc[p] = "template2"
    /\ template' = [template EXCEPT ![Min(todo[p])] = "whole"]
    /\ todo' = [todo EXCEPT ![p] = @ \ {Min(@)}]
    /\ IF todo'[p] = {} THEN AfterTemplates(p) ELSE Goto(p, "template") /\ UNCHANGED result
    /\ inited' = (inited \/ (todo'[p] = {} /\ ~Has(p, "templatesOnly")))
    /\ UNCHANGED <<config, saving, bak, templateDir, now, cmd, opts, budget, moves, cuts, overlapped>>

(* ensureGitTemplateDir: a foreign value is replaced only by force.        *)
SetTemplateDir(p) ==
    /\ pc[p] = "git"
    /\ IF templateDir = "other" /\ ~Has(p, "force")
       THEN End(p, "templateDir") /\ UNCHANGED templateDir
       ELSE /\ End(p, "ok")
            /\ templateDir' = IF Has(p, "dryRun") THEN templateDir ELSE "ours"
    /\ UNCHANGED <<config, saving, bak, template, now, cmd, opts, todo, budget, initHistory>>

-----------------------------------------------------------------------------
(* What a fault at a step leaves half done.                                *)
Cut(p) ==
    cuts' = cuts \cup
        (CASE pc[p] \in {"save", "save2"} -> {"config"}
           [] pc[p] \in {"template", "template2"} -> {"template"}
           [] pc[p] \in {"merge2", "merge3", "copy2", "copy3", "chmod"} -> {"hook"}
           [] pc[p] = "ignore2" -> {"ignore"}
           [] OTHER -> {})

(* A rename, a write or a git command fails.  A directory that cannot be   *)
(* made, in ensureInitDirs or installTemplates, ends init before its first *)
(* template, as a template that cannot be opened does.                     *)
InitFails(p) ==
    /\ pc[p] \in {"move", "save", "save2", "template", "template2", "git"}
    /\ Spend("fault") /\ Cut(p) /\ End(p, "critical")
    /\ UNCHANGED <<home, now, cmd, opts, todo, moves, inited, overlapped>>

InitStep(p) ==
    \/ InitStart(p) \/ CheckConfig(p) \/ MoveConfig(p) \/ SaveOpen(p) \/ SaveWrite(p)
    \/ TemplateOpen(p) \/ TemplateWrite(p) \/ SetTemplateDir(p) \/ InitFails(p)

(* The next second; a model of seconds for the names of backups, and of    *)
(* minutes for the debounce of BackupHooks.                                *)
Tick ==
    /\ now < Seconds /\ Spend("tick") /\ now' = now + 1
    /\ UNCHANGED <<home, process, initHistory>>

-----------------------------------------------------------------------------
HomeTypeOK ==
    /\ config \in Config /\ saving \subseteq Proc /\ bak \in [Second -> Config]
    /\ template \in [Template -> {"none", "empty", "whole"}]
    /\ templateDir \in {"unset", "other", "ours"} /\ now \in Second
    /\ moves \in [Second -> Nat]
    /\ cuts \subseteq {"config", "template", "hook", "ignore"}
    /\ inited \in BOOLEAN /\ overlapped \in BOOLEAN
=============================================================================
