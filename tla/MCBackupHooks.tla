----------------------------- MODULE MCBackupHooks -----------------------------
(* Instances of BackupHooks for TLC.                                       *)
EXTENDS BackupHooks, TLC

OneHost == [p \in Proc |-> "here"]

Budget(init, setup, event, fault, tick) ==
    [init |-> init, setup |-> setup, event |-> event, fault |-> fault, tick |-> tick]

SomeInits == {{"dir"}, {"dir", "force"}, {"templatesOnly"}, {"dir", "force", "dryRun"}}
SomeSetups == {{}, {"slug"}, {"worktree", "slug"}, {"noHooks"}, {"dryRun"}, {"force"}}

Scene(at, hooks, isEdited, cleans, may) ==
    [stage |-> at, userHooks |-> hooks, edited |-> isEdited,
     templateDirs |-> {"unset", "other"}, cleansFirst |-> cleans, budget |-> may]

Client ==
    {Scene("fresh", {}, BOOLEAN, FALSE, Budget(2, 0, 0, 1, 1)),
     Scene("fresh", {1}, BOOLEAN, FALSE, Budget(1, 1, 0, 1, 0)),
     Scene("inited", {1}, {FALSE}, FALSE, Budget(0, 2, 0, 1, 0)),
     Scene("installed", {1}, {TRUE}, FALSE, Budget(0, 1, 1, 0, 0)),
     Scene("installed", {}, {FALSE}, TRUE, Budget(0, 0, 3, 1, 1)),
     Scene("installed", {}, {FALSE}, FALSE, Budget(0, 0, 2, 1, 1))}
Rebase == {Scene("installed", {}, {FALSE}, FALSE, Budget(0, 0, 1, 0, 0))}
Advice == {Scene("installed", {1}, {FALSE}, FALSE, Budget(0, 1, 0, 0, 0))}

Symmetry == Permutations(Proc)
=============================================================================
