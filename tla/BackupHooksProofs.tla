-------------------------- MODULE BackupHooksProofs --------------------------
(***************************************************************************)
(* Theorems about BackupHooks for any number of processes, clock readings, *)
(* backup names and faults, and for any scene, with their proofs.          *)
(***************************************************************************)
EXTENDS BackupHooks, Induction, TLAPS

-----------------------------------------------------------------------------
(* The repository key: status and backup agree for any entries of the git  *)
(* config, not only for those a setup writes.                              *)
LEMMA SameSlug == ASSUME NEW levels, NEW isWorktree \in BOOLEAN
                  PROVE  StatusSlug(levels, isWorktree) = Get(levels)
  BY DEF StatusSlug, StatusConfig, Unset, Get

LEMMA SameKey ==
  ASSUME NEW style, NEW merge, NEW levels, NEW isWorktree \in BOOLEAN, NEW remote, NEW root
  PROVE  DeriveRepoKeyStatus(style, merge, levels, isWorktree, remote, root)
            = DeriveRepoKey(style, merge, levels, remote, root)
  BY SameSlug DEF DeriveRepoKeyStatus, DeriveRepoKey

(* Status shows the directory that a backup goes to.                       *)
THEOREM StatusAgrees == Spec => []StatusShowsBackupKey
<1>1. ASSUME NEW style \in Styles, NEW merge \in BOOLEAN, NEW remote \in {NoRemote, Origin},
             NEW root \in {Main} \cup Trees
      PROVE  DeriveRepoKeyStatus(style, merge, Levels(root.dir), root.dir = "worktree", remote, root)
                = DeriveRepoKey(style, merge, Levels(root.dir), remote, root)
  <2>1. PICK isWorktree \in BOOLEAN : isWorktree <=> root.dir = "worktree"
    OBVIOUS
  <2>2. DeriveRepoKeyStatus(style, merge, Levels(root.dir), isWorktree, remote, root)
            = DeriveRepoKey(style, merge, Levels(root.dir), remote, root)
    BY SameKey
  <2> QED
    BY <2>1, <2>2, Zenon
<1>2. StatusShowsBackupKey
  BY <1>1 DEF StatusShowsBackupKey
<1> QED
  BY <1>2, PTL

-----------------------------------------------------------------------------
(* Types, and what the place of a process says of its command, of the      *)
(* files it still has to visit and of the lock.                            *)
HookLoop == {"hook", "reserve", "merge", "merge2", "merge3", "copy", "copy2", "copy3", "chmod"}

PlaceAt(p) ==
    /\ pc[p] \in InitSteps => cmd[p] = "init"
    /\ pc[p] \in SetupSteps => cmd[p] = "setup"
    /\ pc[p] \in Running => cmd[p] \notin {"none", "init", "setup"}
    /\ pc[p] \in {"template", "template2"} => todo[p] # {}
    /\ pc[p] \in HookLoop => todo[p] # {} /\ todo[p] \subseteq Hook
    /\ pc[p] \in {"copyRepo", "finish", "release"} => status[p] = "held"

PlaceInv == \A p \in Proc : PlaceAt(p)

(* Only a hook has the flags by which git goes on behind it.               *)
FlagsAt(p) == opts[p] \cap {"amend", "rebase"} # {} => cmd[p] \notin {"none", "init", "setup"}
FlagsInv == \A p \in Proc : FlagsAt(p)

ProcessOK ==
    /\ pc \in [Proc -> {"idle", "ended"} \cup InitSteps \cup SetupSteps \cup Running]
    /\ cmd \in [Proc -> Commands] /\ result \in [Proc -> Results]
    /\ opts \in [Proc -> SUBSET (InitFlags \cup SetupFlags \cup {"amend", "rebase", "reflog"})]
    /\ todo \in [Proc -> SUBSET Template]

PlaceOK == TypeOK /\ PlaceInv

LEMMA MinOfTemplates == ASSUME NEW S \in SUBSET Template, S # {} PROVE Min(S) \in S
<1>1. S \in SUBSET Nat
  BY DEF Template, Hook, Ignore
<1> QED
  BY <1>1, MinIsMember

LEMMA InitPlaceOK == Init => PlaceOK
<1> SUFFICES ASSUME Init PROVE PlaceOK
  OBVIOUS
<1>1. PlaceInv
  BY DEF Init, PlaceInv, PlaceAt, InitSteps, SetupSteps, Running, HookLoop
<1>2. HomeTypeOK
  <2>1. config \in Config
    BY DEF Init, Config
  <2>2. template \in [Template -> {"none", "empty", "whole"}]
    BY DEF Init
  <2>3. templateDir \in {"unset", "other", "ours"}
    BY ScenesAssumption DEF Init
  <2>4. now \in Second /\ moves \in [Second -> Nat] /\ bak \in [Second -> Config]
    BY SecondsAssumption DEF Init, Second, Config
  <2>5. inited \in BOOLEAN /\ overlapped \in BOOLEAN
    <3>1. inited = HasTemplates /\ overlapped = FALSE
      BY DEF Init
    <3>2. inited \in BOOLEAN
      BY <3>1 DEF HasTemplates
    <3> QED
      BY <3>1, <3>2
  <2>6. saving = {} /\ cuts = {}
    BY DEF Init
  <2> QED
    BY <2>1, <2>2, <2>3, <2>4, <2>5, <2>6 DEF HomeTypeOK
<1>3. RepoTypeOK
  <2>1. /\ File("none") \in HookFile /\ File("user") \in HookFile /\ File("template") \in HookFile
        /\ Wrapper(0) \in HookFile /\ 0 \in Slot
    BY BackupsAssumption DEF File, Wrapper, HookFile, Slot
  <2>2. hook \in [Hook -> HookFile]
    BY <2>1 DEF Init
  <2>3. orig \in [Hook -> [Slot -> HookFile]]
    BY <2>1 DEF Init
  <2>4. owned \subseteq Hook \cup {0}
    BY ScenesAssumption DEF Init
  <2> QED
    BY <2>1, <2>2, <2>3, <2>4 DEF Init, RepoTypeOK, Installed
<1>4. Lock!LockTypeOK /\ Lock!Exclusive
  BY DEF Init, Lock!LockInit, Lock!LockTypeOK, Lock!Exclusive, Lock!Status
<1>5. /\ pc \in [Proc -> {"idle", "ended"} \cup InitSteps \cup SetupSteps \cup Running]
      /\ cmd \in [Proc -> Commands] /\ result \in [Proc -> Results]
      /\ opts \in [Proc -> SUBSET (InitFlags \cup SetupFlags \cup {"amend", "rebase", "reflog"})]
      /\ todo \in [Proc -> SUBSET Template]
  BY DEF Init, Commands, Results
<1>6. /\ scene \in Scenes /\ head \in Nat /\ saved \in 0 .. head /\ rebasing \in BOOLEAN
      /\ stamp \in StampFile /\ tmp \in [holds : StampFile, open : SUBSET Proc]
      /\ rewrites \subseteq [change : 0 .. head, how : {"ok", "failed"}]
      /\ mine \in [Proc -> 0 .. head] /\ copied \in [Proc -> 0 .. head]
  <2>1. /\ scene \in Scenes /\ head = 0 /\ saved = 0 /\ rebasing = FALSE
        /\ stamp = {} /\ tmp = [holds |-> {}, open |-> {}] /\ rewrites = {}
        /\ mine = [p \in Proc |-> 0] /\ copied = [p \in Proc |-> 0]
    BY DEF Init
  <2>2. rewrites \subseteq [change : 0 .. head, how : {"ok", "failed"}]
    BY <2>1
  <2>3. mine \in [Proc -> 0 .. head] /\ copied \in [Proc -> 0 .. head]
    BY <2>1
  <2>4. head \in Nat /\ saved \in 0 .. head
    BY <2>1
  <2> QED
    <3>1. stamp \in StampFile
      BY <2>1 DEF StampFile
    <3>2. tmp \in [holds : StampFile, open : SUBSET Proc]
      BY <2>1 DEF StampFile
    <3> QED
      BY <2>1, <2>2, <2>3, <2>4, <3>1, <3>2, Zenon
<1> QED
  BY <1>1, <1>2, <1>3, <1>4, <1>5, <1>6 DEF PlaceOK, TypeOK

(* A step of one process leaves the others where they are.                 *)
OthersStay(p) ==
    \A q \in Proc \ {p} :
        /\ pc'[q] = pc[q] /\ cmd'[q] = cmd[q] /\ todo'[q] = todo[q] /\ status'[q] = status[q]
        /\ result'[q] = result[q] /\ mine'[q] = mine[q] /\ copied'[q] = copied[q]
        /\ opts'[q] = opts[q]

LEMMA OthersKeepPlace ==
  ASSUME PlaceInv, NEW p \in Proc, OthersStay(p), PlaceAt(p)'
  PROVE  PlaceInv'
  BY DEF PlaceInv, PlaceAt, OthersStay

LEMMA OthersInitStep ==
  ASSUME ProcessOK, NEW p \in Proc, InitStep(p), UNCHANGED backup
  PROVE  OthersStay(p)
<1> USE DEF OthersStay, ProcessOK, Goto, End, backup
<1>1. CASE InitStart(p)
  BY <1>1 DEF InitStart, Begin
<1>2. CASE CheckConfig(p)
  BY <1>2 DEF CheckConfig, AfterConfig, AfterTemplates
<1>3. CASE MoveConfig(p) \/ SaveOpen(p) \/ TemplateOpen(p) \/ SetTemplateDir(p) \/ InitFails(p)
  BY <1>3 DEF MoveConfig, SaveOpen, TemplateOpen, SetTemplateDir, InitFails
<1>4. CASE SaveWrite(p) \/ TemplateWrite(p)
  BY <1>4 DEF SaveWrite, TemplateWrite, AfterConfig, AfterTemplates
<1> QED
  BY <1>1, <1>2, <1>3, <1>4 DEF InitStep

LEMMA AfterConfigPlace ==
  ASSUME NEW p \in Proc, ProcessOK, PlaceAt(p), pc[p] \in InitSteps,
         AfterConfig(p), UNCHANGED <<cmd, opts, status>>
  PROVE  ProcessOK' /\ PlaceAt(p)'
<1>1. Template # {}
  BY DEF Template, Ignore
<1>2. "ok" \in Results
  BY DEF Results
<1>3. CASE Has(p, "dryRun")
  <2>1. \/ pc' = [pc EXCEPT ![p] = "git"] /\ UNCHANGED result
        \/ pc' = [pc EXCEPT ![p] = "ended"] /\ result' = [result EXCEPT ![p] = "ok"]
    BY <1>3 DEF AfterConfig, AfterTemplates, Goto, End
  <2>2. UNCHANGED todo
    BY <1>3 DEF AfterConfig
  <2> QED
    BY <1>2, <2>1, <2>2 DEF ProcessOK, PlaceAt, InitSteps, SetupSteps, Running, HookLoop
<1>4. CASE ~Has(p, "dryRun")
  <2>1. pc' = [pc EXCEPT ![p] = "template"] /\ todo' = [todo EXCEPT ![p] = Template] /\ UNCHANGED result
    BY <1>4 DEF AfterConfig, Goto
  <2> QED
    BY <1>1, <2>1 DEF ProcessOK, PlaceAt, InitSteps, SetupSteps, Running, HookLoop
<1> QED
  BY <1>3, <1>4

LEMMA InitKeepsPlaceOK ==
  ASSUME PlaceOK, NEW p \in Proc, InitStep(p), UNCHANGED <<scene, repo, slot, setupHistory, backup>>
  PROVE  PlaceOK'
<1> USE DEF PlaceOK, Goto, End
<1>1. /\ RepoTypeOK' /\ scene' \in Scenes /\ (Lock!LockTypeOK /\ Lock!Exclusive)'
      /\ (saved \in 0 .. head /\ rebasing \in BOOLEAN /\ head \in Nat)'
      /\ (mine \in [Proc -> 0 .. head] /\ copied \in [Proc -> 0 .. head])'
      /\ (rewrites \subseteq [change : 0 .. head, how : {"ok", "failed"}])'
  BY DEF TypeOK, repo, setupHistory, backup, RepoTypeOK, Lock!LockTypeOK, Lock!Exclusive
<1>2. HomeTypeOK'
  <2> USE DEF TypeOK, HomeTypeOK
  <2>1. CASE InitStart(p)
    BY <2>1 DEF InitStart, Spend, Begin, home, NoteOverlap, Installing
  <2>2. CASE CheckConfig(p)
    BY <2>2 DEF CheckConfig, home, initHistory
  <2>3. CASE MoveConfig(p)
    BY <2>3 DEF MoveConfig, Config
  <2>4. CASE SaveOpen(p)
    BY <2>4 DEF SaveOpen, Config, initHistory
  <2>5. CASE SaveWrite(p)
    BY <2>5 DEF SaveWrite, Config, initHistory
  <2>6. CASE TemplateOpen(p)
    BY <2>6 DEF TemplateOpen, initHistory
  <2>7. CASE TemplateWrite(p)
    BY <2>7 DEF TemplateWrite
  <2>8. CASE SetTemplateDir(p)
    BY <2>8 DEF SetTemplateDir, initHistory
  <2>9. CASE InitFails(p)
    BY <2>9 DEF InitFails, Cut, home
  <2> QED
    BY <2>1, <2>2, <2>3, <2>4, <2>5, <2>6, <2>7, <2>8, <2>9 DEF InitStep
<1>3. ProcessOK' /\ PlaceAt(p)'
  <2>1. ProcessOK /\ PlaceAt(p)
    BY DEF TypeOK, ProcessOK, PlaceInv
  <2> USE <2>1 DEF ProcessOK, PlaceAt, InitSteps, SetupSteps, Running, HookLoop
  <2>2. {"init"} \subseteq Commands
    BY DEF Commands
  <2>3. {"none", "ok", "critical", "exists", "noDir", "templateDir"} \subseteq Results
    BY DEF Results
  <2>4. Template # {}
    BY DEF Template, Ignore
  <2>5. CASE InitStart(p)
    <3>1. PICK flags \in InitOptions : Begin(p, "init", flags, "check")
      BY <2>5 DEF InitStart
    <3>2. flags \in SUBSET (InitFlags \cup SetupFlags \cup {"amend", "rebase"})
      BY InitOptionsAssumption
    <3> QED
      BY <3>1, <3>2, <2>2, <2>3 DEF Begin
  <2>6. CASE CheckConfig(p)
    <3>1. CASE AfterConfig(p) /\ UNCHANGED <<cmd, opts, status>>
      BY <2>6, <3>1, AfterConfigPlace DEF CheckConfig
    <3> QED
      BY <2>6, <2>3, <3>1 DEF CheckConfig, Refusal, backup
  <2>7. CASE MoveConfig(p)
    BY <2>7, <2>3 DEF MoveConfig
  <2>8. CASE SaveOpen(p)
    BY <2>8 DEF SaveOpen
  <2>9. CASE SaveWrite(p)
    BY <2>9, AfterConfigPlace DEF SaveWrite, backup
  <2>10. CASE TemplateOpen(p)
    BY <2>10 DEF TemplateOpen
  <2>11. CASE TemplateWrite(p)
    BY <2>11, <2>3 DEF TemplateWrite, AfterTemplates
  <2>12. CASE SetTemplateDir(p)
    BY <2>12, <2>3 DEF SetTemplateDir
  <2>13. CASE InitFails(p)
    BY <2>13, <2>3 DEF InitFails
  <2> QED
    BY <2>5, <2>6, <2>7, <2>8, <2>9, <2>10, <2>11, <2>12, <2>13 DEF InitStep
<1>4. PlaceInv'
  <2>1. ProcessOK /\ PlaceInv
    BY DEF TypeOK, ProcessOK
  <2> QED
    BY <1>3, <2>1, OthersInitStep, OthersKeepPlace
<1> QED
  BY <1>1, <1>2, <1>3, <1>4 DEF TypeOK, ProcessOK, backup

-----------------------------------------------------------------------------
(* The same for setup.                                                     *)
SetupAny(p) == SetupStart(p) \/ SetupStep(p) \/ SetupFails(p)

LEMMA OthersSetupStep ==
  ASSUME NEW p \in Proc, ProcessOK, SetupAny(p), UNCHANGED backup
  PROVE  OthersStay(p)
<1> USE DEF OthersStay, ProcessOK, Goto, End, Ends, Continue, backup
<1>1. CASE SetupStart(p)
  BY <1>1 DEF SetupStart, Begin
<1>2. CASE CheckSetup(p) \/ ReadHook(p) \/ Reserve(p) \/ MoveHook(p) \/ SetupFails(p)
  BY <1>2 DEF CheckSetup, ReadHook, Reserve, MoveHook, SetupFails
<1>3. CASE WrapperOpen(p) \/ WrapperWrite(p) \/ CopyOpen(p) \/ CopyWrite(p) \/ CopyMode(p) \/ Enable(p)
  BY <1>3 DEF WrapperOpen, WrapperWrite, CopyOpen, CopyWrite, CopyMode, MakeExecutable, Enable
<1>4. CASE Chmod(p)
  BY <1>4 DEF Chmod, NextHook
<1>5. CASE CheckIgnore(p) \/ WriteIgnore(p)
  BY <1>5 DEF CheckIgnore, WriteIgnore, Last
<1>6. CASE SetSlug(p) \/ SetWorktreeSlug(p)
  BY <1>6 DEF SetSlug, SetWorktreeSlug
<1> QED
  BY <1>1, <1>2, <1>3, <1>4, <1>5, <1>6 DEF SetupAny, SetupStep

LEMMA NextHookPlace ==
  ASSUME NEW p \in Proc, ProcessOK, PlaceAt(p), pc[p] = "chmod",
         NextHook(p), UNCHANGED <<cmd, opts, status>>
  PROVE  ProcessOK' /\ PlaceAt(p)'
<1>1. H(p) \in todo[p]
  BY MinOfTemplates DEF ProcessOK, PlaceAt, HookLoop, H
<1> QED
  BY <1>1 DEF NextHook, ProcessOK, PlaceAt, Goto, InitSteps, SetupSteps, Running, HookLoop

LEMMA LastPlace ==
  ASSUME NEW p \in Proc, ProcessOK, PlaceAt(p), pc[p] \in {"ignore", "ignore2"},
         Last(p), UNCHANGED <<cmd, opts, status>>
  PROVE  ProcessOK' /\ PlaceAt(p)'
<1>1. "ok" \in Results
  BY DEF Results
<1> QED
  BY <1>1 DEF Last, ProcessOK, PlaceAt, Goto, End, Ends, Continue, InitSteps, SetupSteps, Running, HookLoop

LEMMA SetupKeepsPlace ==
  ASSUME NEW p \in Proc, ProcessOK, PlaceAt(p), SetupAny(p), UNCHANGED backup
  PROVE  ProcessOK' /\ PlaceAt(p)'
<1> USE DEF ProcessOK, PlaceAt, InitSteps, SetupSteps, Running, HookLoop, Goto, End, Ends, Continue
<1>1. {"setup"} \subseteq Commands
  BY DEF Commands
<1>2. {"none", "ok", "critical", "usage", "noTemplates", "noHooks"} \subseteq Results
  BY DEF Results
<1>3. UNCHANGED status
  BY DEF backup
<1>4. CASE SetupStart(p)
  <2>1. PICK flags \in SetupOptions : Begin(p, "setup", flags, "setup")
    BY <1>4 DEF SetupStart
  <2>2. flags \in SUBSET (InitFlags \cup SetupFlags \cup {"amend", "rebase"})
    BY SetupOptionsAssumption
  <2> QED
    BY <2>1, <2>2, <1>1, <1>2, <1>3 DEF Begin
<1>5. CASE CheckSetup(p)
  <2>1. Files \in SUBSET Template /\ Files \subseteq Hook
    BY DEF Files, Template
  <2>2. Refused(p) \in {"none", "usage", "noTemplates", "noHooks"}
    BY DEF Refused
  <2>3. Refused(p) = "none" => Files # {}
    BY DEF Refused
  <2>4. FirstStep(p) \in {"ignore", "enable", "hook"}
    BY DEF FirstStep
  <2> HIDE DEF Files, Refused, FirstStep
  <2>5. CASE Refused(p) # "none"
    <3>1. /\ pc' = [pc EXCEPT ![p] = "ended"] /\ result' = [result EXCEPT ![p] = Refused(p)]
          /\ UNCHANGED <<todo, cmd, opts>>
      BY <1>5, <2>5 DEF CheckSetup
    <3>2. Refused(p) \in Results
      BY <2>2, <1>2
    <3> QED
      BY <3>1, <3>2, <1>3
  <2>6. CASE Refused(p) = "none" /\ Has(p, "dryRun")
    BY <1>5, <2>6, <1>2, <1>3 DEF CheckSetup
  <2>7. CASE Refused(p) = "none" /\ ~Has(p, "dryRun")
    <3>1. /\ pc[p] = "setup" /\ UNCHANGED <<result, cmd, opts>>
          /\ pc' = [pc EXCEPT ![p] = FirstStep(p)] /\ todo' = [todo EXCEPT ![p] = Files]
      BY <1>5, <2>7 DEF CheckSetup
    <3>2. pc'[p] \in {"ignore", "enable", "hook"} /\ todo'[p] = Files /\ cmd'[p] = "setup"
      BY <3>1, <2>4
    <3>3. PlaceAt(p)'
      BY <3>2, <2>1, <2>3, <2>7
    <3> QED
      BY <3>1, <3>3, <2>1, <2>4
  <2> QED
    BY <2>5, <2>6, <2>7
<1>6. CASE ReadHook(p) \/ Reserve(p) \/ MoveHook(p)
  BY <1>6, <1>2, <1>3 DEF ReadHook, Reserve, MoveHook
<1>7. CASE WrapperOpen(p) \/ WrapperWrite(p) \/ CopyOpen(p) \/ CopyWrite(p) \/ CopyMode(p) \/ Enable(p)
  <2>1. CASE WrapperOpen(p) \/ WrapperWrite(p)
    BY <2>1, <1>2, <1>3 DEF WrapperOpen, WrapperWrite
  <2>2. CASE CopyOpen(p) \/ CopyWrite(p) \/ CopyMode(p)
    BY <2>2, <1>2, <1>3 DEF CopyOpen, CopyWrite, CopyMode, MakeExecutable
  <2>3. CASE Enable(p)
    BY <2>3, <1>2, <1>3 DEF Enable
  <2> QED
    BY <1>7, <2>1, <2>2, <2>3
<1>8. CASE Chmod(p)
  <2>1. CASE Ends(p, "critical")
    BY <1>8, <2>1, <1>2, <1>3 DEF Chmod
  <2>2. CASE NextHook(p)
    BY <1>8, <2>2, <1>3, NextHookPlace DEF Chmod
  <2> QED
    BY <1>8, <2>1, <2>2 DEF Chmod
<1>9. CASE CheckIgnore(p)
  <2>1. CASE Last(p)
    BY <1>9, <2>1, <1>3, LastPlace DEF CheckIgnore
  <2>2. CASE Continue(p, "ignore2")
    BY <1>9, <2>2, <1>3 DEF CheckIgnore
  <2> QED
    BY <1>9, <2>1, <2>2 DEF CheckIgnore
<1>10. CASE WriteIgnore(p)
  BY <1>10, <1>3, LastPlace DEF WriteIgnore
<1>11. CASE SetSlug(p) \/ SetWorktreeSlug(p)
  <2>1. CASE SetSlug(p)
    BY <2>1, <1>2, <1>3 DEF SetSlug
  <2>2. CASE SetWorktreeSlug(p)
    BY <2>2, <1>2, <1>3 DEF SetWorktreeSlug
  <2> QED
    BY <1>11, <2>1, <2>2
<1>12. CASE SetupFails(p)
  BY <1>12, <1>2, <1>3 DEF SetupFails
<1> QED
  BY <1>4, <1>5, <1>6, <1>7, <1>8, <1>9, <1>10, <1>11, <1>12 DEF SetupAny, SetupStep

LEMMA SetupKeepsRepo ==
  ASSUME NEW p \in Proc, ProcessOK, PlaceAt(p), HomeTypeOK, RepoTypeOK, SetupAny(p)
  PROVE  RepoTypeOK'
<1> USE DEF RepoTypeOK, repo, setupHistory
<1>1. pc[p] \in HookLoop => H(p) \in Hook
  BY MinOfTemplates DEF ProcessOK, PlaceAt, H
<1>2. /\ \A kind \in {"none", "empty", "template", "plain"} : File(kind) \in HookFile
      /\ \A k \in Slot : Wrapper(k) \in HookFile
  BY DEF HookFile
<1> HIDE DEF HookFile, File, Wrapper
<1>3. CASE SetupStart(p)
  BY <1>3 DEF SetupStart
<1>4. CASE CheckSetup(p) \/ ReadHook(p) \/ SetupFails(p)
  BY <1>4 DEF CheckSetup, ReadHook, SetupFails
<1>5. CASE Reserve(p)
  <2> DEFINE free == {k \in Slot : orig[H(p)][k].kind = "none"}
  <2>1. CASE free = {}
    BY <1>5, <2>1 DEF Reserve
  <2>2. CASE free # {}
    <3>1. Min(free) \in free
      <4>1. free \in SUBSET Nat
        BY BackupsAssumption DEF Slot
      <4> QED
        BY <2>2, <4>1, MinIsMember
    <3>2. slot' = [slot EXCEPT ![p] = Min(free)]
      BY <1>5, <2>2 DEF Reserve
    <3> QED
      BY <1>5, <3>1, <3>2 DEF Reserve
  <2> QED
    BY <2>1, <2>2
<1>6. CASE MoveHook(p)
  BY <1>6, <1>1, <1>2 DEF MoveHook, HookLoop
<1>7. CASE WrapperOpen(p) \/ WrapperWrite(p)
  <2>1. Wrapper(slot[p]) \in HookFile /\ File("empty") \in HookFile
    BY <1>2
  <2> QED
    BY <1>7, <2>1 DEF WrapperOpen, WrapperWrite
<1>8. CASE CopyOpen(p) \/ CopyWrite(p)
  BY <1>8, <1>1, <1>2 DEF CopyOpen, CopyWrite, HookLoop
<1>9. CASE CopyMode(p) \/ Chmod(p)
  BY <1>9, <1>1, <1>2 DEF CopyMode, Chmod, MakeExecutable, HookLoop
<1>10. CASE Enable(p)
  BY <1>10 DEF Enable
<1>11. CASE CheckIgnore(p)
  BY <1>11 DEF CheckIgnore, Last
<1>12. CASE WriteIgnore(p)
  BY <1>12 DEF WriteIgnore, Last, HomeTypeOK, Template
<1>13. CASE SetSlug(p) \/ SetWorktreeSlug(p)
  BY <1>13 DEF SetSlug, SetWorktreeSlug
<1> QED
  BY <1>3, <1>4, <1>5, <1>6, <1>7, <1>8, <1>9, <1>10, <1>11, <1>12, <1>13 DEF SetupAny, SetupStep

-----------------------------------------------------------------------------
(* The same for git, the hooks and the runs they start.                    *)
BackupOK ==
    /\ head \in Nat /\ saved \in 0 .. head /\ rebasing \in BOOLEAN
    /\ stamp \in StampFile /\ tmp \in [holds : StampFile, open : SUBSET Proc]
    /\ rewrites \subseteq [change : 0 .. head, how : {"ok", "failed"}]
    /\ Lock!LockTypeOK /\ Lock!Exclusive
    /\ mine \in [Proc -> 0 .. head] /\ copied \in [Proc -> 0 .. head]

ClientStep(p) ==
    GitCommit(p) \/ RebaseFinish(p) \/ Manual(p) \/ HookStep(p) \/ CopyFails(p) \/ StampFails(p) \/ Kill(p)

LEMMA HookEndsPlace ==
  ASSUME NEW p \in Proc, NEW res \in Results, ProcessOK, PlaceAt(p), FlagsAt(p),
         HookEnds(p, res), UNCHANGED <<cmd, opts, todo>>
  PROVE  ProcessOK' /\ PlaceAt(p)'
<1>1. /\ pc' \in {[pc EXCEPT ![p] = l] : l \in {"rewrite", "clean", "ended"}}
      /\ result' = [result EXCEPT ![p] = res]
  BY DEF HookEnds, Goto
<1>2. pc'[p] \in {"rewrite", "clean"} => cmd[p] \notin {"none", "init", "setup"}
  BY DEF HookEnds, Has, Goto, FlagsAt, ProcessOK
<1> QED
  BY <1>1, <1>2 DEF ProcessOK, PlaceAt, InitSteps, SetupSteps, Running, HookLoop

LEMMA RunHookPlace ==
  ASSUME NEW p \in Proc, NEW command \in {"commit", "merge", "amend", "rebase"},
         NEW flags \in SUBSET {"amend", "rebase", "reflog"}, ProcessOK, PlaceAt(p),
         RunHook(p, command, flags), UNCHANGED todo
  PROVE  ProcessOK' /\ PlaceAt(p)'
<1>1. command \in Commands /\ {"none", "notInstalled"} \subseteq Results
  BY DEF Commands, Results, Skips
<1>2. /\ pc' \in {[pc EXCEPT ![p] = l] : l \in {"preflight", "rewrite", "clean", "ended"}}
      /\ cmd' = [cmd EXCEPT ![p] = command] /\ opts' = [opts EXCEPT ![p] = flags]
      /\ result' \in {[result EXCEPT ![p] = r] : r \in {"none", "notInstalled"}}
  BY DEF RunHook, Goto
<1> QED
  <2>1. ProcessOK'
    BY <1>1, <1>2 DEF ProcessOK, Running
  <2>2. pc'[p] \in {"preflight", "rewrite", "clean", "ended"} /\ cmd'[p] = command
    BY <1>2 DEF ProcessOK
  <2> QED
    BY <2>1, <2>2 DEF PlaceAt, InitSteps, SetupSteps, HookLoop

LEMMA OthersClientStep ==
  ASSUME NEW p \in Proc, ProcessOK, BackupOK, ClientStep(p)
  PROVE  OthersStay(p)
<1> USE DEF OthersStay, ProcessOK, BackupOK, Lock!LockTypeOK, Goto, Resume, HookEnds, RunHook, backup,
            Lock!Grant, Lock!Refuse, Lock!Fail, Lock!GiveBack, Lock!Keep, Lock!Die
<1>1. CASE GitCommit(p) \/ RebaseFinish(p)
  BY <1>1 DEF GitCommit, RebaseFinish, Change
<1>2. CASE Manual(p)
  BY <1>2 DEF Manual, Begin
<1>3. CASE AmendRewrite(p) \/ RebaseClean(p)
  BY <1>3 DEF AmendRewrite, RebaseClean
<1>4. CASE Preflight(p) \/ CheckRebase(p) \/ CheckDebounce(p)
  BY <1>4 DEF Preflight, CheckRebase, CheckDebounce
<1>5. CASE AcquireLock(p)
  BY <1>5 DEF AcquireLock, Ended, Stamped
<1>6. CASE Copy(p) \/ Finish(p) \/ CopyFails(p)
  BY <1>6 DEF Copy, Finish, CopyFails
<1>7. CASE ReleaseLock(p)
  BY <1>7 DEF ReleaseLock, Ended, Stamped
<1>8. CASE TruncateStamp(p) \/ WriteStamp(p) \/ MoveStamp(p) \/ StampFails(p)
  BY <1>8 DEF TruncateStamp, WriteStamp, WriteTime, MoveStamp, StampFails
<1>9. CASE Kill(p)
  BY <1>9 DEF Kill
<1> QED
  BY <1>1, <1>2, <1>3, <1>4, <1>5, <1>6, <1>7, <1>8, <1>9 DEF ClientStep, HookStep

LEMMA ClientKeepsPlace ==
  ASSUME NEW p \in Proc, ProcessOK, PlaceAt(p), FlagsAt(p), BackupOK, ClientStep(p)
  PROVE  ProcessOK' /\ PlaceAt(p)'
<1>1. /\ {"none", "ok", "critical", "usage", "failed", "busy", "interrupted", "killed", "disabled",
          "noConfig", "inRebase", "debounced"} \subseteq Results
      /\ result[p] \in Results
  BY DEF Results, Skips, ProcessOK
<1> HIDE DEF Results, Commands
<1>2. CASE GitCommit(p)
  <2>1. PICK command \in {"commit", "merge"}, flags \in SUBSET {"amend", "rebase", "reflog"} : RunHook(p, command, flags)
    BY <1>2 DEF GitCommit
  <2> QED
    BY <1>2, <2>1, RunHookPlace DEF GitCommit, Change
<1>3. CASE RebaseFinish(p)
  BY <1>3, RunHookPlace DEF RebaseFinish, Change
<1>4. CASE Manual(p)
  BY <1>4, <1>1 DEF Manual, Begin, ProcessOK, PlaceAt, Goto, InitSteps, SetupSteps, Running, HookLoop, Commands
<1>5. CASE AmendRewrite(p)
  BY <1>5, RunHookPlace DEF AmendRewrite
<1>6. CASE RebaseClean(p)
  BY <1>6 DEF RebaseClean, ProcessOK, PlaceAt, Goto, InitSteps, SetupSteps, Running, HookLoop
<1>7. CASE Preflight(p) \/ CheckRebase(p) \/ CheckDebounce(p)
  <2>1. UNCHANGED <<cmd, opts, todo, status>>
    BY <1>7 DEF Preflight, CheckRebase, CheckDebounce, backup
  <2>2. CASE \E res \in Results : HookEnds(p, res)
    BY <1>7, <2>1, <2>2, HookEndsPlace DEF Preflight, CheckRebase, CheckDebounce
  <2>3. CASE \E l \in {"inRebase?", "debounce?", "lock"} : Resume(p, l)
    BY <1>7, <2>1, <2>3 DEF Resume, Preflight, CheckRebase, CheckDebounce, ProcessOK, PlaceAt, Goto,
                            InitSteps, SetupSteps, Running, HookLoop
  <2> QED
    BY <1>7, <1>1, <2>2, <2>3 DEF Preflight, CheckRebase, CheckDebounce
<1>8. ASSUME NEW res \in Results, Ended(p, res), pc[p] \in Running, UNCHANGED <<cmd, opts, todo>>
      PROVE  ProcessOK' /\ PlaceAt(p)'
  <2>1. CASE HookEnds(p, res)
    BY <1>8, <2>1, HookEndsPlace DEF Running
  <2>2. CASE Stamped(p, res)
    BY <1>8, <2>2 DEF Stamped, ProcessOK, PlaceAt, Goto, InitSteps, SetupSteps, Running, HookLoop
  <2> QED
    BY <1>8, <2>1, <2>2 DEF Ended
<1>9. CASE AcquireLock(p)
  <2>1. pc[p] \in Running /\ UNCHANGED <<cmd, opts, todo>>
    BY <1>9 DEF AcquireLock, Running
  <2>2. CASE Lock!Grant(p) /\ Resume(p, "copyRepo")
    BY <1>9, <2>1, <2>2 DEF Resume, AcquireLock, Lock!Grant, ProcessOK, PlaceAt, Goto, BackupOK,
                            Lock!LockTypeOK,
                            InitSteps, SetupSteps, Running, HookLoop
  <2>3. CASE Ended(p, "busy") \/ Ended(p, "failed")
    BY <2>1, <2>3, <1>1, <1>8
  <2> QED
    BY <1>9, <2>2, <2>3 DEF AcquireLock
<1>10. CASE ReleaseLock(p)
  BY <1>10, <1>1, <1>8 DEF ReleaseLock, Running
<1>11. CASE Copy(p) \/ Finish(p) \/ CopyFails(p)
  <2> USE DEF ProcessOK, PlaceAt, Goto, InitSteps, SetupSteps, Running, HookLoop
  <2>1. CASE Copy(p)
    BY <2>1 DEF Copy, Resume
  <2>2. CASE Finish(p)
    BY <2>2, <1>1 DEF Finish
  <2>3. CASE CopyFails(p)
    <3>1. PICK res \in {"failed", "interrupted"} : result' = [result EXCEPT ![p] = res]
      BY <2>3 DEF CopyFails
    <3>2. pc' = [pc EXCEPT ![p] = "release"] /\ UNCHANGED <<cmd, opts, todo, status>>
      BY <2>3 DEF CopyFails, backup
    <3>3. status[p] = "held" /\ cmd[p] \notin {"none", "init", "setup"}
      BY <2>3 DEF CopyFails
    <3> QED
      BY <3>1, <3>2, <3>3, <1>1
  <2> QED
    BY <1>11, <2>1, <2>2, <2>3
<1>12. CASE TruncateStamp(p) \/ WriteStamp(p)
  BY <1>12 DEF TruncateStamp, WriteStamp, WriteTime, Resume, ProcessOK, PlaceAt, Goto, InitSteps, SetupSteps,
               Running, HookLoop
<1>13. CASE MoveStamp(p) \/ StampFails(p)
  BY <1>13, <1>1, HookEndsPlace DEF MoveStamp, StampFails
<1>14. CASE Kill(p)
  BY <1>14, <1>1, HookEndsPlace DEF Kill
<1> QED
  BY <1>2, <1>3, <1>4, <1>5, <1>6, <1>7, <1>9, <1>10, <1>11, <1>12, <1>13, <1>14 DEF ClientStep, HookStep

LEMMA ClientKeepsBackup ==
  ASSUME NEW p \in Proc, ProcessOK, now \in Second, BackupOK, ClientStep(p)
  PROVE  BackupOK'
<1> USE DEF BackupOK
<1>1. /\ \A q \in Proc : mine[q] \in 0 .. head /\ copied[q] \in 0 .. head
      /\ head \in 0 .. head
  OBVIOUS
<1>2. CASE GitCommit(p) \/ RebaseFinish(p) \/ Manual(p)
  <2>1. head' \in {head, head + 1} /\ mine'[p] \in 0 .. head'
    BY <1>2 DEF GitCommit, RebaseFinish, Manual, Change
  <2>2. status' = [status EXCEPT ![p] = "idle"] /\ UNCHANGED <<saved, stamp, tmp, copied, rewrites>>
    BY <1>2 DEF GitCommit, RebaseFinish, Manual, Change, RunHook
  <2>3. mine' \in [Proc -> 0 .. head']
    BY <1>2, <2>1 DEF GitCommit, RebaseFinish, Manual, Change
  <2>4. (Lock!LockTypeOK /\ Lock!Exclusive)'
    BY <2>2 DEF Lock!LockTypeOK, Lock!Exclusive, Lock!Status
  <2>5. rebasing' \in BOOLEAN
    BY <1>2 DEF GitCommit, RebaseFinish, Manual, Change
  <2> QED
    BY <2>1, <2>2, <2>3, <2>4, <2>5
<1>3. CASE AmendRewrite(p)
  <2>1. (Lock!LockTypeOK /\ Lock!Exclusive)'
    BY <1>3 DEF AmendRewrite, RunHook, Lock!LockTypeOK, Lock!Exclusive, Lock!Status
  <2> QED
    BY <1>3, <2>1 DEF AmendRewrite
<1>4. ASSUME UNCHANGED <<status, head>>
      PROVE  (Lock!LockTypeOK /\ Lock!Exclusive)' /\ head' \in Nat
  BY <1>4 DEF Lock!LockTypeOK, Lock!Exclusive
<1>5. CASE RebaseClean(p)
  BY <1>4, <1>5 DEF RebaseClean
<1>6. CASE Preflight(p) \/ CheckRebase(p) \/ CheckDebounce(p) \/ CopyFails(p) \/ StampFails(p)
  BY <1>4, <1>6 DEF Preflight, CheckRebase, CheckDebounce, CopyFails, StampFails, backup
<1>7. CASE Copy(p)
  BY <1>1, <1>4, <1>7 DEF Copy
<1>8. CASE Finish(p)
  BY <1>1, <1>4, <1>8 DEF Finish
<1>9. CASE TruncateStamp(p) \/ WriteStamp(p) \/ MoveStamp(p)
  <2>1. /\ stamp' \in {stamp, {now}, tmp.holds}
        /\ UNCHANGED <<head, saved, rebasing, status, mine, copied, rewrites>>
    BY <1>9 DEF TruncateStamp, WriteStamp, WriteTime, MoveStamp
  <2>2. \/ UNCHANGED tmp
        \/ \E holds \in {{}, {Blank}, {now}}, open \in {{}, tmp.open \cup {p}, tmp.open \ {p}} :
              tmp' = [holds |-> holds, open |-> open]
    BY <1>9 DEF TruncateStamp, WriteStamp, WriteTime, MoveStamp
  <2>3. {{}, {Blank}, {now}} \subseteq StampFile
    BY DEF StampFile
  <2>4. stamp \in StampFile /\ tmp \in [holds : StampFile, open : SUBSET Proc] /\ tmp.holds \in StampFile
        /\ tmp.open \subseteq Proc
    OBVIOUS
  <2>5. stamp' \in StampFile
    BY <2>1, <2>3, <2>4
  <2>6. tmp' \in [holds : StampFile, open : SUBSET Proc]
    <3>1. CASE UNCHANGED tmp
      BY <2>4, <3>1
    <3>2. ASSUME NEW holds \in {{}, {Blank}, {now}}, NEW open \in {{}, tmp.open \cup {p}, tmp.open \ {p}},
                 tmp' = [holds |-> holds, open |-> open]
          PROVE  tmp' \in [holds : StampFile, open : SUBSET Proc]
      <4>1. holds \in StampFile
        BY <2>3
      <4>2. open \in SUBSET Proc
        BY <2>4
      <4> QED
        BY <3>2, <4>1, <4>2
    <3> QED
      BY <2>2, <3>1, <3>2
  <2> QED
    BY <1>4, <2>1, <2>5, <2>6
<1>10. ASSUME NEW res, Ended(p, res), UNCHANGED <<head, mine>>
       PROVE  rewrites' \subseteq [change : 0 .. head', how : {"ok", "failed"}]
  BY <1>1, <1>10 DEF Ended, Stamped
<1>11. CASE AcquireLock(p) \/ ReleaseLock(p)
  <2>1. (Lock!LockTypeOK /\ Lock!Exclusive)'
    BY <1>11 DEF AcquireLock, ReleaseLock, Lock!LockTypeOK, Lock!Exclusive, Lock!Status, Lock!Grant,
                 Lock!Refuse, Lock!Fail, Lock!GiveBack, Lock!Keep
  <2>2. UNCHANGED <<head, saved, rebasing, stamp, tmp, mine, copied>>
    BY <1>11 DEF AcquireLock, ReleaseLock
  <2>3. UNCHANGED rewrites \/ \E res : Ended(p, res)
    BY <1>11 DEF AcquireLock, ReleaseLock
  <2> QED
    BY <2>1, <2>2, <2>3, <1>10
<1>12. CASE Kill(p)
  <2>1. (Lock!LockTypeOK /\ Lock!Exclusive)'
    BY <1>12 DEF Kill, Lock!LockTypeOK, Lock!Exclusive, Lock!Status, Lock!Die
  <2> QED
    BY <1>12, <2>1 DEF Kill
<1> QED
  BY <1>2, <1>3, <1>5, <1>6, <1>7, <1>8, <1>9, <1>11, <1>12 DEF ClientStep, HookStep

LEMMA ClientKeepsHome ==
  ASSUME NEW p \in Proc, HomeTypeOK, RepoTypeOK, ClientStep(p)
  PROVE  HomeTypeOK' /\ RepoTypeOK'
<1>1. CASE UNCHANGED <<now, install>>
  BY <1>1 DEF install, home, initHistory, repo, setupHistory, HomeTypeOK, RepoTypeOK
<1>2. CASE Kill(p)
  BY <1>2 DEF Kill, Cut, home, repo, setupHistory, HomeTypeOK, RepoTypeOK
<1> QED
  BY <1>1, <1>2 DEF ClientStep, HookStep, GitCommit, RebaseFinish, Change, Manual, AmendRewrite, RebaseClean,
                    Preflight, CheckRebase, CheckDebounce, AcquireLock, Copy, Finish, CopyFails, ReleaseLock,
                    TruncateStamp, WriteStamp, WriteTime, MoveStamp, StampFails

LEMMA KeepsFlags ==
  ASSUME ProcessOK, FlagsInv, NEW p \in Proc, OthersStay(p),
         \/ InitStep(p)
         \/ SetupAny(p)
         \/ ClientStep(p)
  PROVE  FlagsInv'
<1>1. FlagsAt(p)'
  <2> USE DEF FlagsInv, FlagsAt, ProcessOK, InitFlags, SetupFlags
  <2>1. CASE UNCHANGED <<cmd, opts>>
    BY <2>1
  <2>2. CASE InitStart(p)
    BY <2>2, InitOptionsAssumption DEF InitStart, Begin
  <2>3. CASE SetupStart(p)
    BY <2>3, SetupOptionsAssumption DEF SetupStart, Begin
  <2>4. CASE \E command \in {"commit", "merge", "amend", "rebase"}, flags \in SUBSET {"amend", "rebase", "reflog"} :
                RunHook(p, command, flags)
    BY <2>4 DEF RunHook
  <2>5. CASE Manual(p)
    BY <2>5 DEF Manual, Begin
  <2>6. CASE InitStep(p)
    BY <2>1, <2>2, <2>6 DEF InitStep, CheckConfig, MoveConfig, SaveOpen, SaveWrite, TemplateOpen, TemplateWrite,
                            SetTemplateDir, InitFails
  <2>7. CASE SetupAny(p)
    BY <2>1, <2>3, <2>7 DEF SetupAny, SetupStep, CheckSetup, ReadHook, Reserve, MoveHook, WrapperOpen,
                            WrapperWrite,
                            CopyOpen, CopyWrite, CopyMode, MakeExecutable, Chmod, Enable, CheckIgnore,
                            WriteIgnore, SetSlug, SetWorktreeSlug,
                            SetupFails
  <2>8. CASE GitCommit(p) \/ RebaseFinish(p) \/ AmendRewrite(p)
    BY <2>4, <2>8 DEF GitCommit, RebaseFinish, AmendRewrite
  <2>9. CASE ClientStep(p)
    BY <2>1, <2>5, <2>8, <2>9 DEF ClientStep, HookStep, RebaseClean, Preflight, CheckRebase, CheckDebounce,
                                  AcquireLock, Copy, Finish, CopyFails, ReleaseLock, TruncateStamp,
                                  WriteStamp, WriteTime, MoveStamp,
                                  StampFails, Kill
  <2> QED
    BY <2>6, <2>7, <2>9
<1> QED
  BY <1>1 DEF FlagsInv, FlagsAt, OthersStay

TypeInv == PlaceOK /\ FlagsInv

LEMMA TypeInvParts ==
  TypeInv <=> /\ scene \in Scenes /\ HomeTypeOK /\ RepoTypeOK /\ ProcessOK /\ BackupOK
              /\ PlaceInv /\ FlagsInv
  BY DEF TypeInv, PlaceOK, TypeOK, ProcessOK, BackupOK

LEMMA TypeInvPartsNext ==
  ASSUME scene' \in Scenes, HomeTypeOK', RepoTypeOK', ProcessOK', BackupOK', PlaceInv', FlagsInv'
  PROVE  TypeInv'
  BY DEF TypeInv, PlaceOK, TypeOK, ProcessOK, BackupOK

LEMMA SetupKeepsHome ==
  ASSUME HomeTypeOK, BackupOK, NEW p \in Proc, SetupAny(p), UNCHANGED backup
  PROVE  BackupOK' /\ HomeTypeOK'
<1>1. BackupOK'
  <2>1. CASE UNCHANGED now
    BY <2>1 DEF backup, BackupOK, Lock!LockTypeOK, Lock!Exclusive
  <2> QED
    BY <2>1 DEF SetupAny, SetupStart, SetupStep, SetupFails
<1>2. HomeTypeOK'
  <2>1. CASE SetupStart(p)
    BY <2>1 DEF SetupStart, NoteOverlap, HomeTypeOK, home
  <2>2. CASE SetupStep(p)
    BY <2>2 DEF SetupStep, home, initHistory, HomeTypeOK
  <2>3. CASE SetupFails(p)
    BY <2>3 DEF SetupFails, Cut, home, HomeTypeOK
  <2> QED
    BY <2>1, <2>2, <2>3 DEF SetupAny
<1> QED
  BY <1>1, <1>2

LEMMA TypeInvInitial == Init => TypeInv
  BY InitPlaceOK DEF Init, TypeInv, FlagsInv, FlagsAt

(* The steps of the specification, by who makes them.                      *)
LEMMA StepCases ==
  ASSUME [Next]_vars
  PROVE  \/ \E p \in Proc : InitStep(p) /\ UNCHANGED <<scene, repo, slot, setupHistory, backup>>
         \/ \E p \in Proc : SetupAny(p) /\ UNCHANGED <<scene, backup>>
         \/ \E p \in Proc : ClientStep(p)
         \/ RebaseStart
         \/ Tick /\ UNCHANGED <<scene, repo, slot, setupHistory, backup>>
         \/ UNCHANGED vars
  BY DEF Next, SetupAny, ClientStep

LEMMA TypeInvInductive == ASSUME TypeInv, [Next]_vars PROVE TypeInv'
<1> USE TypeInvParts
<1>1. CASE \E p \in Proc : InitStep(p) /\ UNCHANGED <<scene, repo, slot, setupHistory, backup>>
  <2>1. PICK p \in Proc : InitStep(p) /\ UNCHANGED <<scene, repo, slot, setupHistory, backup>>
    BY <1>1
  <2>2. PlaceOK'
    BY <2>1, InitKeepsPlaceOK DEF TypeInv
  <2>3. FlagsInv'
    BY <2>1, OthersInitStep, KeepsFlags
  <2> QED
    BY <2>2, <2>3 DEF TypeInv
<1>2. CASE \E p \in Proc : SetupAny(p) /\ UNCHANGED <<scene, backup>>
  <2>1. PICK p \in Proc : SetupAny(p) /\ UNCHANGED <<scene, backup>>
    BY <1>2
  <2>2. OthersStay(p) /\ PlaceAt(p)
    BY <2>1, OthersSetupStep DEF PlaceInv
  <2>3. ProcessOK' /\ PlaceInv' /\ FlagsInv'
    BY <2>1, <2>2, SetupKeepsPlace, OthersKeepPlace, KeepsFlags
  <2>4. RepoTypeOK'
    BY <2>1, <2>2, SetupKeepsRepo
  <2>5. BackupOK' /\ HomeTypeOK'
    BY <2>1, SetupKeepsHome
  <2> QED
    BY <2>1, <2>3, <2>4, <2>5, TypeInvPartsNext
<1>3. CASE \E p \in Proc : ClientStep(p)
  <2>1. PICK p \in Proc : ClientStep(p)
    BY <1>3
  <2>2. OthersStay(p) /\ PlaceAt(p) /\ FlagsAt(p)
    BY <2>1, OthersClientStep DEF PlaceInv, FlagsInv
  <2>3. ProcessOK' /\ PlaceInv' /\ FlagsInv'
    BY <2>1, <2>2, ClientKeepsPlace, OthersKeepPlace, KeepsFlags
  <2>4. BackupOK' /\ HomeTypeOK' /\ RepoTypeOK'
    BY <2>1, ClientKeepsBackup, ClientKeepsHome DEF HomeTypeOK
  <2>5. UNCHANGED scene
    BY <2>1 DEF ClientStep, HookStep, GitCommit, RebaseFinish, Change, Manual, AmendRewrite, RebaseClean,
                Preflight, CheckRebase, CheckDebounce, AcquireLock, Copy, Finish, CopyFails, ReleaseLock,
                TruncateStamp, WriteStamp, WriteTime, MoveStamp, StampFails, Kill
  <2> QED
    BY <2>3, <2>4, <2>5, TypeInvPartsNext
<1>4. CASE RebaseStart
  <2>1. UNCHANGED <<process, install, now, scene, head, saved, stamp, tmp, status, mine, copied, rewrites>>
        /\ rebasing' \in BOOLEAN
    BY <1>4 DEF RebaseStart
  <2> QED
    BY <2>1, TypeInvPartsNext
       DEF process, install, home, initHistory, repo, setupHistory, HomeTypeOK, RepoTypeOK, ProcessOK, BackupOK,
           PlaceInv, PlaceAt, FlagsInv, FlagsAt, Lock!LockTypeOK, Lock!Exclusive
<1>5. CASE Tick /\ UNCHANGED <<scene, repo, slot, setupHistory, backup>>
  <2>1. UNCHANGED <<process, home, initHistory, scene, repo, slot, setupHistory, backup>> /\ now' \in Second
    BY <1>5, SecondsAssumption DEF Tick, Second, HomeTypeOK
  <2> QED
    BY <2>1, TypeInvPartsNext
       DEF process, home, initHistory, repo, setupHistory, backup, HomeTypeOK, RepoTypeOK, ProcessOK, BackupOK,
           PlaceInv, PlaceAt, FlagsInv, FlagsAt, Lock!LockTypeOK, Lock!Exclusive
<1>6. CASE UNCHANGED vars
  BY <1>6, TypeInvPartsNext
     DEF vars, process, install, home, initHistory, repo, setupHistory, backup, HomeTypeOK, RepoTypeOK,
         ProcessOK,
         BackupOK, PlaceInv, PlaceAt, FlagsInv, FlagsAt, Lock!LockTypeOK, Lock!Exclusive
<1> QED
  BY <1>1, <1>2, <1>3, <1>4, <1>5, <1>6, StepCases

THEOREM TypeInvariant == Spec => []TypeInv
  BY TypeInvInitial, TypeInvInductive, PTL DEF Spec

(* Every state is well typed and no two processes hold the lock.           *)
THEOREM TypeCorrect == Spec => []TypeOK
<1>1. TypeInv => TypeOK
  BY DEF TypeInv, PlaceOK
<1> QED
  BY <1>1, TypeInvariant, PTL

-----------------------------------------------------------------------------
(* What is saved.  A snapshot that is being finished is at least as new as *)
(* the change its process was started for and as the last one, since its   *)
(* process alone holds the lock; and no stamp is written without a rewrite *)
(* that it is for.                                                         *)
SavedAt(p) ==
    /\ pc[p] = "finish" => copied[p] >= mine[p] /\ copied[p] >= saved
    /\ result[p] = "ok" /\ cmd[p] \notin {"init", "setup"} => saved >= mine[p]
    /\ pc[p] \in {"stamp", "write stamp", "move stamp"} \/ result[p] = "debounced" => rewrites # {}

StampInv ==
    /\ \A r \in rewrites : r.how = "failed" \/ saved >= r.change
    /\ stamp # {} \/ tmp.holds # {} => rewrites # {}

SavedInv == StampInv /\ \A p \in Proc : SavedAt(p)

LEMMA InitialSaved == Init => SavedInv
  BY DEF Init, SavedInv, SavedAt, StampInv

(* An init or a setup saves nothing and writes no stamp.                   *)
LEMMA InstallPlaces ==
  ASSUME NEW p \in Proc, ProcessOK, PlaceAt(p), InitStep(p) \/ SetupAny(p)
  PROVE  /\ cmd'[p] \in {"init", "setup"}
         /\ pc'[p] \notin {"finish", "stamp", "write stamp", "move stamp"}
         /\ result'[p] = "debounced" => result[p] = "debounced"
<1> USE DEF ProcessOK, PlaceAt, Goto, End, Begin, Ends, Continue
<1>1. CASE InitStep(p)
  <2>1. CASE InitStart(p)
    BY <2>1 DEF InitStart
  <2>2. CASE CheckConfig(p) \/ MoveConfig(p) \/ SaveOpen(p)
    BY <2>2 DEF CheckConfig, Refusal, AfterConfig, AfterTemplates, MoveConfig, SaveOpen, InitSteps
  <2>3. CASE SaveWrite(p) \/ TemplateOpen(p)
    BY <2>3 DEF SaveWrite, AfterConfig, AfterTemplates, TemplateOpen, InitSteps
  <2>4. CASE TemplateWrite(p)
    BY <2>4 DEF TemplateWrite, AfterTemplates, InitSteps
  <2>5. CASE SetTemplateDir(p) \/ InitFails(p)
    BY <2>5 DEF SetTemplateDir, InitFails, InitSteps
  <2> QED
    BY <1>1, <2>1, <2>2, <2>3, <2>4, <2>5 DEF InitStep
<1>2. CASE SetupAny(p)
  <2>1. CASE SetupStart(p)
    BY <2>1 DEF SetupStart
  <2>2. CASE CheckSetup(p)
    BY <2>2 DEF CheckSetup, Refused, FirstStep, SetupSteps
  <2>3. CASE ReadHook(p) \/ Reserve(p) \/ MoveHook(p) \/ SetupFails(p)
    BY <2>3 DEF ReadHook, Reserve, MoveHook, SetupFails, SetupSteps
  <2>4. CASE WrapperOpen(p) \/ WrapperWrite(p) \/ CopyOpen(p) \/ CopyWrite(p) \/ CopyMode(p) \/ Enable(p)
    BY <2>4 DEF WrapperOpen, WrapperWrite, CopyOpen, CopyWrite, CopyMode, MakeExecutable, Enable, SetupSteps
  <2>5. CASE Chmod(p)
    BY <2>5 DEF Chmod, NextHook, SetupSteps
  <2>6. CASE CheckIgnore(p) \/ WriteIgnore(p)
    BY <2>6 DEF CheckIgnore, WriteIgnore, Last, SetupSteps
  <2>7. CASE SetSlug(p) \/ SetWorktreeSlug(p)
    BY <2>7 DEF SetSlug, SetWorktreeSlug, SetupSteps
  <2> QED
    BY <1>2, <2>1, <2>2, <2>3, <2>4, <2>5, <2>6, <2>7 DEF SetupAny, SetupStep
<1> QED
  BY <1>1, <1>2

LEMMA InstallKeepsSaved ==
  ASSUME NEW p \in Proc, ProcessOK, PlaceAt(p), InitStep(p) \/ SetupAny(p), UNCHANGED backup,
         OthersStay(p), SavedInv
  PROVE  SavedInv'
  BY InstallPlaces DEF backup, OthersStay, SavedInv, SavedAt, StampInv

(* A run saves only what is newer, and others that are finishing one are   *)
(* not there while it does.                                                *)
LEMMA OthersKeepSaved ==
  ASSUME BackupOK, NEW p \in Proc, OthersStay(p), SavedInv, saved' \in Nat, saved' >= saved,
         rewrites \subseteq rewrites', \A q \in Proc \ {p} : pc[q] = "finish" => saved' = saved
  PROVE  \A q \in Proc \ {p} : SavedAt(q)'
<1> SUFFICES ASSUME NEW q \in Proc \ {p} PROVE SavedAt(q)'
  OBVIOUS
<1>1. /\ pc'[q] = pc[q] /\ cmd'[q] = cmd[q] /\ result'[q] = result[q]
      /\ mine'[q] = mine[q] /\ copied'[q] = copied[q]
  BY DEF OthersStay
<1>2. mine[q] \in Nat /\ copied[q] \in Nat /\ saved \in Nat
  BY DEF BackupOK
<1>3. SavedAt(q) /\ rewrites \subseteq rewrites'
  BY DEF SavedInv
<1>4. pc[q] = "finish" => copied[q] >= mine[q] /\ copied[q] >= saved'
  BY <1>3 DEF SavedAt
<1>5. ASSUME saved >= mine[q] PROVE saved' >= mine[q]
  <2>1. \A a, b, c \in Nat : a >= b /\ b >= c => a >= c
    OBVIOUS
  <2> QED
    BY <1>2, <1>5, <2>1
<1>6. pc[q] \in {"stamp", "write stamp", "move stamp"} \/ result[q] = "debounced" => rewrites' # {}
  BY <1>3 DEF SavedAt
<1> QED
  BY <1>1, <1>3, <1>4, <1>5, <1>6 DEF SavedAt

LEMMA EndedSaves ==
  ASSUME NEW p \in Proc, NEW res \in Results, ProcessOK, BackupOK, PlaceAt(p), pc[p] \in Running, SavedInv,
         Ended(p, res), res = "debounced" => rewrites # {}, res = "ok" => saved >= mine[p],
         UNCHANGED <<cmd, saved, mine, copied, stamp, tmp>>
  PROVE  rewrites \subseteq rewrites' /\ SavedAt(p)' /\ StampInv'
<1>1. cmd[p] \notin {"init", "setup"}
  BY DEF PlaceAt
<1>2. CASE HookEnds(p, res) /\ UNCHANGED rewrites
  BY <1>1, <1>2 DEF HookEnds, Goto, ProcessOK, SavedInv, SavedAt, StampInv
<1>3. CASE Stamped(p, res) /\ res \in {"ok", "failed"}
  <2>1. /\ pc'[p] = "stamp" /\ result'[p] = res /\ UNCHANGED <<cmd, saved, mine, copied, stamp, tmp>>
        /\ rewrites' = rewrites \cup {[change |-> mine[p], how |-> res]}
    BY <1>3 DEF Stamped, Goto, ProcessOK
  <2>2. rewrites' # {} /\ rewrites \subseteq rewrites'
    BY <2>1
  <2>3. ASSUME NEW r \in rewrites' PROVE r.how = "failed" \/ saved' >= r.change
    <3>1. CASE r \in rewrites
      BY <2>1, <3>1 DEF SavedInv, StampInv
    <3>2. CASE r = [change |-> mine[p], how |-> res]
      BY <1>3, <2>1, <3>2
    <3> QED
      BY <2>1, <3>1, <3>2
  <2>4. StampInv'
    BY <2>2, <2>3 DEF StampInv
  <2>5. SavedAt(p)'
    BY <2>1, <2>2 DEF SavedAt
  <2> QED
    BY <2>2, <2>4, <2>5
<1> QED
  BY <1>2, <1>3 DEF Ended

LEMMA ClientSaves ==
  ASSUME NEW p \in Proc, ProcessOK, BackupOK, PlaceInv, SavedInv, ClientStep(p)
  PROVE  /\ saved' \in Nat /\ saved' >= saved /\ rewrites \subseteq rewrites'
         /\ \A q \in Proc \ {p} : pc[q] = "finish" => saved' = saved
         /\ SavedAt(p)' /\ StampInv'
<1> USE DEF ProcessOK, Goto
<1>1. /\ mine[p] \in 0 .. head /\ copied[p] \in 0 .. head /\ head \in Nat /\ saved \in 0 .. head
      /\ saved \in Nat /\ mine[p] \in Nat /\ copied[p] \in Nat /\ saved >= saved
  BY DEF BackupOK
<1>2. PlaceAt(p) /\ SavedAt(p) /\ StampInv /\ result[p] \in Results
  BY DEF PlaceInv, SavedInv
<1>3. {"ok", "failed", "busy"} \subseteq Results
  BY DEF Results
<1> HIDE DEF Results
<1>4. CASE GitCommit(p) \/ RebaseFinish(p) \/ AmendRewrite(p)
  <2>1. UNCHANGED <<saved, rewrites, stamp, tmp>>
    BY <1>4 DEF GitCommit, RebaseFinish, AmendRewrite, Change
  <2>2. PICK command \in Commands, flags \in SUBSET {"amend", "rebase", "reflog"} : RunHook(p, command, flags)
    BY <1>4 DEF GitCommit, RebaseFinish, AmendRewrite, Commands
  <2>3. /\ pc'[p] \in {"preflight", "rewrite", "clean", "ended"}
        /\ result'[p] \in {"none", "notInstalled"}
    BY <2>2 DEF RunHook
  <2>4. SavedAt(p)'
    BY <2>3 DEF SavedAt
  <2>5. StampInv'
    BY <1>2, <2>1 DEF StampInv
  <2> QED
    BY <1>1, <2>1, <2>4, <2>5
<1>5. CASE Manual(p)
  BY <1>1, <1>2, <1>5 DEF Manual, Begin, SavedAt, StampInv
<1>6. CASE RebaseClean(p) \/ Preflight(p) \/ CheckRebase(p)
  BY <1>1, <1>2, <1>6 DEF RebaseClean, Preflight, CheckRebase, HookEnds, Resume, backup, SavedAt, StampInv
<1>7. CASE CheckDebounce(p)
  <2>1. Debounced => rewrites # {}
    BY <1>2 DEF Debounced, StampInv
  <2> QED
    BY <1>1, <1>2, <1>7, <2>1 DEF CheckDebounce, HookEnds, Resume, backup, SavedAt, StampInv
<1>8. CASE AcquireLock(p)
  <2>1. UNCHANGED <<cmd, saved, mine, copied, stamp, tmp>> /\ pc[p] \in Running
    BY <1>8 DEF AcquireLock, Running
  <2>2. CASE Resume(p, "copyRepo") /\ UNCHANGED rewrites
    BY <1>1, <1>2, <2>1, <2>2 DEF Resume, SavedAt, StampInv
  <2>3. CASE Ended(p, "busy") \/ Ended(p, "failed")
    BY <1>1, <1>2, <1>3, <2>1, <2>3, EndedSaves
  <2> QED
    BY <1>8, <2>2, <2>3 DEF AcquireLock
<1>9. CASE Copy(p)
  BY <1>1, <1>2, <1>9 DEF Copy, Resume, SavedAt, StampInv, BackupOK
<1>10. CASE Finish(p)
  <2>1. /\ pc[p] = "finish" /\ saved' = copied[p] /\ pc'[p] = "release" /\ result'[p] = "ok"
        /\ UNCHANGED <<cmd, mine, copied, rewrites, stamp, tmp>>
    BY <1>10 DEF Finish
  <2>2. copied[p] >= mine[p] /\ copied[p] >= saved
    BY <1>2, <2>1 DEF SavedAt
  <2>3. ASSUME NEW q \in Proc \ {p} PROVE pc[q] # "finish"
    BY <2>1 DEF PlaceInv, PlaceAt, BackupOK, Lock!Exclusive
  <2>4. SavedAt(p)'
    BY <2>1, <2>2 DEF SavedAt
  <2>5. ASSUME NEW r \in rewrites PROVE r.how = "failed" \/ saved' >= r.change
    <3>1. r.change \in Nat
      BY DEF BackupOK
    <3> QED
      BY <1>1, <1>2, <2>1, <2>2, <3>1 DEF StampInv
  <2>6. StampInv'
    BY <1>2, <2>1, <2>5 DEF StampInv
  <2> QED
    BY <1>1, <2>1, <2>2, <2>3, <2>4, <2>6
<1>11. CASE CopyFails(p)
  BY <1>1, <1>2, <1>11 DEF CopyFails, backup, SavedAt, StampInv
<1>12. CASE ReleaseLock(p)
  <2>1. /\ UNCHANGED <<cmd, saved, mine, copied, stamp, tmp>> /\ pc[p] \in Running
        /\ Ended(p, result[p]) /\ pc[p] = "release"
    BY <1>12 DEF ReleaseLock, Running
  <2>2. result[p] = "debounced" => rewrites # {}
    BY <1>2 DEF SavedAt
  <2>3. result[p] = "ok" => saved >= mine[p]
    BY <1>2, <2>1 DEF SavedAt, PlaceAt
  <2> QED
    BY <1>1, <1>2, <2>1, <2>2, <2>3, EndedSaves
<1>13. CASE TruncateStamp(p) \/ WriteStamp(p)
  BY <1>1, <1>2, <1>13 DEF TruncateStamp, WriteStamp, WriteTime, Resume, SavedAt, StampInv
<1>14. CASE MoveStamp(p)
  BY <1>1, <1>2, <1>14 DEF MoveStamp, HookEnds, SavedAt, StampInv
<1>15. CASE StampFails(p)
  BY <1>1, <1>2, <1>15 DEF StampFails, HookEnds, backup, SavedAt, StampInv
<1>16. CASE Kill(p)
  BY <1>1, <1>2, <1>16 DEF Kill, HookEnds, SavedAt, StampInv
<1> QED
  BY <1>4, <1>5, <1>6, <1>7, <1>8, <1>9, <1>10, <1>11, <1>12, <1>13, <1>14, <1>15, <1>16 DEF ClientStep,
                                                                                             HookStep

LEMMA SavedInductive == ASSUME TypeInv, SavedInv, [Next]_vars PROVE SavedInv'
<1>1. ProcessOK /\ BackupOK /\ PlaceInv
  BY TypeInvParts
<1>2. CASE \E p \in Proc : InitStep(p) /\ UNCHANGED <<scene, repo, slot, setupHistory, backup>>
  <2>1. PICK p \in Proc : InitStep(p) /\ UNCHANGED <<scene, repo, slot, setupHistory, backup>>
    BY <1>2
  <2>2. PlaceAt(p) /\ UNCHANGED backup
    BY <1>1, <2>1 DEF PlaceInv
  <2> QED
    BY <1>1, <2>1, <2>2, OthersInitStep, InstallKeepsSaved
<1>3. CASE \E p \in Proc : SetupAny(p) /\ UNCHANGED <<scene, backup>>
  <2>1. PICK p \in Proc : SetupAny(p) /\ UNCHANGED <<scene, backup>>
    BY <1>3
  <2>2. PlaceAt(p) /\ UNCHANGED backup
    BY <1>1, <2>1 DEF PlaceInv
  <2> QED
    BY <1>1, <2>1, <2>2, OthersSetupStep, InstallKeepsSaved
<1>4. CASE \E p \in Proc : ClientStep(p)
  <2>1. PICK p \in Proc : ClientStep(p)
    BY <1>4
  <2>2. /\ saved' \in Nat /\ saved' >= saved /\ rewrites \subseteq rewrites'
        /\ \A q \in Proc \ {p} : pc[q] = "finish" => saved' = saved
        /\ SavedAt(p)' /\ StampInv'
    BY <1>1, <2>1, ClientSaves
  <2>3. OthersStay(p)
    BY <1>1, <2>1, OthersClientStep
  <2>4. \A q \in Proc \ {p} : SavedAt(q)'
    BY <1>1, <2>2, <2>3, OthersKeepSaved
  <2> QED
    BY <2>2, <2>4 DEF SavedInv
<1>5. CASE RebaseStart \/ (Tick /\ UNCHANGED <<scene, repo, slot, setupHistory, backup>>) \/ UNCHANGED vars
  BY <1>5 DEF RebaseStart, Tick, vars, process, backup, SavedInv, SavedAt, StampInv
<1> QED
  BY <1>2, <1>3, <1>4, <1>5, StepCases

THEOREM SavedInvariant == Spec => []SavedInv
<1>1. TypeInv /\ SavedInv /\ [Next]_vars => SavedInv'
  BY SavedInductive
<1> QED
  BY <1>1, InitialSaved, TypeInvariant, PTL DEF Spec

(* A run that succeeds has saved the change it was started for.            *)
THEOREM SuccessIsSaved == Spec => []OkIsSaved
<1>1. SavedInv => OkIsSaved
  BY DEF SavedInv, SavedAt, OkIsSaved
<1> QED
  BY <1>1, SavedInvariant, PTL

(* A rebase is held off only after a post-rewrite backup that saved what   *)
(* it was for, or failed; never after one that found the lock busy.        *)
THEOREM DebounceAfterBackup == Spec => []DebounceIsEarned
<1>1. ASSUME TypeInv, SavedInv PROVE DebounceIsEarned
  <2> SUFFICES ASSUME NEW p \in Proc, result[p] = "debounced"
               PROVE  \E r \in rewrites : r.how = "failed" \/ (r.how = "ok" /\ saved >= r.change)
    BY DEF DebounceIsEarned
  <2>1. PICK r \in rewrites : TRUE
    BY <1>1 DEF SavedInv, SavedAt
  <2>2. r.how \in {"ok", "failed"}
    BY <1>1, TypeInvParts DEF BackupOK
  <2>3. r.how = "failed" \/ saved >= r.change
    BY <1>1 DEF SavedInv, StampInv
  <2> QED
    BY <2>2, <2>3
<1> QED
  BY <1>1, TypeInvariant, SavedInvariant, PTL

-----------------------------------------------------------------------------
(* The config of the owner.  Whoever is about to open config.toml has seen *)
(* it gone, so that what is overwritten is not the edited one; a backup    *)
(* that is overwritten was made in the same second.                        *)
KeptInv ==
    /\ \A s \in Second : bak[s] # "none" => moves[s] >= 1
    /\ \A p \in Proc : pc[p] \in {"save", "save2"} => config # "edited"
    /\ EditedConfigKept

(* There has been a config: also when one is being written into a file     *)
(* that another init has moved away.                                       *)
Made(p) ==
    \/ pc[p] \in {"template", "template2"} /\ ~Has(p, "templatesOnly")
    \/ pc[p] = "save2" /\ p \notin saving
OnceMade == inited \/ 0 \in owned \/ \E p \in Proc : Made(p)

GapInv ==
    OnceMade /\ "config" \notin cuts =>
        /\ config = "torn" => \E q \in Proc : q \in saving /\ pc[q] = "save2"
        /\ config = "none" => \E q \in Proc : pc[q] = "save"

ConfigInv == KeptInv /\ GapInv

LEMMA InitialConfig == Init => ConfigInv
<1> SUFFICES ASSUME Init PROVE ConfigInv
  OBVIOUS
<1>1. \A p \in Proc : pc[p] = "idle"
  BY DEF Init
<1>2. PICK edited \in BOOLEAN, hooks \in SUBSET Hook :
         /\ owned = hooks \cup (IF edited THEN {0} ELSE {})
         /\ config = IF edited THEN "edited" ELSE IF HasTemplates THEN "default" ELSE "none"
  BY ScenesAssumption DEF Init
<1>3. 0 \notin hooks
  BY <1>2 DEF Hook
<1>4. 0 \in owned => config = "edited"
  BY <1>2, <1>3
<1>5. KeptInv
  BY <1>1, <1>4 DEF Init, KeptInv, EditedConfigKept
<1>6. config = "none" => ~OnceMade
  <2>1. inited <=> HasTemplates
    BY DEF Init
  <2> QED
    BY <1>1, <1>2, <1>3, <2>1 DEF OnceMade, Made
<1>7. GapInv
  BY <1>2, <1>6 DEF GapInv
<1> QED
  BY <1>5, <1>7 DEF ConfigInv

(* A step that leaves the config and ends, at most, what p did with it.    *)
LEMMA ConfigFrame ==
  ASSUME NEW p \in Proc, OthersStay(p), UNCHANGED <<config, saving, bak, moves, owned, inited>>,
         cuts \subseteq cuts', pc'[p] \notin {"save", "save2", "template", "template2"},
         pc[p] \in {"save", "save2"} => "config" \in cuts', ConfigInv
  PROVE  ConfigInv'
<1>1. KeptInv'
  BY DEF ConfigInv, KeptInv, EditedConfigKept, OthersStay
<1>2. ASSUME OnceMade', "config" \notin cuts' PROVE OnceMade
  BY <1>2 DEF OnceMade, Made, Has, OthersStay
<1>3. GapInv'
  BY <1>2 DEF ConfigInv, GapInv, OthersStay
<1> QED
  BY <1>1, <1>3 DEF ConfigInv

LEMMA SetupKeepsConfig ==
  ASSUME NEW p \in Proc, ProcessOK, PlaceAt(p), SetupAny(p), OthersStay(p), ConfigInv
  PROVE  ConfigInv'
<1> USE DEF ProcessOK, Goto, End, Ends, Continue, Begin, home, initHistory, setupHistory
<1>1. UNCHANGED <<config, saving, bak, moves, owned, inited>> /\ cuts \subseteq cuts'
  <2>1. CASE SetupStart(p)
    BY <2>1 DEF SetupStart
  <2>2. CASE SetupFails(p)
    BY <2>2 DEF SetupFails, Cut
  <2>3. CASE SetupStep(p)
    BY <2>3 DEF SetupStep, CheckSetup, ReadHook, Reserve, MoveHook, WrapperOpen, WrapperWrite, CopyOpen,
                CopyWrite, CopyMode, MakeExecutable,
                Chmod, Enable, CheckIgnore, WriteIgnore, SetSlug, SetWorktreeSlug
  <2> QED
    BY <2>1, <2>2, <2>3 DEF SetupAny
<1>2. /\ pc[p] \notin {"save", "save2"}
      /\ pc'[p] \notin {"save", "save2", "template", "template2"}
  <2>1. CASE SetupStart(p)
    BY <2>1 DEF SetupStart, Idle
  <2>2. CASE CheckSetup(p)
    BY <2>2 DEF CheckSetup, Refused, FirstStep
  <2>3. CASE ReadHook(p) \/ Reserve(p) \/ MoveHook(p) \/ SetupFails(p)
    BY <2>3 DEF ReadHook, Reserve, MoveHook, SetupFails, SetupSteps
  <2>4. CASE WrapperOpen(p) \/ WrapperWrite(p) \/ CopyOpen(p) \/ CopyWrite(p) \/ CopyMode(p) \/ Enable(p)
    BY <2>4 DEF WrapperOpen, WrapperWrite, CopyOpen, CopyWrite, CopyMode, MakeExecutable, Enable
  <2>5. CASE Chmod(p)
    BY <2>5 DEF Chmod, NextHook
  <2>6. CASE CheckIgnore(p) \/ WriteIgnore(p)
    BY <2>6 DEF CheckIgnore, WriteIgnore, Last
  <2>7. CASE SetSlug(p) \/ SetWorktreeSlug(p)
    BY <2>7 DEF SetSlug, SetWorktreeSlug
  <2> QED
    BY <2>1, <2>2, <2>3, <2>4, <2>5, <2>6, <2>7 DEF SetupAny, SetupStep
<1> QED
  BY <1>1, <1>2, ConfigFrame

LEMMA ClientKeepsConfig ==
  ASSUME NEW p \in Proc, ProcessOK, ClientStep(p), OthersStay(p), ConfigInv
  PROVE  ConfigInv'
<1> USE DEF ProcessOK, Goto, HookEnds, Resume
<1>1. UNCHANGED <<config, saving, bak, moves, owned, inited>> /\ cuts \subseteq cuts'
  <2>1. CASE UNCHANGED install
    BY <2>1 DEF install, home, initHistory, setupHistory
  <2>2. CASE Kill(p)
    BY <2>2 DEF Kill, Cut, home, setupHistory
  <2> QED
    BY <2>1, <2>2 DEF ClientStep, HookStep, GitCommit, RebaseFinish, Change, Manual, AmendRewrite, RebaseClean,
                      Preflight, CheckRebase, CheckDebounce, AcquireLock, Copy, Finish, CopyFails, ReleaseLock,
                      TruncateStamp, WriteStamp, WriteTime, MoveStamp, StampFails
<1>2. /\ pc[p] \in {"save", "save2"} => "config" \in cuts'
      /\ pc'[p] \notin {"save", "save2", "template", "template2"}
  <2>1. CASE GitCommit(p) \/ RebaseFinish(p) \/ AmendRewrite(p)
    BY <2>1 DEF GitCommit, RebaseFinish, AmendRewrite, Change, RunHook, Idle
  <2>2. CASE Manual(p)
    BY <2>2 DEF Manual, Begin, Idle
  <2>3. CASE RebaseClean(p) \/ Preflight(p) \/ CheckRebase(p) \/ CheckDebounce(p)
    BY <2>3 DEF RebaseClean, Preflight, CheckRebase, CheckDebounce
  <2>4. CASE AcquireLock(p) \/ ReleaseLock(p)
    BY <2>4 DEF AcquireLock, ReleaseLock, Ended, Stamped
  <2>5. CASE Copy(p) \/ Finish(p) \/ CopyFails(p)
    BY <2>5 DEF Copy, Finish, CopyFails
  <2>6. CASE TruncateStamp(p) \/ WriteStamp(p) \/ MoveStamp(p) \/ StampFails(p)
    BY <2>6 DEF TruncateStamp, WriteStamp, WriteTime, MoveStamp, StampFails
  <2>7. CASE Kill(p)
    BY <2>7 DEF Kill, Cut
  <2> QED
    BY <2>1, <2>2, <2>3, <2>4, <2>5, <2>6, <2>7 DEF ClientStep, HookStep
<1> QED
  BY <1>1, <1>2, ConfigFrame

(* The steps of an init that touch the config.                             *)
LEMMA MoveKeepsConfig ==
  ASSUME NEW p \in Proc, ProcessOK, HomeTypeOK, MoveConfig(p), config # "none", OthersStay(p),
         UNCHANGED owned, ConfigInv
  PROVE  ConfigInv'
<1>1. /\ bak' = [bak EXCEPT ![now] = config] /\ config' = "none" /\ saving' = {}
      /\ moves' = [moves EXCEPT ![now] = @ + 1] /\ pc' = [pc EXCEPT ![p] = "save"]
      /\ UNCHANGED <<inited, cuts>>
  BY DEF MoveConfig, Goto
<1>2. bak \in [Second -> Config] /\ moves \in [Second -> Nat] /\ now \in Second
  BY DEF HomeTypeOK
<1>3. bak'[now] = config /\ moves'[now] = moves[now] + 1
  BY <1>1, <1>2
<1>4. \A s \in Second \ {now} : bak'[s] = bak[s] /\ moves'[s] = moves[s]
  BY <1>1, <1>2
<1>5. \A s \in Second : bak'[s] # "none" => moves'[s] >= 1
  BY <1>2, <1>3, <1>4 DEF ConfigInv, KeptInv
<1>6. ASSUME 0 \in owned PROVE \E s \in Second : bak'[s] = "edited" \/ moves'[s] > 1
  <2>1. CASE config = "edited"
    BY <1>2, <1>3, <2>1
  <2>2. CASE \E s \in Second : bak[s] = "edited" \/ moves[s] > 1
    <3>1. PICK s \in Second : bak[s] = "edited" \/ moves[s] > 1
      BY <2>2
    <3>2. CASE s # now
      BY <1>4, <3>1, <3>2
    <3>3. CASE s = now
      <4>1. moves[now] >= 1
        BY <1>2, <3>1, <3>3 DEF ConfigInv, KeptInv
      <4> QED
        BY <1>2, <1>3, <4>1
    <3> QED
      BY <3>2, <3>3
  <2> QED
    BY <1>6, <2>1, <2>2 DEF ConfigInv, KeptInv, EditedConfigKept
<1>7. KeptInv'
  BY <1>1, <1>5, <1>6 DEF KeptInv, EditedConfigKept
<1>8. GapInv'
  <2>1. pc'[p] = "save"
    BY <1>1 DEF ProcessOK
  <2> QED
    BY <1>1, <2>1 DEF GapInv
<1> QED
  BY <1>7, <1>8 DEF ConfigInv

LEMMA OpenKeepsConfig ==
  ASSUME NEW p \in Proc, ProcessOK, SaveOpen(p), OthersStay(p), UNCHANGED owned, ConfigInv
  PROVE  ConfigInv'
<1>1. /\ pc[p] = "save" /\ config' = "torn" /\ saving' = saving \cup {p} /\ pc'[p] = "save2"
      /\ UNCHANGED <<bak, moves, inited, cuts>>
  BY DEF SaveOpen, Goto, initHistory, ProcessOK
<1>2. config # "edited"
  BY <1>1 DEF ConfigInv, KeptInv
<1>3. KeptInv'
  BY <1>1, <1>2 DEF ConfigInv, KeptInv, EditedConfigKept
<1>4. GapInv'
  BY <1>1 DEF GapInv
<1> QED
  BY <1>3, <1>4 DEF ConfigInv

LEMMA WriteKeepsConfig ==
  ASSUME NEW p \in Proc, ProcessOK, HomeTypeOK, SaveWrite(p), OthersStay(p), UNCHANGED owned, ConfigInv
  PROVE  ConfigInv'
<1>1. /\ pc[p] = "save2" /\ saving' = saving \ {p} /\ UNCHANGED <<opts, moves, inited, cuts>>
      /\ pc'[p] \in {"template", "git", "ended"}
  BY DEF SaveWrite, AfterConfig, AfterTemplates, End, Goto, initHistory, ProcessOK
<1>2. config # "edited"
  BY <1>1 DEF ConfigInv, KeptInv
<1>3. CASE p \in saving
  <2>1. config' = "default" /\ UNCHANGED bak
    BY <1>3 DEF SaveWrite
  <2>2. KeptInv'
    BY <1>1, <1>2, <2>1 DEF ConfigInv, KeptInv, EditedConfigKept, OthersStay
  <2>3. GapInv'
    BY <2>1 DEF GapInv
  <2> QED
    BY <2>2, <2>3 DEF ConfigInv
<1>4. CASE p \notin saving
  <2>1. /\ UNCHANGED config /\ saving' = saving
        /\ bak' = [s \in Second |-> IF bak[s] = "torn" THEN "default" ELSE bak[s]]
    BY <1>1, <1>4 DEF SaveWrite
  <2>2. KeptInv'
    BY <1>1, <1>2, <2>1 DEF ConfigInv, KeptInv, EditedConfigKept, OthersStay
  <2>3. OnceMade
    BY <1>1, <1>4 DEF OnceMade, Made
  <2>4. GapInv'
    BY <1>1, <1>4, <2>1, <2>3 DEF ConfigInv, GapInv, OthersStay
  <2> QED
    BY <2>2, <2>4 DEF ConfigInv
<1> QED
  BY <1>3, <1>4

LEMMA InitKeepsConfig ==
  ASSUME NEW p \in Proc, ProcessOK, HomeTypeOK, InitStep(p), OthersStay(p), UNCHANGED owned, ConfigInv
  PROVE  ConfigInv'
<1> USE DEF ProcessOK, Goto, End, home, initHistory
<1>1. CASE InitStart(p)
  BY <1>1, ConfigFrame DEF InitStart, Begin, Idle
<1>2. CASE CheckConfig(p)
  <2>1. UNCHANGED <<config, saving, bak, moves, inited, cuts, opts>> /\ pc[p] = "check"
    BY <1>2 DEF CheckConfig
  <2>2. CASE pc'[p] \in {"ended", "git", "move"}
    BY <2>1, <2>2, ConfigFrame
  <2>3. CASE pc'[p] = "template" /\ Has(p, "templatesOnly")
    <3>1. \A q \in Proc : Made(q)' => Made(q)
      BY <2>1, <2>3 DEF Made, Has, OthersStay
    <3>2. OnceMade' => OnceMade
      BY <2>1, <3>1 DEF OnceMade
    <3> QED
      BY <2>1, <2>3, <3>2 DEF ConfigInv, KeptInv, EditedConfigKept, GapInv, OthersStay
  <2>4. CASE pc'[p] = "save" /\ config = "none"
    <3>1. KeptInv'
      BY <2>1, <2>4 DEF ConfigInv, KeptInv, EditedConfigKept, OthersStay
    <3>2. GapInv'
      BY <2>1, <2>4 DEF GapInv
    <3> QED
      BY <3>1, <3>2 DEF ConfigInv
  <2>5. \/ pc'[p] \in {"ended", "git", "move"} \/ (pc'[p] = "template" /\ Has(p, "templatesOnly"))
        \/ (pc'[p] = "save" /\ config = "none")
    BY <1>2 DEF CheckConfig, AfterConfig, AfterTemplates, Has
  <2> QED
    BY <2>2, <2>3, <2>4, <2>5
<1>3. CASE MoveConfig(p)
  <2>1. CASE config # "none"
    BY <1>3, <2>1, MoveKeepsConfig
  <2>2. CASE config = "none"
    BY <1>3, <2>2, ConfigFrame DEF MoveConfig
  <2> QED
    BY <2>1, <2>2
<1>4. CASE SaveOpen(p)
  BY <1>4, OpenKeepsConfig
<1>5. CASE SaveWrite(p)
  BY <1>5, WriteKeepsConfig
<1>6. CASE TemplateOpen(p) \/ TemplateWrite(p)
  <2>1. /\ UNCHANGED <<config, saving, bak, moves, cuts, opts>>
        /\ pc[p] \in {"template", "template2"}
        /\ pc'[p] \notin {"save", "save2"}
        /\ pc'[p] \in {"template", "template2"} \/ pc'[p] \in {"git", "ended"}
    BY <1>6 DEF TemplateOpen, TemplateWrite, AfterTemplates
  <2>2. inited' => inited \/ ~Has(p, "templatesOnly")
    BY <1>6 DEF TemplateOpen, TemplateWrite
  <2>3. KeptInv'
    BY <2>1 DEF ConfigInv, KeptInv, EditedConfigKept, OthersStay
  <2>4. Made(p)' => Made(p)
    BY <2>1 DEF Made, Has
  <2>5. \A q \in Proc \ {p} : Made(q)' => Made(q)
    BY <2>1 DEF Made, Has, OthersStay
  <2>6. OnceMade' => OnceMade
    BY <2>1, <2>2, <2>4, <2>5 DEF OnceMade, Made
  <2>7. GapInv'
    BY <2>1, <2>6 DEF ConfigInv, GapInv, OthersStay
  <2> QED
    BY <2>3, <2>7 DEF ConfigInv
<1>7. CASE SetTemplateDir(p) \/ InitFails(p)
  BY <1>7, ConfigFrame DEF SetTemplateDir, InitFails, Cut
<1> QED
  BY <1>1, <1>2, <1>3, <1>4, <1>5, <1>6, <1>7 DEF InitStep

LEMMA ConfigInductive == ASSUME TypeInv, ConfigInv, [Next]_vars PROVE ConfigInv'
<1>1. ProcessOK /\ BackupOK /\ PlaceInv /\ HomeTypeOK
  BY TypeInvParts
<1>2. CASE \E p \in Proc : InitStep(p) /\ UNCHANGED <<scene, repo, slot, setupHistory, backup>>
  <2>1. PICK p \in Proc : InitStep(p) /\ UNCHANGED <<scene, repo, slot, setupHistory, backup>>
    BY <1>2
  <2>2. UNCHANGED owned /\ UNCHANGED backup
    BY <2>1 DEF setupHistory
  <2> QED
    BY <1>1, <2>1, <2>2, OthersInitStep, InitKeepsConfig
<1>3. CASE \E p \in Proc : SetupAny(p) /\ UNCHANGED <<scene, backup>>
  <2>1. PICK p \in Proc : SetupAny(p) /\ UNCHANGED <<scene, backup>>
    BY <1>3
  <2>2. PlaceAt(p) /\ UNCHANGED backup
    BY <1>1, <2>1 DEF PlaceInv
  <2> QED
    BY <1>1, <2>1, <2>2, OthersSetupStep, SetupKeepsConfig
<1>4. CASE \E p \in Proc : ClientStep(p)
  BY <1>1, <1>4, OthersClientStep, ClientKeepsConfig
<1>5. CASE RebaseStart \/ (Tick /\ UNCHANGED <<scene, repo, slot, setupHistory, backup>>) \/ UNCHANGED vars
  <2>1. UNCHANGED <<pc, opts, home, inited, cuts, moves, owned>>
    BY <1>5 DEF RebaseStart, Tick, vars, process, install, initHistory, setupHistory
  <2> QED
    BY <2>1 DEF home, ConfigInv, KeptInv, EditedConfigKept, GapInv, OnceMade, Made, Has
<1> QED
  BY <1>2, <1>3, <1>4, <1>5, StepCases

THEOREM ConfigInvariant == Spec => []ConfigInv
<1>1. TypeInv /\ ConfigInv /\ [Next]_vars => ConfigInv'
  BY ConfigInductive
<1> QED
  BY <1>1, InitialConfig, TypeInvariant, PTL DEF Spec

(* The edited config is in place or in a backup, unless two configs were   *)
(* moved away within one second.                                           *)
THEOREM EditedConfigIsKept == Spec => []EditedConfigKept
<1>1. ConfigInv => EditedConfigKept
  BY DEF ConfigInv, KeptInv
<1> QED
  BY <1>1, ConfigInvariant, PTL

(* Without a fault there is a config that can be read, once there was one, *)
(* whenever no init is writing it.                                         *)
THEOREM GapsAreCuts == Spec => []ConfigGapsAreCuts
<1>1. ASSUME TypeInv, ConfigInv PROVE ConfigGapsAreCuts
  <2>1. config \in Config
    BY <1>1, TypeInvParts DEF HomeTypeOK
  <2>2. ~Usable => config \in {"none", "torn"}
    BY <2>1 DEF Usable, Config
  <2> QED
    BY <1>1, <2>2 DEF ConfigInv, GapInv, OnceMade, ConfigGapsAreCuts
<1> QED
  BY <1>1, TypeInvariant, ConfigInvariant, PTL
-----------------------------------------------------------------------------
(* Commands that write nothing.  A dry run is at one of the places it      *)
(* reads at, or at the call to git that it leaves out.                     *)
DryInv == \A p \in Proc : Installing(p) /\ Has(p, "dryRun") => pc[p] \in {"check", "setup", "git"}

(* Where a process of git or of a backup is, no file of init or setup is   *)
(* open; only a kill ends an installation from outside.                    *)
LEMMA ClientInstallsNothing ==
  ASSUME NEW p \in Proc, ProcessOK, PlaceAt(p), FlagsAt(p), ClientStep(p)
  PROVE  ~Installing(p)' /\ (~Kill(p) => ~Installing(p))
<1> USE DEF ProcessOK, Installing, Idle, Goto, Resume
<1>1. CASE GitCommit(p) \/ RebaseFinish(p)
  BY <1>1 DEF GitCommit, RebaseFinish, Change, RunHook
<1>2. CASE Manual(p)
  BY <1>2 DEF Manual, Begin
<1>3. CASE AmendRewrite(p)
  BY <1>3 DEF AmendRewrite, RunHook, PlaceAt, Running
<1>4. CASE Kill(p)
  <2>1. cmd' = cmd /\ opts' = opts /\ HookEnds(p, "killed")
    BY <1>4 DEF Kill
  <2>2. Has(p, "amend") \/ Has(p, "rebase") => cmd[p] \notin {"init", "setup"}
    BY DEF FlagsAt, Has
  <2> QED
    BY <1>4, <2>1, <2>2 DEF HookEnds
<1>5. CASE pc[p] \in Running /\ cmd' = cmd
  BY <1>5 DEF PlaceAt
<1>6. CASE RebaseClean(p) \/ Preflight(p) \/ CheckRebase(p) \/ CheckDebounce(p)
  BY <1>5, <1>6 DEF RebaseClean, Preflight, CheckRebase, CheckDebounce, Running
<1>7. CASE AcquireLock(p) \/ ReleaseLock(p) \/ Copy(p) \/ Finish(p) \/ CopyFails(p)
  BY <1>5, <1>7 DEF AcquireLock, ReleaseLock, Copy, Finish, CopyFails, Running
<1>8. CASE TruncateStamp(p) \/ WriteStamp(p) \/ MoveStamp(p) \/ StampFails(p)
  BY <1>5, <1>8 DEF TruncateStamp, WriteStamp, WriteTime, MoveStamp, StampFails, Running
<1> QED
  BY <1>1, <1>2, <1>3, <1>4, <1>6, <1>7, <1>8 DEF ClientStep, HookStep

LEMMA OthersStayDry ==
  ASSUME NEW p \in Proc, OthersStay(p), DryInv,
         Installing(p)' /\ Has(p, "dryRun")' => pc'[p] \in {"check", "setup", "git"}
  PROVE  DryInv'
  BY DEF DryInv, OthersStay, Installing, Idle, Has

LEMMA DryInit ==
  ASSUME NEW p \in Proc, ProcessOK, PlaceAt(p), DryInv, InitStep(p)
  PROVE  /\ Installing(p)' /\ Has(p, "dryRun")' => pc'[p] \in {"check", "setup", "git"}
         /\ Installing(p) /\ Has(p, "dryRun") => UNCHANGED home
<1> USE DEF ProcessOK, DryInv, Installing, Idle, Has, Goto, End
<1>1. CASE InitStart(p)
  BY <1>1 DEF InitStart, Begin
<1>2. CASE CheckConfig(p)
  BY <1>2 DEF CheckConfig, AfterConfig, AfterTemplates
<1>3. CASE SetTemplateDir(p)
  BY <1>3 DEF SetTemplateDir, home
<1>4. CASE InitFails(p)
  BY <1>4 DEF InitFails
<1>5. CASE MoveConfig(p) \/ SaveOpen(p) \/ SaveWrite(p) \/ TemplateOpen(p) \/ TemplateWrite(p)
  <2>1. pc[p] \in {"move", "save", "save2", "template", "template2"} /\ opts' = opts
    BY <1>5 DEF MoveConfig, SaveOpen, SaveWrite, TemplateOpen, TemplateWrite
  <2>2. cmd[p] = "init"
    BY <2>1 DEF PlaceAt, InitSteps
  <2> QED
    BY <2>1, <2>2
<1> QED
  BY <1>1, <1>2, <1>3, <1>4, <1>5 DEF InitStep

LEMMA DrySetup ==
  ASSUME NEW p \in Proc, ProcessOK, PlaceAt(p), DryInv, SetupAny(p)
  PROVE  /\ Installing(p)' /\ Has(p, "dryRun")' => pc'[p] \in {"check", "setup", "git"}
         /\ Installing(p) /\ Has(p, "dryRun") => UNCHANGED <<home, repo>>
<1> USE DEF ProcessOK, DryInv, Installing, Idle, Has, Goto, End, Ends
<1>1. CASE SetupStart(p)
  BY <1>1 DEF SetupStart, Begin
<1>2. CASE CheckSetup(p) /\ UNCHANGED <<home, now, initHistory>>
  BY <1>2 DEF CheckSetup
<1>3. CASE SetupFails(p)
  BY <1>3 DEF SetupFails
<1>4. CASE SetupStep(p) /\ ~CheckSetup(p)
  <2>1. pc[p] \in SetupSteps \ {"setup"} /\ opts' = opts
    BY <1>4 DEF SetupStep, SetupSteps, ReadHook, Reserve, MoveHook, WrapperOpen, WrapperWrite, CopyOpen,
                CopyWrite, CopyMode, MakeExecutable, Chmod, Enable, CheckIgnore, WriteIgnore, SetSlug,
                SetWorktreeSlug
  <2>2. cmd[p] = "setup"
    BY <2>1 DEF PlaceAt
  <2> QED
    BY <2>1, <2>2 DEF SetupSteps
<1> QED
  BY <1>1, <1>2, <1>3, <1>4 DEF SetupAny, SetupStep

LEMMA DryInductive ==
  ASSUME TypeInv, DryInv, [Next]_vars
  PROVE  /\ DryInv'
         /\ \A p \in Proc : Installing(p) /\ Has(p, "dryRun") /\ pc'[p] # pc[p] => UNCHANGED <<home, repo>>
<1>1. ProcessOK /\ BackupOK /\ PlaceInv /\ FlagsInv
  BY TypeInvParts
<1>2. CASE \E p \in Proc : InitStep(p) /\ UNCHANGED <<scene, repo, slot, setupHistory, backup>>
  <2>1. PICK p \in Proc : InitStep(p) /\ UNCHANGED <<scene, repo, slot, setupHistory, backup>>
    BY <1>2
  <2>2. OthersStay(p) /\ PlaceAt(p)
    BY <1>1, <2>1, OthersInitStep DEF PlaceInv
  <2> QED
    BY <1>1, <2>1, <2>2, DryInit, OthersStayDry DEF OthersStay
<1>3. CASE \E p \in Proc : SetupAny(p) /\ UNCHANGED <<scene, backup>>
  <2>1. PICK p \in Proc : SetupAny(p) /\ UNCHANGED <<scene, backup>>
    BY <1>3
  <2>2. OthersStay(p) /\ PlaceAt(p)
    BY <1>1, <2>1, OthersSetupStep DEF PlaceInv
  <2> QED
    BY <1>1, <2>1, <2>2, DrySetup, OthersStayDry DEF OthersStay
<1>4. CASE \E p \in Proc : ClientStep(p)
  <2>1. PICK p \in Proc : ClientStep(p)
    BY <1>4
  <2>2. OthersStay(p) /\ PlaceAt(p) /\ FlagsAt(p)
    BY <1>1, <2>1, OthersClientStep DEF PlaceInv, FlagsInv
  <2>3. ~Installing(p)' /\ (~Kill(p) => ~Installing(p))
    BY <1>1, <2>1, <2>2, ClientInstallsNothing
  <2>4. Kill(p) => UNCHANGED <<home, repo>>
    BY DEF Kill
  <2> QED
    BY <2>2, <2>3, <2>4, OthersStayDry DEF OthersStay
<1>5. CASE RebaseStart \/ (Tick /\ UNCHANGED <<scene, repo, slot, setupHistory, backup>>) \/ UNCHANGED vars
  BY <1>5 DEF RebaseStart, Tick, vars, process, DryInv, Installing, Idle, Has
<1> QED
  BY <1>2, <1>3, <1>4, <1>5, StepCases

(* init --dry-run and setup --dry-run change no file and no git config.    *)
THEOREM DryRunsAreDry == Spec => DryRunsWriteNothing
<1>1. Init => DryInv
  BY DEF Init, DryInv, Installing, Idle
<1>2. TypeInv /\ DryInv /\ [Next]_vars => DryInv'
  BY DryInductive
<1>3. TypeInv /\ DryInv /\ [Next]_vars =>
         [\A p \in Proc : Installing(p) /\ Has(p, "dryRun") /\ pc'[p] # pc[p] => UNCHANGED <<home, repo>>]_vars
  BY DryInductive
<1> QED
  BY <1>1, <1>2, <1>3, TypeInvariant, PTL DEF Spec, DryRunsWriteNothing

-----------------------------------------------------------------------------
(* The ignore file.  Unless two of them overlapped, one process installs,  *)
(* and a template or an ignore file that is empty is the one it is just    *)
(* writing, or was being written when a fault hit.                         *)
Alone == overlapped \/ \A p, q \in Proc : Installing(p) /\ Installing(q) => p = q
TemplateCut ==
    template[Ignore] = "empty" =>
        "template" \in cuts \/ overlapped \/ \E p \in Proc : pc[p] = "template2" /\ Min(todo[p]) = Ignore
IgnoreCut ==
    ignore = "empty" =>
        cuts \cap {"ignore", "template"} # {} \/ overlapped \/ \E p \in Proc : pc[p] = "ignore2"

WholeInv == Alone /\ TemplateCut /\ IgnoreCut

LEMMA KeepsAlone ==
  ASSUME NEW p \in Proc, OthersStay(p), Alone, overlapped => overlapped',
         \/ ~Installing(p)'
         \/ Installing(p)
         \/ NoteOverlap(p)
  PROVE  Alone'
  BY DEF Alone, NoteOverlap, OthersStay, Installing, Idle

(* A step that touches neither file, and is no end of a write.             *)
LEMMA WholeFrame ==
  ASSUME NEW p \in Proc, OthersStay(p), Alone', WholeInv, UNCHANGED <<template, ignore>>,
         overlapped => overlapped', cuts \subseteq cuts',
         pc[p] = "template2" => "template" \in cuts', pc[p] = "ignore2" => "ignore" \in cuts'
  PROVE  WholeInv'
<1>1. TemplateCut'
  BY DEF WholeInv, TemplateCut, OthersStay
<1>2. IgnoreCut'
  BY DEF WholeInv, IgnoreCut, OthersStay
<1> QED
  BY <1>1, <1>2 DEF WholeInv

LEMMA InitKeepsWhole ==
  ASSUME NEW p \in Proc, ProcessOK, HomeTypeOK, PlaceInv, OthersStay(p), InitStep(p), UNCHANGED ignore, WholeInv
  PROVE  WholeInv'
<1> USE DEF ProcessOK, Goto, End, initHistory
<1>1. PlaceAt(p)
  BY DEF PlaceInv
<1>2. Alone'
  <2>1. CASE InitStart(p)
    BY <2>1, KeepsAlone DEF InitStart, NoteOverlap, WholeInv
  <2>2. CASE pc[p] \in InitSteps /\ UNCHANGED overlapped
    BY <1>1, <2>2, KeepsAlone DEF PlaceAt, InitSteps, Installing, Idle, WholeInv
  <2> QED
    BY <2>1, <2>2 DEF InitStep, InitSteps, CheckConfig, MoveConfig, SaveOpen, SaveWrite, TemplateOpen,
                      TemplateWrite,
                      SetTemplateDir, InitFails
<1>3. CASE TemplateOpen(p)
  <2>1. TemplateCut'
    BY <1>3, <1>2 DEF TemplateOpen, TemplateCut, WholeInv, OthersStay, HomeTypeOK, Template
  <2>2. IgnoreCut'
    BY <1>3, <1>2 DEF TemplateOpen, IgnoreCut, WholeInv, OthersStay
  <2> QED
    BY <1>2, <2>1, <2>2 DEF WholeInv
<1>4. CASE TemplateWrite(p)
  <2>1. Installing(p) /\ pc[p] = "template2"
    BY <1>1, <1>4 DEF TemplateWrite, PlaceAt, InitSteps, Installing, Idle
  <2>2. UNCHANGED <<cuts, overlapped>>
    BY <1>4 DEF TemplateWrite
  <2>3. Ignore \in Template
    BY DEF Template
  <2>4. TemplateCut'
    <3> SUFFICES ASSUME template'[Ignore] = "empty", ~overlapped, "template" \notin cuts PROVE FALSE
      BY <2>2 DEF TemplateCut
    <3>1. Min(todo[p]) # Ignore /\ template[Ignore] = "empty"
      BY <1>4, <2>3 DEF TemplateWrite, HomeTypeOK
    <3>2. PICK q \in Proc : pc[q] = "template2" /\ Min(todo[q]) = Ignore
      BY <3>1 DEF WholeInv, TemplateCut
    <3>3. Installing(q)
      BY <3>2 DEF PlaceInv, PlaceAt, InitSteps, Installing, Idle
    <3> QED
      BY <2>1, <3>1, <3>2, <3>3 DEF WholeInv, Alone
  <2>5. IgnoreCut'
    BY <2>1, <2>2 DEF IgnoreCut, WholeInv, OthersStay
  <2> QED
    BY <1>2, <2>4, <2>5 DEF WholeInv
<1>5. CASE UNCHANGED template /\ ~TemplateOpen(p) /\ ~TemplateWrite(p)
  <2>1. overlapped => overlapped'
    BY <1>5 DEF InitStep, InitStart, NoteOverlap, CheckConfig, MoveConfig, SaveOpen, SaveWrite,
                SetTemplateDir, InitFails
  <2>2. cuts \subseteq cuts' /\ pc[p] # "ignore2" /\ (pc[p] = "template2" => "template" \in cuts')
    BY <1>5 DEF InitStep, InitStart, Begin, Idle, CheckConfig, MoveConfig, SaveOpen, SaveWrite,
                SetTemplateDir, InitFails, Cut
  <2> QED
    BY <1>2, <1>5, <2>1, <2>2, WholeFrame
<1> QED
  BY <1>3, <1>4, <1>5 DEF InitStep, InitStart, CheckConfig, MoveConfig, SaveOpen, SaveWrite, SetTemplateDir,
                          InitFails, home

LEMMA SetupKeepsWhole ==
  ASSUME NEW p \in Proc, ProcessOK, PlaceInv, OthersStay(p), SetupAny(p), WholeInv
  PROVE  WholeInv'
<1> USE DEF ProcessOK, Goto, End, Ends, Continue
<1>1. PlaceAt(p)
  BY DEF PlaceInv
<1>2. /\ UNCHANGED template /\ (overlapped => overlapped') /\ cuts \subseteq cuts'
      /\ SetupStart(p) \/ UNCHANGED overlapped
  <2>1. CASE SetupStart(p)
    BY <2>1 DEF SetupStart, NoteOverlap, home
  <2>2. CASE SetupStep(p)
    BY <2>2 DEF SetupStep, home, initHistory
  <2>3. CASE SetupFails(p)
    BY <2>3 DEF SetupFails, Cut, home
  <2> QED
    BY <2>1, <2>2, <2>3 DEF SetupAny
<1>3. Alone'
  <2>1. CASE SetupStart(p)
    BY <1>2, <2>1, KeepsAlone DEF SetupStart, WholeInv
  <2>2. CASE pc[p] \in SetupSteps
    BY <1>1, <1>2, <2>2, KeepsAlone DEF PlaceAt, SetupSteps, Installing, Idle, WholeInv
  <2> QED
    BY <2>1, <2>2 DEF SetupAny, SetupStep, SetupFails, SetupSteps, CheckSetup, ReadHook, Reserve, MoveHook,
                      WrapperOpen,
                      WrapperWrite, CopyOpen, CopyWrite, CopyMode, MakeExecutable, Chmod, Enable,
                      CheckIgnore, WriteIgnore, SetSlug, SetWorktreeSlug
<1>4. CASE CheckIgnore(p) /\ ~UNCHANGED ignore
  <2>1. pc[p] = "ignore" /\ pc'[p] = "ignore2"
    BY <1>4 DEF CheckIgnore
  <2>2. TemplateCut'
    BY <1>2, <2>1 DEF TemplateCut, WholeInv, OthersStay
  <2>3. IgnoreCut'
    BY <2>1 DEF IgnoreCut
  <2> QED
    BY <1>3, <2>2, <2>3 DEF WholeInv
<1>5. CASE WriteIgnore(p)
  <2>1. pc[p] = "ignore2" /\ ignore' = template[Ignore] /\ Installing(p)
    BY <1>1, <1>5 DEF WriteIgnore, PlaceAt, SetupSteps, Installing, Idle
  <2>2. TemplateCut'
    BY <1>2, <2>1 DEF TemplateCut, WholeInv, OthersStay
  <2>3. IgnoreCut'
    <3> SUFFICES ASSUME template[Ignore] = "empty", ~overlapped, "template" \notin cuts PROVE FALSE
      BY <1>2, <2>1 DEF IgnoreCut
    <3>1. PICK q \in Proc : pc[q] = "template2"
      BY DEF WholeInv, TemplateCut
    <3>2. Installing(q)
      BY <3>1 DEF PlaceInv, PlaceAt, InitSteps, Installing, Idle
    <3> QED
      BY <2>1, <3>1, <3>2 DEF WholeInv, Alone
  <2> QED
    BY <1>3, <2>2, <2>3 DEF WholeInv
<1>6. CASE UNCHANGED ignore /\ ~WriteIgnore(p)
  <2>1. pc[p] # "template2" /\ (pc[p] = "ignore2" => "ignore" \in cuts')
    BY <1>6 DEF SetupAny, SetupStart, Begin, Idle, SetupStep, SetupFails, Cut, SetupSteps, CheckSetup,
                ReadHook, Reserve,
                MoveHook, WrapperOpen, WrapperWrite, CopyOpen, CopyWrite, CopyMode, MakeExecutable, Chmod,
                Enable, CheckIgnore, SetSlug,
                SetWorktreeSlug
  <2> QED
    BY <1>2, <1>3, <1>6, <2>1, WholeFrame
<1> QED
  BY <1>4, <1>5, <1>6 DEF SetupAny, SetupStart, SetupStep, SetupFails, CheckSetup, ReadHook, Reserve, MoveHook,
                          WrapperOpen, WrapperWrite, CopyOpen, CopyWrite, CopyMode, MakeExecutable, Chmod,
                          Enable, CheckIgnore, SetSlug,
                          SetWorktreeSlug, repo

LEMMA ClientKeepsWhole ==
  ASSUME NEW p \in Proc, ProcessOK, PlaceAt(p), FlagsAt(p), OthersStay(p), ClientStep(p), WholeInv
  PROVE  WholeInv'
<1>1. ~Installing(p)' /\ (~Kill(p) => ~Installing(p))
  BY ClientInstallsNothing
<1>2. UNCHANGED <<template, ignore, overlapped>> /\ cuts \subseteq cuts'
  <2>1. CASE UNCHANGED install
    BY <2>1 DEF install, home, initHistory, repo
  <2>2. CASE Kill(p)
    BY <2>2 DEF Kill, Cut, home, repo
  <2> QED
    BY <2>1, <2>2 DEF ClientStep, HookStep, GitCommit, RebaseFinish, Change, Manual, AmendRewrite, RebaseClean,
                      Preflight, CheckRebase, CheckDebounce, AcquireLock, Copy, Finish, CopyFails, ReleaseLock,
                      TruncateStamp, WriteStamp, WriteTime, MoveStamp, StampFails
<1>3. Alone'
  BY <1>1, <1>2, KeepsAlone DEF WholeInv
<1>4. /\ pc[p] = "template2" => "template" \in cuts'
      /\ pc[p] = "ignore2" => "ignore" \in cuts'
  <2>1. CASE Kill(p)
    BY <2>1 DEF Kill, Cut
  <2>2. CASE ~Kill(p)
    BY <1>1, <2>2 DEF Installing, Idle, PlaceAt, InitSteps, SetupSteps
  <2> QED
    BY <2>1, <2>2
<1> QED
  BY <1>2, <1>3, <1>4, WholeFrame

LEMMA WholeInductive == ASSUME TypeInv, WholeInv, [Next]_vars PROVE WholeInv'
<1>1. ProcessOK /\ BackupOK /\ PlaceInv /\ FlagsInv /\ HomeTypeOK
  BY TypeInvParts
<1>2. CASE \E p \in Proc : InitStep(p) /\ UNCHANGED <<scene, repo, slot, setupHistory, backup>>
  <2>1. PICK p \in Proc : InitStep(p) /\ UNCHANGED <<scene, repo, slot, setupHistory, backup>>
    BY <1>2
  <2> QED
    BY <1>1, <2>1, OthersInitStep, InitKeepsWhole DEF repo
<1>3. CASE \E p \in Proc : SetupAny(p) /\ UNCHANGED <<scene, backup>>
  BY <1>1, <1>3, OthersSetupStep, SetupKeepsWhole
<1>4. CASE \E p \in Proc : ClientStep(p)
  BY <1>1, <1>4, OthersClientStep, ClientKeepsWhole DEF PlaceInv, FlagsInv
<1>5. CASE RebaseStart \/ (Tick /\ UNCHANGED <<scene, repo, slot, setupHistory, backup>>) \/ UNCHANGED vars
  <2>1. UNCHANGED <<pc, cmd, todo, template, ignore, cuts, overlapped>>
    BY <1>5 DEF RebaseStart, Tick, vars, process, install, home, repo, initHistory
  <2> QED
    BY <2>1 DEF WholeInv, Alone, TemplateCut, IgnoreCut, Installing, Idle
<1> QED
  BY <1>2, <1>3, <1>4, <1>5, StepCases

LEMMA WholeInvariant == Spec => []WholeInv
<1>1. Init => WholeInv
  <2>1. ASSUME Init PROVE /\ \A p \in Proc : pc[p] = "idle"
                          /\ ignore # "empty" /\ template[Ignore] # "empty"
    BY <2>1 DEF Init, Template
  <2> QED
    BY <2>1 DEF WholeInv, Alone, TemplateCut, IgnoreCut, Installing, Idle
<1>2. TypeInv /\ WholeInv /\ [Next]_vars => WholeInv'
  BY WholeInductive
<1> QED
  BY <1>1, <1>2, TypeInvariant, PTL DEF Spec

(* An empty .devbackignore is left only by a fault, or by a setup beside   *)
(* an init or another setup.                                               *)
THEOREM IgnoreFileIsWhole == Spec => []IgnoreIsWhole
<1>1. TypeInv /\ WholeInv => IgnoreIsWhole
  BY TypeInvParts DEF WholeInv, IgnoreCut, IgnoreIsWhole, NobodyInstalls, PlaceInv, PlaceAt, SetupSteps,
                      Installing, Idle
<1> QED
  BY <1>1, TypeInvariant, WholeInvariant, PTL

-----------------------------------------------------------------------------
(* What a hook calls.  Calls is defined by recursion, so that the chain it *)
(* stands for has to be shown to exist first.                              *)
LEMMA FileKinds ==
  /\ \A kind : File(kind).kind = kind
  /\ \A k : Wrapper(k).kind = "merged" /\ Wrapper(k).calls = k
  /\ \A file \in HookFile :
        /\ file.kind \in {"none", "empty", "user", "template", "plain", "merged"}
        /\ file.kind = "merged" => file.calls \in Slot
  BY DEF File, Wrapper, HookFile

LEMMA CalleeType ==
  ASSUME RepoTypeOK, NEW h \in Hook
  PROVE  Callee(h) \in [HookFile -> HookFile]
<1>1. File("none") \in HookFile
  BY DEF HookFile
<1>2. orig[h] \in [Slot -> HookFile]
  BY DEF RepoTypeOK
<1> QED
  BY <1>1, <1>2, FileKinds DEF Callee

LEMMA CallsIterate ==
  ASSUME RepoTypeOK, NEW h \in Hook
  PROVE  Calls(h) \in [0 .. Backups -> HookFile] /\ Iterates(Calls(h), hook[h], Callee(h), Backups)
<1> DEFINE chain(f) == [n \in 0 .. Backups |-> IF n = 0 THEN hook[h] ELSE Callee(h)[f[n - 1]]]
<1>1. hook[h] \in HookFile /\ Backups \in Nat
  BY BackupsAssumption DEF RepoTypeOK
<1>2. PICK f \in [0 .. Backups -> HookFile] : Iterates(f, hook[h], Callee(h), Backups)
  BY <1>1, CalleeType, IteratesExist
<1>3. f = chain(f)
  <2>1. \A n \in 0 .. Backups : f[n] = chain(f)[n]
    BY <1>1, <1>2 DEF Iterates
  <2> QED
    BY <2>1
<1>4. Calls(h) = CHOOSE g : g = chain(g)
  BY DEF Calls
<1> HIDE DEF chain
<1>5. Calls(h) = chain(Calls(h))
  BY <1>3, <1>4
<1>6. Iterates(Calls(h), hook[h], Callee(h), Backups)
  BY <1>1, <1>5 DEF chain, Iterates
<1>7. \A n \in 0 .. Backups : Calls(h)[n] = f[n]
  <2> DEFINE M == {n \in Nat : n \in 0 .. Backups => Calls(h)[n] = f[n]}
  <2>1. 0 \in M
    BY <1>2, <1>6 DEF Iterates
  <2>2. ASSUME NEW n \in M PROVE n + 1 \in M
    <3>1. ASSUME n + 1 \in 0 .. Backups PROVE Calls(h)[n + 1] = f[n + 1]
      <4>1. n + 1 \in 1 .. Backups /\ n \in 0 .. Backups /\ (n + 1) - 1 = n
        BY <1>1, <3>1
      <4> QED
        BY <1>2, <1>6, <4>1 DEF Iterates
    <3> QED
      BY <3>1
  <2>3. M \in SUBSET Nat
    OBVIOUS
  <2> HIDE DEF M
  <2>4. M = Nat
    BY <2>1, <2>2, <2>3, NaturalsFromZero
  <2> QED
    BY <1>1, <2>4 DEF M
<1>8. Calls(h) = f
  BY <1>2, <1>5, <1>7 DEF chain
<1> QED
  BY <1>2, <1>8

(* The two links of the chain that a setup makes.                          *)
LEMMA FirstCalls ==
  ASSUME RepoTypeOK, NEW h \in Hook
  PROVE  /\ 0 \in 0 .. Backups /\ Called(h)[0] = hook[h].kind
         /\ hook[h].kind = "merged" =>
               1 \in 0 .. Backups /\ Called(h)[1] = orig[h][hook[h].calls].kind
<1>1. Backups \in Nat \ {0} /\ hook[h] \in HookFile
  BY BackupsAssumption DEF RepoTypeOK
<1>2. Iterates(Calls(h), hook[h], Callee(h), Backups)
  BY CallsIterate
<1>3. \A n \in 0 .. Backups : Called(h)[n] = Calls(h)[n].kind
  BY DEF Called
<1>4. Calls(h)[0] = hook[h] /\ Calls(h)[1] = Callee(h)[hook[h]]
  BY <1>1, <1>2 DEF Iterates
<1>5. hook[h].kind = "merged" => Callee(h)[hook[h]] = orig[h][hook[h].calls]
  BY <1>1 DEF Callee
<1>6. 0 \in 0 .. Backups /\ 1 \in 0 .. Backups
  BY <1>1
<1> QED
  BY <1>3, <1>4, <1>5, <1>6

(* When no backup is a wrapper, the chain ends behind the first one.       *)
LEMMA ChainEnds ==
  ASSUME RepoTypeOK, NEW h \in Hook, \A k \in Slot : orig[h][k].kind # "merged"
  PROVE  ~CallsItself(h)
<1>1. Backups \in Nat \ {0} /\ hook[h] \in HookFile
  BY BackupsAssumption DEF RepoTypeOK
<1>2. Calls(h) \in [0 .. Backups -> HookFile] /\ Iterates(Calls(h), hook[h], Callee(h), Backups)
  BY CallsIterate
<1>3. \A file \in HookFile : Callee(h)[file].kind # "merged"
  BY FileKinds DEF Callee
<1>4. Calls(h)[Backups] = Callee(h)[Calls(h)[Backups - 1]] /\ Calls(h)[Backups - 1] \in HookFile
  BY <1>1, <1>2 DEF Iterates
<1>5. Called(h)[Backups] = Calls(h)[Backups].kind
  BY <1>1 DEF Called
<1> QED
  BY <1>3, <1>4, <1>5 DEF CallsItself

-----------------------------------------------------------------------------
(* Unless two of them have overlapped, nobody else is inside an init or a  *)
(* setup while one of them makes a step.                                   *)
LEMMA InstallAlone ==
  ASSUME NEW p \in Proc, PlaceInv, Alone, ~overlapped', InitStep(p) \/ SetupAny(p)
  PROVE  ~overlapped /\ \A q \in Proc \ {p} : pc[q] \notin InitSteps \cup SetupSteps
<1>1. \A q \in Proc : pc[q] \in InitSteps \cup SetupSteps => Installing(q)
  BY DEF PlaceInv, PlaceAt, InitSteps, SetupSteps, Installing, Idle
<1>2. CASE NoteOverlap(p)
  BY <1>1, <1>2 DEF NoteOverlap
<1>3. CASE pc[p] \in InitSteps \cup SetupSteps /\ UNCHANGED overlapped
  BY <1>1, <1>3 DEF Alone
<1>4. CASE InitStep(p)
  BY <1>2, <1>3, <1>4 DEF InitStep, InitSteps, InitStart, CheckConfig, MoveConfig, SaveOpen, SaveWrite,
                          TemplateOpen, TemplateWrite, SetTemplateDir, InitFails, initHistory
<1>5. CASE SetupStart(p)
  BY <1>2, <1>5 DEF SetupStart
<1>6. CASE SetupStep(p)
  BY <1>3, <1>6 DEF SetupStep, SetupSteps, CheckSetup, ReadHook, Reserve, MoveHook, WrapperOpen, WrapperWrite,
                    CopyOpen, CopyWrite, CopyMode, MakeExecutable, Chmod, Enable, CheckIgnore, WriteIgnore,
                    SetSlug, SetWorktreeSlug,
                    initHistory
<1>7. CASE SetupFails(p)
  BY <1>3, <1>7 DEF SetupFails
<1> QED
  BY <1>4, <1>5, <1>6, <1>7 DEF SetupAny

LEMMA HAt ==
  ASSUME NEW p \in Proc, ProcessOK, PlaceAt(p), pc[p] \in HookLoop
  PROVE  H(p) \in todo[p] /\ H(p) \in Hook
  BY MinOfTemplates DEF ProcessOK, PlaceAt, H

(* A setup --force of the main repository is on record before its loop.    *)
ForceAt(p) ==
    /\ pc[p] = "setup" /\ Has(p, "force") /\ ~Has(p, "worktree") => forced # {}
    /\ pc[p] \in HookLoop /\ Has(p, "force") => forced # {}
ForceInv == \A p \in Proc : ForceAt(p)

(* What is in the hook, and in the backup, that a setup is working on.     *)
Midway == {"reserve", "merge", "merge2", "merge3", "copy", "copy2", "copy3"}
HookAt(p) ==
    /\ pc[p] \in {"reserve", "merge"} => hook[H(p)].kind \in {"empty", "user"}
    /\ pc[p] = "merge" => orig[H(p)][slot[p]].kind = "none"
    /\ pc[p] = "merge2" => hook[H(p)].kind = "none"
    /\ pc[p] \in {"merge3", "copy2"} => hook[H(p)].kind = "empty"
    /\ pc[p] = "copy" /\ forced = {} => hook[H(p)].kind = "none"
    /\ pc[p] = "copy3" => hook[H(p)].kind \in {"plain", "empty"}

(* A hook of the user is there, is called, or is about to be called.       *)
Stored(h) == hook[h].kind = "user" \/ \E k \in Slot : orig[h][k].kind = "user"
Reached(h) ==
    \/ hook[h].kind = "user"
    \/ hook[h].kind = "merged" /\ orig[h][hook[h].calls].kind = "user"
    \/ \E p \in Proc : pc[p] \in {"merge2", "merge3"} /\ H(p) = h /\ orig[h][slot[p]].kind = "user"

CallInv ==
    ~overlapped =>
        /\ \A p \in Proc : HookAt(p)
        /\ \A h \in Hook, k \in Slot : orig[h][k].kind # "merged"
        /\ forced = {} => \A h \in owned \ {0} : Stored(h) /\ ("hook" \notin cuts => Reached(h))

(* A step that changes no hook, and after which p works on none.           *)
LEMMA CallFrame ==
  ASSUME NEW p \in Proc, OthersStay(p), CallInv, UNCHANGED <<hook, orig, slot, owned>>,
         forced \subseteq forced', cuts \subseteq cuts', overlapped => overlapped',
         pc'[p] \notin Midway, pc[p] \in {"merge2", "merge3"} => "hook" \in cuts'
  PROVE  CallInv'
<1> SUFFICES ASSUME ~overlapped'
             PROVE  /\ \A q \in Proc : HookAt(q)'
                    /\ \A h \in Hook, k \in Slot : orig'[h][k].kind # "merged"
                    /\ forced' = {} => \A h \in owned \ {0} : Stored(h)' /\ ("hook" \notin cuts' => Reached(h)')
  BY DEF CallInv
<1>1. ASSUME NEW q \in Proc PROVE HookAt(q)'
  <2>1. CASE q = p
    BY <2>1 DEF HookAt, Midway
  <2>2. CASE q # p
    <3>1. pc'[q] = pc[q] /\ H(q)' = H(q) /\ slot'[q] = slot[q] /\ HookAt(q)
      BY <2>2 DEF OthersStay, H, CallInv
    <3> QED
      BY <3>1 DEF HookAt
  <2> QED
    BY <2>1, <2>2
<1>2. ASSUME forced' = {}, NEW h \in owned \ {0} PROVE Stored(h)' /\ ("hook" \notin cuts' => Reached(h)')
  <2>1. Stored(h) /\ ("hook" \notin cuts => Reached(h))
    BY <1>2 DEF CallInv
  <2>2. Stored(h)'
    BY <2>1 DEF Stored
  <2>3. ASSUME "hook" \notin cuts' PROVE Reached(h)'
    <3>1. Reached(h)
      BY <2>1, <2>3
    <3>2. ASSUME NEW q \in Proc, pc[q] \in {"merge2", "merge3"}, H(q) = h, orig[h][slot[q]].kind = "user"
          PROVE  pc'[q] \in {"merge2", "merge3"} /\ H(q)' = h /\ orig'[h][slot'[q]].kind = "user"
      BY <2>3, <3>2 DEF OthersStay, H
    <3> QED
      BY <3>1, <3>2 DEF Reached
  <2> QED
    BY <2>2, <2>3
<1>3. \A h \in Hook, k \in Slot : orig'[h][k].kind # "merged"
  BY DEF CallInv
<1> QED
  BY <1>1, <1>2, <1>3

LEMMA ForceFrame ==
  ASSUME NEW p \in Proc, OthersStay(p), ForceInv, forced \subseteq forced', ForceAt(p)'
  PROVE  ForceInv'
  BY DEF ForceInv, ForceAt, OthersStay, Has

LEMMA SetupKeepsForce ==
  ASSUME NEW p \in Proc, ProcessOK, OthersStay(p), SetupAny(p), ForceInv
  PROVE  ForceInv' /\ forced \subseteq forced'
<1> USE DEF ProcessOK, Goto, End, Ends, Continue, Has
<1>1. CASE SetupStart(p)
  <2>1. PICK flags \in SetupOptions :
           /\ Begin(p, "setup", flags, "setup")
           /\ forced' = IF "force" \in flags /\ "worktree" \notin flags
                        THEN forced \cup {IF armed /\ ~Current THEN "advised" ELSE "unadvised"} ELSE forced
    BY <1>1 DEF SetupStart
  <2>2. pc'[p] = "setup" /\ opts'[p] = flags
    BY <2>1 DEF Begin
  <2>3. ForceAt(p)'
    BY <2>1, <2>2 DEF ForceAt, HookLoop
  <2> QED
    BY <2>1, <2>3, ForceFrame
<1>2. ASSUME UNCHANGED <<forced, opts>>, pc[p] \in HookLoop \/ pc'[p] \notin HookLoop, pc'[p] # "setup"
      PROVE  ForceInv' /\ forced \subseteq forced'
  <2>1. ForceAt(p)'
    BY <1>2 DEF ForceAt, ForceInv
  <2> QED
    BY <1>2, <2>1, ForceFrame
<1>3. CASE CheckSetup(p)
  <2>1. UNCHANGED <<forced, opts>>
    BY <1>3 DEF CheckSetup, setupHistory
  <2>2. pc'[p] # "setup"
    BY <1>3 DEF CheckSetup, FirstStep
  <2>3. CASE pc'[p] \notin HookLoop
    BY <1>2, <2>1, <2>2, <2>3
  <2>4. CASE pc'[p] \in HookLoop
    <3>1. Refused(p) = "none" /\ pc'[p] = FirstStep(p) /\ pc[p] = "setup"
      BY <1>3, <2>4 DEF CheckSetup, HookLoop
    <3>2. ~Has(p, "worktree")
      BY <2>4, <3>1 DEF FirstStep, HookLoop
    <3>3. ForceAt(p)'
      BY <2>1, <2>2, <3>1, <3>2 DEF ForceAt, ForceInv
    <3> QED
      BY <2>1, <3>3, ForceFrame
  <2> QED
    BY <2>3, <2>4
<1>4. CASE ReadHook(p) \/ Reserve(p) \/ MoveHook(p) \/ WrapperOpen(p) \/ WrapperWrite(p)
  BY <1>2, <1>4 DEF ReadHook, Reserve, MoveHook, WrapperOpen, WrapperWrite, setupHistory, SetupStep, HookLoop
<1>5. CASE CopyOpen(p) \/ CopyWrite(p) \/ CopyMode(p) \/ Chmod(p)
  BY <1>2, <1>5 DEF CopyOpen, CopyWrite, CopyMode, MakeExecutable, Chmod, NextHook, HookLoop, setupHistory
<1>6. CASE Enable(p) \/ CheckIgnore(p) \/ WriteIgnore(p) \/ SetSlug(p) \/ SetWorktreeSlug(p) \/ SetupFails(p)
  BY <1>2, <1>6 DEF Enable, CheckIgnore, WriteIgnore, Last, SetSlug, SetWorktreeSlug, SetupFails, HookLoop,
                    setupHistory
<1> QED
  BY <1>1, <1>3, <1>4, <1>5, <1>6 DEF SetupAny, SetupStep

(* What a step at a hook has to show, when no other setup is there.        *)
Keeps(h) == Stored(h) /\ ("hook" \notin cuts => Reached(h))

LEMMA CallStep ==
  ASSUME NEW p \in Proc, OthersStay(p), \A q \in Proc \ {p} : pc[q] \notin SetupSteps, HookAt(p)',
         \A h \in Hook, k \in Slot : orig'[h][k].kind # "merged",
         forced' = {} => \A h \in (owned \ {0})' : Keeps(h)'
  PROVE  CallInv'
  BY DEF CallInv, HookAt, OthersStay, Keeps, SetupSteps

LEMMA HookStepKeepsCalls ==
  ASSUME NEW p \in Proc, ProcessOK, RepoTypeOK, PlaceAt(p), OthersStay(p), ForceInv, CallInv, ~overlapped,
         \A q \in Proc \ {p} : pc[q] \notin SetupSteps,
         \/ ReadHook(p)
         \/ Reserve(p)
         \/ MoveHook(p)
         \/ WrapperOpen(p)
         \/ WrapperWrite(p)
         \/ CopyOpen(p)
         \/ CopyWrite(p) \/ CopyMode(p)
         \/ Chmod(p),
         UNCHANGED initHistory
  PROVE  CallInv'
<1>1. pc[p] \in HookLoop
  BY DEF ReadHook, Reserve, MoveHook, WrapperOpen, WrapperWrite, CopyOpen, CopyWrite, CopyMode,
         MakeExecutable, Chmod, HookLoop
<1>0. PICK h0 \in Hook : h0 = H(p)
  BY <1>1, HAt
<1>2. h0 \in Hook /\ hook[h0] \in HookFile /\ hook \in [Hook -> HookFile]
  BY DEF RepoTypeOK
<1>3. slot[p] \in Slot /\ orig \in [Hook -> [Slot -> HookFile]] 
      /\ slot \in [Proc -> Slot] /\ pc \in [Proc -> {"idle", "ended"} \cup InitSteps \cup SetupSteps \cup Running]
  BY DEF RepoTypeOK, ProcessOK
<1>4. /\ UNCHANGED <<owned, forced, cuts>>
      /\ \A h \in owned \ {0} : h \in Hook
  BY DEF initHistory, setupHistory, RepoTypeOK, ReadHook, Reserve, MoveHook, WrapperOpen, WrapperWrite,
         CopyOpen,
         CopyWrite, CopyMode, MakeExecutable, Chmod
<1>5. /\ HookAt(p)
      /\ \A h \in Hook, k \in Slot : orig[h][k].kind # "merged"
      /\ forced = {} => \A h \in owned \ {0} : Keeps(h)
  BY DEF CallInv, Keeps
<1>6. \A q \in Proc : pc[q] \in Midway \cup {"hook", "chmod"} => q = p
  BY DEF SetupSteps, Midway
<1>7. \A h \in Hook : Reached(h) <=> \/ hook[h].kind = "user"
                                     \/ hook[h].kind = "merged" /\ orig[h][hook[h].calls].kind = "user"
                                     \/ pc[p] \in {"merge2", "merge3"} /\ h = h0 /\ orig[h][slot[p]].kind = "user"
  BY <1>0, <1>6 DEF Reached, Midway
<1>8. CASE pc'[p] \notin Midway /\ UNCHANGED <<hook, orig, slot>> /\ pc[p] \notin {"merge2", "merge3"}
  BY <1>4, <1>8, CallFrame DEF initHistory
<1>9. CASE ReadHook(p)
  <2>1. UNCHANGED <<hook, orig, slot, todo>> /\ pc[p] = "hook" /\ H(p)' = h0
    BY <1>0, <1>9 DEF ReadHook, repo, Continue, Ends, H
  <2>2. CASE pc'[p] \notin Midway
    BY <1>8, <2>1, <2>2
  <2>3. CASE pc'[p] = "copy" /\ (Has(p, "force") \/ ~Exists(h0))
    <3>1. forced = {} => hook[h0].kind = "none"
      BY <2>1, <2>3 DEF Exists, ForceInv, ForceAt, HookLoop
    <3>2. HookAt(p)'
      BY <1>4, <2>1, <2>3, <3>1 DEF HookAt
    <3>3. forced' = {} => \A h \in (owned \ {0})' : Keeps(h)'
      BY <1>4, <1>5, <1>7, <2>1 DEF Keeps, Stored, Reached
    <3> QED
      BY <1>5, <2>1, <3>2, <3>3, CallStep
  <2>4. CASE pc'[p] = "reserve" /\ Exists(h0) /\ ~IsDevback(hook[h0])
    <3>1. hook[h0].kind \in {"empty", "user"}
      BY <1>2, <2>4, FileKinds DEF Exists, IsDevback
    <3>2. HookAt(p)'
      BY <1>4, <2>1, <2>4, <3>1 DEF HookAt
    <3>3. forced' = {} => \A h \in (owned \ {0})' : Keeps(h)'
      BY <1>4, <1>5, <1>7, <2>1 DEF Keeps, Stored, Reached
    <3> QED
      BY <1>5, <2>1, <3>2, <3>3, CallStep
  <2> QED
    BY <1>0, <1>3, <1>9, <2>2, <2>3, <2>4 DEF ReadHook, Continue, Ends, End, Goto, Midway
<1>10. CASE Reserve(p)
  <2> DEFINE free == {k \in Slot : orig[h0][k].kind = "none"}
  <2>1. UNCHANGED <<hook, orig, todo>> /\ pc[p] = "reserve" /\ H(p)' = h0
    BY <1>0, <1>10 DEF Reserve, repo, Continue, Ends, H
  <2>2. CASE free = {}
    <3>1. pc'[p] = "ended" /\ UNCHANGED slot
      BY <1>0, <1>3, <1>10, <2>2 DEF Reserve, Ends, End, Goto
    <3> QED
      BY <1>8, <2>1, <3>1 DEF Midway
  <2>3. CASE free # {}
    <3>1. pc'[p] = "merge" /\ slot'[p] = Min(free)
      BY <1>0, <1>3, <1>10, <2>3 DEF Reserve, Continue, Goto
    <3>2. Min(free) \in free
      <4>1. free \in SUBSET Nat
        BY BackupsAssumption DEF Slot
      <4> HIDE DEF free
      <4> QED
        BY <2>3, <4>1, MinIsMember
    <3>3. orig[h0][slot'[p]].kind = "none"
      BY <3>1, <3>2
    <3>4. HookAt(p)'
      BY <1>0, <1>5, <2>1, <3>1, <3>3 DEF HookAt
    <3>5. forced' = {} => \A h \in (owned \ {0})' : Keeps(h)'
      BY <1>4, <1>5, <1>7, <2>1 DEF Keeps, Stored, Reached
    <3> QED
      BY <1>5, <2>1, <3>4, <3>5, CallStep
  <2> QED
    BY <2>2, <2>3
<1>11. CASE MoveHook(p)
  <2>1. pc[p] = "merge" /\ hook[h0].kind \in {"empty", "user"} /\ orig[h0][slot[p]].kind = "none"
    BY <1>0, <1>5, <1>11 DEF MoveHook, HookAt
  <2>2. /\ orig' = [orig EXCEPT ![h0][slot[p]] = hook[h0]] /\ hook' = [hook EXCEPT ![h0] = File("none")]
        /\ pc' = [pc EXCEPT ![p] = "merge2"] /\ UNCHANGED <<todo, slot>>
    BY <1>0, <1>11, <2>1 DEF MoveHook, Exists, Continue, Goto
  <2>3. pc'[p] = "merge2" /\ H(p)' = h0
    BY <1>0, <1>3, <2>2 DEF H
  <2>4. hook'[h0].kind = "none" /\ orig'[h0][slot[p]] = hook[h0]
    BY <1>2, <1>3, <2>2, FileKinds
  <2>5. HookAt(p)'
    BY <2>3, <2>4 DEF HookAt
  <2>6. \A h \in Hook, k \in Slot : orig'[h][k].kind # "merged"
    BY <1>2, <1>3, <1>5, <2>1, <2>2
  <2>7. ASSUME forced = {}, NEW h \in owned \ {0} PROVE Keeps(h)'
    <3>1. h \in Hook /\ Keeps(h)
      BY <1>4, <1>5, <2>7
    <3>2. CASE h # h0
      <4>1. hook'[h] = hook[h] /\ orig'[h] = orig[h]
        BY <1>2, <1>3, <2>2, <3>1, <3>2
      <4> QED
        BY <1>4, <1>7, <2>1, <3>1, <3>2, <4>1 DEF Keeps, Stored, Reached
    <3>3. CASE h = h0
      <4>1. Stored(h)'
        BY <1>3, <2>1, <2>2, <2>4, <3>1, <3>3 DEF Keeps, Stored
      <4>2. ASSUME "hook" \notin cuts PROVE Reached(h)'
        <5>1. hook[h0].kind = "user"
          BY <1>7, <2>1, <3>1, <3>3, <4>2 DEF Keeps
        <5> QED
          BY <2>2, <2>3, <2>4, <3>3, <5>1 DEF Reached
      <4> QED
        BY <1>4, <4>1, <4>2 DEF Keeps
    <3> QED
      BY <3>2, <3>3
  <2> QED
    BY <1>4, <2>5, <2>6, <2>7, CallStep
<1>12. ASSUME NEW file, hook' = [hook EXCEPT ![h0] = file], hook[h0].kind # "user", UNCHANGED <<orig, slot>>,
              forced = {} /\ "hook" \notin cuts /\ h0 \in owned \ {0} => Reached(h0)',
              \A h \in Hook \ {h0} : Reached(h) => Reached(h)', HookAt(p)'
       PROVE  CallInv'
  <2>1. ASSUME forced = {}, NEW h \in owned \ {0} PROVE Keeps(h)'
    <3>1. h \in Hook /\ Keeps(h)
      BY <1>4, <1>5, <2>1
    <3>2. Stored(h)'
      BY <1>2, <1>12, <3>1 DEF Keeps, Stored
    <3> QED
      BY <1>4, <1>12, <2>1, <3>1, <3>2 DEF Keeps
  <2> QED
    BY <1>4, <1>5, <1>12, <2>1, CallStep
<1>13. CASE WrapperOpen(p) \/ WrapperWrite(p)
  <2>1. CASE WrapperOpen(p)
    <3>1. pc[p] = "merge2" /\ hook[h0].kind = "none"
      BY <1>0, <1>5, <2>1 DEF WrapperOpen, HookAt
    <3>2. /\ hook' = [hook EXCEPT ![h0] = File("empty")] /\ pc'[p] = "merge3" /\ H(p)' = h0
          /\ UNCHANGED <<orig, slot>>
      BY <1>0, <1>3, <2>1 DEF WrapperOpen, Continue, Goto, H
    <3>3. HookAt(p)'
      BY <1>2, <3>2, FileKinds DEF HookAt
    <3>4. ASSUME NEW h \in Hook, Reached(h) PROVE Reached(h)'
      BY <1>2, <1>7, <3>1, <3>2, <3>4 DEF Reached
    <3>5. forced = {} /\ "hook" \notin cuts /\ h0 \in owned \ {0} => Reached(h0)
      BY <1>5 DEF Keeps
    <3> QED
      BY <1>2, <1>12, <3>1, <3>2, <3>3, <3>4, <3>5
  <2>2. CASE WrapperWrite(p)
    <3>1. pc[p] = "merge3" /\ hook[h0].kind = "empty"
      BY <1>0, <1>5, <2>2 DEF WrapperWrite, HookAt
    <3>2. /\ hook' = [hook EXCEPT ![h0] = Wrapper(slot[p])] /\ pc'[p] = "chmod" /\ H(p)' = h0
          /\ UNCHANGED <<orig, slot>>
      BY <1>0, <1>3, <2>2 DEF WrapperWrite, Continue, Goto, H
    <3>3. HookAt(p)'
      BY <3>2 DEF HookAt
    <3>4. ASSUME NEW h \in Hook, Reached(h) PROVE Reached(h)'
      <4>1. CASE h = h0
        BY <1>2, <1>7, <3>1, <3>2, <3>4, <4>1, FileKinds DEF Reached
      <4>2. CASE h # h0
        BY <1>2, <1>7, <3>1, <3>2, <3>4, <4>2 DEF Reached
      <4> QED
        BY <4>1, <4>2
    <3>5. forced = {} /\ "hook" \notin cuts /\ h0 \in owned \ {0} => Reached(h0)
      BY <1>5 DEF Keeps
    <3> QED
      BY <1>2, <1>12, <3>1, <3>2, <3>3, <3>4, <3>5
  <2> QED
    BY <1>13, <2>1, <2>2
<1>14. CASE CopyOpen(p)
  <2>1. pc[p] = "copy" /\ (forced = {} => hook[h0].kind = "none")
    BY <1>0, <1>5, <1>14 DEF CopyOpen, HookAt
  <2>2. CASE Ends(p, "critical") /\ UNCHANGED hook
    BY <1>3, <1>8, <1>14, <2>1, <2>2 DEF CopyOpen, Ends, End, Goto, Midway
  <2>3. CASE hook' = [hook EXCEPT ![h0] = File("empty")] /\ Continue(p, "copy2")
    <3>1. pc'[p] = "copy2" /\ H(p)' = h0 /\ UNCHANGED <<orig, slot>>
      BY <1>0, <1>3, <1>14, <2>3 DEF CopyOpen, Continue, Goto, H
    <3>2. HookAt(p)'
      BY <1>2, <2>3, <3>1, FileKinds DEF HookAt
    <3>3. CASE forced = {}
      <4>1. ASSUME NEW h \in Hook \ {h0}, Reached(h) PROVE Reached(h)'
        BY <1>2, <1>7, <2>1, <2>3, <3>1, <4>1 DEF Reached
      <4>2. ~Reached(h0)
        BY <1>2, <1>7, <2>1, <3>3
      <4>3. ~("hook" \notin cuts /\ h0 \in owned \ {0})
        BY <1>5, <3>3, <4>2 DEF Keeps
      <4> QED
        BY <1>12, <2>1, <2>3, <3>1, <3>2, <3>3, <4>1, <4>3
    <3>4. CASE forced # {}
      BY <1>4, <1>5, <3>1, <3>2, <3>4, CallStep
    <3> QED
      BY <3>3, <3>4
  <2> QED
    BY <1>0, <1>14, <2>2, <2>3 DEF CopyOpen
<1>15. CASE CopyWrite(p)
  <2>1. pc[p] = "copy2" /\ hook[h0].kind = "empty"
    BY <1>0, <1>5, <1>15 DEF CopyWrite, HookAt
  <2>2. PICK file \in {File("plain"), File("empty")} : hook' = [hook EXCEPT ![h0] = file]
    BY <1>0, <1>15 DEF CopyWrite
  <2>3. pc'[p] = "copy3" /\ H(p)' = h0 /\ UNCHANGED <<orig, slot>>
    BY <1>0, <1>3, <1>15 DEF CopyWrite, Continue, Goto, H
  <2>4. HookAt(p)'
    BY <1>2, <2>2, <2>3, FileKinds DEF HookAt
  <2>5. ASSUME NEW h \in Hook \ {h0}, Reached(h) PROVE Reached(h)'
    BY <1>2, <1>7, <2>1, <2>2, <2>3, <2>5 DEF Reached
  <2>6. ~Reached(h0)
    BY <1>2, <1>7, <2>1
  <2>7. ~(forced = {} /\ "hook" \notin cuts /\ h0 \in owned \ {0})
    BY <1>5, <2>6 DEF Keeps
  <2> QED
    BY <1>12, <2>1, <2>2, <2>3, <2>4, <2>5, <2>7
<1>16. CASE CopyMode(p) \/ Chmod(p)
  <2>1. pc[p] \in {"copy3", "chmod"} /\ UNCHANGED <<orig, slot>>
    BY <1>16 DEF CopyMode, Chmod
  <2>2. pc'[p] \in {"ended", "enable", "hook", "chmod"}
    BY <1>3, <1>16 DEF CopyMode, Chmod, Ends, End, Continue, NextHook, Goto
  <2>3. CASE UNCHANGED hook
    BY <1>8, <2>1, <2>2, <2>3 DEF Midway
  <2>4. CASE hook[h0].kind = "plain" /\ hook' = [hook EXCEPT ![h0] = File("template")]
    <3>1. HookAt(p)'
      BY <2>2 DEF HookAt
    <3>2. ASSUME NEW h \in Hook \ {h0}, Reached(h) PROVE Reached(h)'
      BY <1>2, <1>7, <2>1, <2>4, <3>2 DEF Reached
    <3>3. ~Reached(h0)
      BY <1>2, <1>7, <2>1, <2>4
    <3>4. ~(forced = {} /\ "hook" \notin cuts /\ h0 \in owned \ {0})
      BY <1>5, <3>3 DEF Keeps
    <3> QED
      BY <1>12, <2>1, <2>4, <3>1, <3>2, <3>4
  <2> QED
    BY <1>0, <1>16, <2>3, <2>4 DEF CopyMode, Chmod, MakeExecutable
<1> QED
  BY <1>9, <1>10, <1>11, <1>13, <1>14, <1>15, <1>16

LEMMA SetupKeepsCalls ==
  ASSUME NEW p \in Proc, ProcessOK, RepoTypeOK, PlaceInv, OthersStay(p), SetupAny(p), Alone, ForceInv, CallInv
  PROVE  CallInv'
<1>1. PlaceAt(p) /\ pc \in [Proc -> {"idle", "ended"} \cup InitSteps \cup SetupSteps \cup Running]
  BY DEF PlaceInv, ProcessOK
<1>2. forced \subseteq forced'
  BY SetupKeepsForce
<1>3. CASE SetupStep(p) /\ ~overlapped' /\ pc[p] \in HookLoop
  <2>1. ~overlapped /\ \A q \in Proc \ {p} : pc[q] \notin SetupSteps
    BY <1>3, InstallAlone
  <2>2. \/ ReadHook(p) \/ Reserve(p) \/ MoveHook(p) \/ WrapperOpen(p)
        \/ WrapperWrite(p) \/ CopyOpen(p) \/ CopyWrite(p) \/ CopyMode(p) \/ Chmod(p)
    BY <1>3 DEF SetupStep, HookLoop, CheckSetup, Enable, CheckIgnore, WriteIgnore, SetSlug, SetWorktreeSlug
  <2>3. UNCHANGED initHistory
    BY <1>3 DEF SetupStep
  <2> QED
    BY <1>1, <2>1, <2>2, <2>3, HookStepKeepsCalls
<1>4. CASE overlapped'
  BY <1>4 DEF CallInv
<1>5. CASE SetupStep(p) /\ pc[p] \notin HookLoop
  <2>1. UNCHANGED <<hook, orig, slot, owned, cuts, overlapped>>
    BY <1>5 DEF SetupStep, initHistory, repo, setupHistory, HookLoop, CheckSetup, ReadHook, Reserve, MoveHook,
                WrapperOpen, WrapperWrite, CopyOpen, CopyWrite, CopyMode, MakeExecutable, Chmod, Enable,
                CheckIgnore, WriteIgnore, SetSlug,
                SetWorktreeSlug
  <2>2. pc'[p] \notin Midway
    BY <1>1, <1>5 DEF SetupStep, HookLoop, Midway, CheckSetup, FirstStep, ReadHook, Reserve, MoveHook,
                      WrapperOpen,
                WrapperWrite, CopyOpen, CopyWrite, CopyMode, MakeExecutable, Chmod, Enable, CheckIgnore,
                WriteIgnore, Last, SetSlug,
                SetWorktreeSlug, Ends, End, Continue, Goto
  <2> QED
    BY <1>2, <1>5, <2>1, <2>2, CallFrame DEF HookLoop
<1>6. CASE SetupStart(p)
  <2>1. UNCHANGED <<hook, orig, slot, owned, cuts>> /\ (overlapped => overlapped')
    BY <1>6 DEF SetupStart, NoteOverlap, repo
  <2>2. pc'[p] = "setup" /\ pc[p] \in {"idle", "ended"}
    BY <1>1, <1>6 DEF SetupStart, Begin, Goto, Idle
  <2> QED
    BY <1>2, <2>1, <2>2, CallFrame DEF Midway
<1>7. CASE SetupFails(p)
  <2>1. UNCHANGED <<hook, orig, slot, owned, overlapped>> /\ cuts \subseteq cuts' /\ pc'[p] = "ended"
    BY <1>1, <1>7 DEF SetupFails, Cut, repo, setupHistory, Ends, End, Goto
  <2>2. pc[p] \in {"merge2", "merge3"} => "hook" \in cuts'
    BY <1>7 DEF SetupFails, Cut
  <2> QED
    BY <1>2, <2>1, <2>2, CallFrame DEF Midway
<1> QED
  BY <1>3, <1>4, <1>5, <1>6, <1>7 DEF SetupAny

LEMMA InitKeepsCalls ==
  ASSUME NEW p \in Proc, ProcessOK, PlaceInv, OthersStay(p), InitStep(p), UNCHANGED <<repo, slot, setupHistory>>,
         ForceInv, CallInv
  PROVE  ForceInv' /\ CallInv'
<1>1. PlaceAt(p) /\ pc \in [Proc -> {"idle", "ended"} \cup InitSteps \cup SetupSteps \cup Running]
  BY DEF PlaceInv, ProcessOK
<1>2. UNCHANGED <<hook, orig, slot, owned, forced>>
  BY DEF repo, setupHistory
<1>3. cuts \subseteq cuts' /\ (overlapped => overlapped')
  <2>1. CASE InitStart(p)
    BY <2>1 DEF InitStart, NoteOverlap
  <2>2. CASE CheckConfig(p) \/ MoveConfig(p) \/ SaveOpen(p) \/ SaveWrite(p)
    BY <2>2 DEF CheckConfig, MoveConfig, SaveOpen, SaveWrite, initHistory
  <2>3. CASE TemplateOpen(p) \/ TemplateWrite(p) \/ SetTemplateDir(p)
    BY <2>3 DEF TemplateOpen, TemplateWrite, SetTemplateDir, initHistory
  <2>4. CASE InitFails(p)
    BY <2>4 DEF InitFails, Cut
  <2> QED
    BY <2>1, <2>2, <2>3, <2>4 DEF InitStep
<1>4. pc[p] \in InitSteps \cup {"idle", "ended"}
  BY DEF InitStep, InitSteps, InitStart, Begin, Idle, CheckConfig, MoveConfig, SaveOpen, SaveWrite,
         TemplateOpen,
         TemplateWrite, SetTemplateDir, InitFails
<1>5. pc'[p] \in InitSteps \cup {"ended"}
  <2> USE <1>1 DEF InitSteps, Goto, End
  <2>1. CASE InitStart(p)
    BY <2>1 DEF InitStart, Begin
  <2>2. CASE CheckConfig(p)
    BY <2>2 DEF CheckConfig, AfterConfig, AfterTemplates
  <2>3. CASE MoveConfig(p) \/ SaveOpen(p) \/ TemplateOpen(p) \/ SetTemplateDir(p) \/ InitFails(p)
    BY <2>3 DEF MoveConfig, SaveOpen, TemplateOpen, SetTemplateDir, InitFails
  <2>4. CASE SaveWrite(p) \/ TemplateWrite(p)
    BY <2>4 DEF SaveWrite, TemplateWrite, AfterConfig, AfterTemplates
  <2> QED
    BY <2>1, <2>2, <2>3, <2>4 DEF InitStep
<1>6. ForceInv'
  <2>1. ForceAt(p)'
    BY <1>5 DEF ForceAt, InitSteps, HookLoop
  <2> QED
    BY <1>2, <2>1, ForceFrame
<1>7. CallInv'
  BY <1>2, <1>3, <1>4, <1>5, CallFrame DEF InitSteps, Midway
<1> QED
  BY <1>6, <1>7

LEMMA ClientKeepsCalls ==
  ASSUME NEW p \in Proc, ProcessOK, BackupOK, PlaceAt(p), FlagsAt(p), OthersStay(p), ClientStep(p), ForceInv, CallInv
  PROVE  ForceInv' /\ CallInv'
<1>1. ~Installing(p)' /\ (~Kill(p) => ~Installing(p))
  BY ClientInstallsNothing
<1>2. UNCHANGED <<hook, orig, slot, owned, forced, overlapped>> /\ cuts \subseteq cuts'
  <2>1. CASE UNCHANGED install
    BY <2>1 DEF install, initHistory, setupHistory, repo
  <2>2. CASE Kill(p)
    BY <2>2 DEF Kill, Cut, repo, setupHistory
  <2> QED
    BY <2>1, <2>2 DEF ClientStep, HookStep, GitCommit, RebaseFinish, Change, Manual, AmendRewrite, RebaseClean,
                      Preflight, CheckRebase, CheckDebounce, AcquireLock, Copy, Finish, CopyFails, ReleaseLock,
                      TruncateStamp, WriteStamp, WriteTime, MoveStamp, StampFails
<1>3. pc'[p] \notin SetupSteps
  <2>1. PlaceAt(p)'
    BY ClientKeepsPlace
  <2> QED
    BY <1>1, <2>1 DEF PlaceAt, SetupSteps, Installing, Idle
<1>4. pc[p] \in {"merge2", "merge3"} => "hook" \in cuts'
  <2>1. CASE Kill(p)
    BY <2>1 DEF Kill, Cut
  <2>2. CASE ~Kill(p)
    BY <1>1, <2>2 DEF Installing, Idle, PlaceAt, SetupSteps
  <2> QED
    BY <2>1, <2>2
<1>5. ForceInv'
  <2>1. ForceAt(p)'
    BY <1>3 DEF ForceAt, SetupSteps, HookLoop
  <2> QED
    BY <1>2, <2>1, ForceFrame
<1>6. CallInv'
  BY <1>2, <1>3, <1>4, CallFrame DEF SetupSteps, Midway
<1> QED
  BY <1>5, <1>6

LEMMA CallsInductive ==
  ASSUME TypeInv, Alone, ForceInv, CallInv, [Next]_vars
  PROVE  ForceInv' /\ CallInv'
<1>1. ProcessOK /\ BackupOK /\ PlaceInv /\ FlagsInv /\ HomeTypeOK /\ RepoTypeOK
  BY TypeInvParts
<1>2. CASE \E p \in Proc : InitStep(p) /\ UNCHANGED <<scene, repo, slot, setupHistory, backup>>
  BY <1>1, <1>2, OthersInitStep, InitKeepsCalls
<1>3. CASE \E p \in Proc : SetupAny(p) /\ UNCHANGED <<scene, backup>>
  BY <1>1, <1>3, OthersSetupStep, SetupKeepsCalls, SetupKeepsForce
<1>4. CASE \E p \in Proc : ClientStep(p)
  BY <1>1, <1>4, OthersClientStep, ClientKeepsCalls DEF PlaceInv, FlagsInv
<1>5. CASE RebaseStart \/ (Tick /\ UNCHANGED <<scene, repo, slot, setupHistory, backup>>) \/ UNCHANGED vars
  <2>1. UNCHANGED <<pc, opts, todo, hook, orig, slot, owned, forced, cuts, overlapped>>
    BY <1>5 DEF RebaseStart, Tick, vars, process, install, home, repo, initHistory, setupHistory
  <2> QED
    BY <2>1 DEF ForceInv, ForceAt, CallInv, HookAt, Stored, Reached, H, Has
<1> QED
  BY <1>2, <1>3, <1>4, <1>5, StepCases

LEMMA InitialCalls == Init => ForceInv /\ CallInv
<1> SUFFICES ASSUME Init PROVE ForceInv /\ CallInv
  OBVIOUS
<1>1. \A p \in Proc : pc[p] = "idle"
  BY DEF Init
<1>2. scene.userHooks \in SUBSET Hook /\ scene.edited \in SUBSET BOOLEAN
  BY ScenesAssumption DEF Init
<1>3. PICK hooks \in SUBSET scene.userHooks, edited \in scene.edited :
         /\ owned = hooks \cup (IF edited THEN {0} ELSE {})
         /\ hook = [h \in Hook |->
               IF Installed THEN (IF h \in hooks THEN Wrapper(0) ELSE File("template"))
               ELSE IF h \in hooks THEN File("user") ELSE File("none")]
         /\ orig = [h \in Hook |-> [k \in Slot |->
               File(IF Installed /\ h \in hooks /\ k = 0 THEN "user" ELSE "none")]]
  BY Zenon DEF Init
<1>4. 0 \in Slot
  BY BackupsAssumption DEF Slot
<1>5. \A h \in owned \ {0} : Stored(h) /\ Reached(h)
  <2>1. hooks \subseteq Hook /\ 0 \notin Hook /\ owned \ {0} \subseteq hooks
    BY <1>2, <1>3 DEF Hook
  <2> QED
    BY <1>3, <1>4, <2>1, FileKinds DEF Stored, Reached
<1>6. \A h \in Hook, k \in Slot : orig[h][k].kind # "merged"
  BY <1>3, FileKinds
<1> QED
  BY <1>1, <1>5, <1>6 DEF ForceInv, ForceAt, CallInv, HookAt, HookLoop

LEMMA CallInvariant == Spec => []CallInv
<1>1. WholeInv => Alone
  BY DEF WholeInv
<1> QED
  BY <1>1, InitialCalls, CallsInductive, TypeInvariant, WholeInvariant, PTL DEF Spec

(* The hooks of the user are kept through any sequence of setups without   *)
(* --force that did not overlap, and called when none was cut short.       *)
THEOREM UserHooksAreKept == Spec => []UserHookKept
<1>1. ASSUME TypeInv, CallInv, forced = {}, ~overlapped, NEW h \in owned \ {0}
      PROVE  /\ NobodyInstalls /\ "hook" \notin cuts => RunsUser(h)
             /\ hook[h].kind = "user" \/ \E k \in Slot : orig[h][k].kind = "user"
  <2>1. RepoTypeOK /\ PlaceInv /\ h \in Hook
    BY <1>1, TypeInvParts DEF RepoTypeOK
  <2>2. Stored(h) /\ ("hook" \notin cuts => Reached(h))
    BY <1>1 DEF CallInv
  <2>3. ASSUME NobodyInstalls, "hook" \notin cuts PROVE RunsUser(h)
    <3>1. \A p \in Proc : pc[p] \notin {"merge2", "merge3"}
      BY <2>1, <2>3 DEF NobodyInstalls, Installing, Idle, PlaceInv, PlaceAt, SetupSteps
    <3>2. \/ hook[h].kind = "user"
          \/ hook[h].kind = "merged" /\ orig[h][hook[h].calls].kind = "user"
      BY <2>2, <2>3, <3>1 DEF Reached
    <3> QED
      BY <2>1, <3>2, FirstCalls DEF RunsUser
  <2> QED
    BY <2>2, <2>3 DEF Stored
<1>2. TypeInv /\ CallInv => UserHookKept
  BY <1>1 DEF UserHookKept
<1> QED
  BY <1>2, TypeInvariant, CallInvariant, PTL

(* No wrapper calls itself, unless two setups have overlapped.             *)
THEOREM HooksDoNotLoop == Spec => []NoHookLoop
<1>1. TypeInv /\ CallInv => NoHookLoop
  BY TypeInvParts, ChainEnds DEF CallInv, NoHookLoop
<1> QED
  BY <1>1, TypeInvariant, CallInvariant, PTL

-----------------------------------------------------------------------------
(* Every hook runs devback.  First, that it is enabled: a setup that       *)
(* installs hooks has enabled it before it comes to the ignore file.       *)
Behind == {"ignore", "ignore2", "slug", "slug2"}
EnabledAt(p) == pc[p] \in Behind /\ WithHooks(p) => enabled
EnabledInv == (armed => enabled) /\ \A p \in Proc : EnabledAt(p)

LEMMA EnabledFrame ==
  ASSUME NEW p \in Proc, OthersStay(p), EnabledInv, enabled => enabled', armed' => enabled', EnabledAt(p)'
  PROVE  EnabledInv'
  BY DEF EnabledInv, EnabledAt, OthersStay, WithHooks

LEMMA BehindSteps ==
  ASSUME NEW p \in Proc, ProcessOK, CheckIgnore(p) \/ WriteIgnore(p) \/ SetSlug(p) \/ SetWorktreeSlug(p)
  PROVE  /\ pc[p] \in Behind /\ pc'[p] \in Behind \cup {"ended"} /\ UNCHANGED <<hook, enabled, opts>>
         /\ armed' => armed \/ WithHooks(p)
<1> USE DEF ProcessOK, Goto, End, Ends, Continue, Behind
<1>1. CASE CheckIgnore(p)
  BY <1>1 DEF CheckIgnore, Last
<1>2. CASE WriteIgnore(p)
  BY <1>2 DEF WriteIgnore, Last
<1>3. CASE SetSlug(p)
  BY <1>3 DEF SetSlug
<1>4. CASE SetWorktreeSlug(p)
  BY <1>4 DEF SetWorktreeSlug, setupHistory
<1> QED
  BY <1>1, <1>2, <1>3, <1>4

LEMMA SetupKeepsEnabled ==
  ASSUME NEW p \in Proc, ProcessOK, OthersStay(p), SetupAny(p), EnabledInv
  PROVE  EnabledInv'
<1> USE DEF ProcessOK, Goto, End, Ends, Continue
<1>1. EnabledAt(p) /\ (armed => enabled)
  BY DEF EnabledInv
<1>2. CASE pc'[p] \notin Behind /\ UNCHANGED <<enabled, armed>>
  BY <1>1, <1>2, EnabledFrame DEF EnabledAt
<1>3. CASE SetupStart(p)
  BY <1>2, <1>3 DEF SetupStart, Begin, Behind, repo
<1>4. CASE CheckSetup(p)
  <2>1. UNCHANGED <<enabled, armed, opts>>
    BY <1>4 DEF CheckSetup, repo, setupHistory
  <2>2. pc'[p] \in Behind => ~WithHooks(p)
    BY <1>4 DEF CheckSetup, FirstStep, Behind, WithHooks, Has
  <2>3. EnabledAt(p)'
    BY <2>1, <2>2 DEF EnabledAt, WithHooks
  <2> QED
    BY <1>1, <2>1, <2>3, EnabledFrame
<1>5. CASE ReadHook(p) \/ Reserve(p) \/ MoveHook(p) \/ WrapperOpen(p) \/ WrapperWrite(p)
  BY <1>2, <1>5 DEF ReadHook, Reserve, MoveHook, WrapperOpen, WrapperWrite, Behind, repo, setupHistory
<1>6. CASE CopyOpen(p) \/ CopyWrite(p) \/ CopyMode(p) \/ Chmod(p)
  BY <1>2, <1>6 DEF CopyOpen, CopyWrite, CopyMode, MakeExecutable, Chmod, NextHook, Behind, setupHistory
<1>7. CASE SetupFails(p)
  BY <1>2, <1>7 DEF SetupFails, Behind, repo, setupHistory
<1>8. CASE Enable(p)
  <2>1. EnabledAt(p)'
    BY <1>8 DEF Enable, EnabledAt
  <2> QED
    BY <1>8, <2>1, EnabledFrame DEF Enable
<1>9. CASE CheckIgnore(p) \/ WriteIgnore(p) \/ SetSlug(p) \/ SetWorktreeSlug(p)
  <2>1. /\ pc[p] \in Behind /\ UNCHANGED <<enabled, opts>>
        /\ armed' => armed \/ WithHooks(p)
    BY <1>9, BehindSteps
  <2>2. EnabledAt(p)' /\ (armed' => enabled')
    BY <1>1, <2>1 DEF EnabledAt, WithHooks
  <2> QED
    BY <2>1, <2>2, EnabledFrame
<1> QED
  BY <1>3, <1>4, <1>5, <1>6, <1>7, <1>8, <1>9 DEF SetupAny, SetupStep

-----------------------------------------------------------------------------
(* As long as nothing was cut short and nothing has overlapped: templates  *)
(* are there all or none but while an init writes them; the setup that is  *)
(* installing hooks has done those it has left behind; and once one has    *)
(* succeeded, only the hook that another is just writing may be undone.    *)
Calm == cuts = {} /\ ~overlapped
Done(h) == hook[h].kind \in {"template", "merged"}
AllWhole == \A t \in Template : template[t] = "whole"
AtTemplate == {"template", "template2"}
AtHook == {"merge2", "merge3", "copy2", "copy3", "chmod"}

InstallAt(p) ==
    /\ pc[p] \in AtTemplate => \A t \in Template \ todo[p] : template[t] = "whole"
    /\ pc[p] \in HookLoop => WithHooks(p) /\ AllWhole /\ \A h \in Hook \ todo[p] : Done(h)
    /\ pc[p] \in {"copy3", "chmod"} => IsDevback(hook[H(p)])
    /\ pc[p] \in {"enable"} \cup Behind /\ WithHooks(p) => \A h \in Hook : Done(h)

AllOrNone ==
    AllWhole \/ (\A t \in Template : template[t] = "none") \/ \E p \in Proc : pc[p] \in AtTemplate

ArmedHooks == armed => \A h \in Hook : Done(h) \/ \E p \in Proc : pc[p] \in AtHook /\ H(p) = h

CalmInv == Calm => (\A p \in Proc : InstallAt(p)) /\ AllOrNone /\ ArmedHooks

(* A step that changes no hook and no template.                            *)
LEMMA CalmFrame ==
  ASSUME NEW p \in Proc, OthersStay(p), CalmInv, UNCHANGED <<hook, template>>,
         cuts \subseteq cuts', overlapped => overlapped',
         Calm' => /\ pc[p] \notin AtTemplate \cup AtHook
                  /\ InstallAt(p)'
                  /\ armed' => armed \/ \A h \in Hook : Done(h)
  PROVE  CalmInv'
<1> SUFFICES ASSUME Calm' PROVE (\A q \in Proc : InstallAt(q)') /\ AllOrNone' /\ ArmedHooks'
  BY DEF CalmInv
<1>1. Calm
  BY DEF Calm
<1>2. ASSUME NEW q \in Proc PROVE InstallAt(q)'
  <2>1. CASE q # p
    <3>1. pc'[q] = pc[q] /\ todo'[q] = todo[q] /\ opts'[q] = opts[q] /\ H(q)' = H(q) /\ InstallAt(q)
      BY <1>1, <2>1 DEF OthersStay, H, CalmInv
    <3> QED
      BY <3>1 DEF InstallAt, AllWhole, WithHooks, Done, IsDevback
  <2> QED
    BY <2>1
<1>3. AllOrNone'
  BY <1>1 DEF CalmInv, AllOrNone, AllWhole, OthersStay
<1>4. ASSUME armed', NEW h \in Hook PROVE Done(h)' \/ \E q \in Proc : pc'[q] \in AtHook /\ H(q)' = h
  <2>1. CASE Done(h)
    BY <2>1 DEF Done
  <2>2. CASE ~Done(h)
    <3>1. PICK q \in Proc : pc[q] \in AtHook /\ H(q) = h
      BY <1>1, <1>4, <2>2 DEF CalmInv, ArmedHooks
    <3>2. q # p
      BY <3>1
    <3> QED
      BY <3>1, <3>2 DEF OthersStay, H
  <2> QED
    BY <2>1, <2>2
<1> QED
  BY <1>2, <1>3, <1>4 DEF ArmedHooks

LEMMA TemplateKeepsCalm ==
  ASSUME NEW p \in Proc, ProcessOK, HomeTypeOK, PlaceAt(p), OthersStay(p), CalmInv,
         ~overlapped' => \A q \in Proc \ {p} : pc[q] \notin InitSteps \cup SetupSteps,
         UNCHANGED <<hook, armed, opts, cuts, overlapped>>, TemplateOpen(p) \/ TemplateWrite(p)
  PROVE  CalmInv'
<1> SUFFICES ASSUME Calm' PROVE (\A q \in Proc : InstallAt(q)') /\ AllOrNone' /\ ArmedHooks'
  BY DEF CalmInv
<1>1. /\ Calm /\ pc[p] \in AtTemplate
      /\ \A q \in Proc \ {p} : pc[q] \notin InitSteps \cup SetupSteps
      /\ \A q \in Proc \ {p} : pc'[q] = pc[q]
  BY DEF Calm, TemplateOpen, TemplateWrite, AtTemplate, OthersStay
<1>2. \A q \in Proc \ {p} : InstallAt(q)'
  BY <1>1 DEF InstallAt, AtTemplate, HookLoop, Behind, InitSteps, SetupSteps
<1>3. ArmedHooks'
  <2>1. ASSUME armed, NEW h \in Hook PROVE Done(h)
    BY <1>1, <2>1 DEF CalmInv, ArmedHooks, AtHook, AtTemplate, SetupSteps
  <2> QED
    BY <2>1 DEF ArmedHooks, Done
<1>4. Min(todo[p]) \in todo[p] /\ todo[p] \in SUBSET Template
  BY <1>1, MinOfTemplates DEF ProcessOK, PlaceAt, AtTemplate
<1>5. InstallAt(p) /\ template \in [Template -> {"none", "empty", "whole"}]
  BY <1>1 DEF CalmInv, HomeTypeOK
<1>6. CASE TemplateOpen(p)
  <2>1. pc'[p] = "template2" /\ UNCHANGED todo /\ template' = [template EXCEPT ![Min(todo[p])] = "empty"]
    BY <1>6 DEF TemplateOpen, Goto, ProcessOK
  <2>2. InstallAt(p)'
    BY <1>1, <1>4, <1>5, <2>1 DEF InstallAt, AtTemplate, HookLoop, Behind
  <2> QED
    BY <1>2, <1>3, <2>1, <2>2 DEF AllOrNone, AtTemplate
<1>7. CASE TemplateWrite(p)
  <2>1. /\ todo'[p] = todo[p] \ {Min(todo[p])} /\ template' = [template EXCEPT ![Min(todo[p])] = "whole"]
        /\ pc'[p] \in {"template", "git", "ended"} /\ (todo'[p] # {} => pc'[p] = "template")
    BY <1>7 DEF TemplateWrite, AfterTemplates, Goto, End, ProcessOK
  <2>2. \A t \in Template \ todo'[p] : template'[t] = "whole"
    BY <1>1, <1>4, <1>5, <2>1 DEF InstallAt
  <2>3. InstallAt(p)'
    BY <2>1, <2>2 DEF InstallAt, HookLoop, Behind
  <2>4. AllOrNone'
    BY <2>1, <2>2 DEF AllOrNone, AllWhole, AtTemplate
  <2> QED
    BY <1>2, <1>3, <2>3, <2>4
<1> QED
  BY <1>6, <1>7

LEMMA InitKeepsCalm ==
  ASSUME NEW p \in Proc, ProcessOK, HomeTypeOK, PlaceInv, OthersStay(p), InitStep(p), UNCHANGED <<repo, setupHistory>>,
         Alone, CalmInv
  PROVE  CalmInv'
<1> USE DEF Goto, End
<1>1. /\ PlaceAt(p) /\ pc \in [Proc -> {"idle", "ended"} \cup InitSteps \cup SetupSteps \cup Running]
      /\ todo \in [Proc -> SUBSET Template]
  BY DEF PlaceInv, ProcessOK
<1>2. UNCHANGED <<hook, armed>>
  BY DEF repo, setupHistory
<1>3. ASSUME UNCHANGED template, cuts \subseteq cuts', overlapped => overlapped',
             pc[p] \in AtTemplate => cuts' # {}, pc[p] \notin AtHook,
             \/ pc'[p] \in (InitSteps \cup {"ended"}) \ AtTemplate
             \/ pc'[p] = "template" /\ todo'[p] = Template
      PROVE  CalmInv'
  <2>1. InstallAt(p)'
    BY <1>3 DEF InstallAt, AtTemplate, InitSteps, HookLoop, Behind
  <2> QED
    BY <1>2, <1>3, <2>1, CalmFrame DEF Calm
<1>4. CASE InitStart(p)
  <2>1. pc'[p] = "check" /\ pc[p] \in {"idle", "ended"}
    BY <1>1, <1>4 DEF InitStart, Begin, Idle
  <2> QED
    BY <1>3, <1>4, <2>1 DEF InitStart, NoteOverlap, home, InitSteps, AtTemplate, AtHook
<1>5. ASSUME AfterConfig(p) PROVE \/ pc'[p] \in {"git", "ended"}
                                  \/ pc'[p] = "template" /\ todo'[p] = Template
  BY <1>1, <1>5 DEF AfterConfig, AfterTemplates
<1>6. CASE CheckConfig(p)
  <2>1. \/ pc'[p] \in {"git", "ended", "save", "move"}
        \/ pc'[p] = "template" /\ todo'[p] = Template
    BY <1>1, <1>5, <1>6 DEF CheckConfig
  <2> QED
    BY <1>3, <1>6, <2>1 DEF CheckConfig, home, initHistory, InitSteps, AtTemplate, AtHook
<1>7. CASE MoveConfig(p)
  <2>1. pc'[p] \in {"ended", "save"}
    BY <1>1, <1>7 DEF MoveConfig
  <2> QED
    BY <1>3, <1>7, <2>1 DEF MoveConfig, InitSteps, AtTemplate, AtHook
<1>8. CASE SaveOpen(p)
  <2>1. pc'[p] = "save2"
    BY <1>1, <1>8 DEF SaveOpen
  <2> QED
    BY <1>3, <1>8, <2>1 DEF SaveOpen, initHistory, InitSteps, AtTemplate, AtHook
<1>9. CASE SaveWrite(p)
  <2>1. \/ pc'[p] \in {"git", "ended"}
        \/ pc'[p] = "template" /\ todo'[p] = Template
    BY <1>5, <1>9 DEF SaveWrite
  <2> QED
    BY <1>3, <1>9, <2>1 DEF SaveWrite, initHistory, InitSteps, AtTemplate, AtHook
<1>10. CASE TemplateOpen(p) \/ TemplateWrite(p)
  <2>1. ~overlapped' => \A q \in Proc \ {p} : pc[q] \notin InitSteps \cup SetupSteps
    BY InstallAlone
  <2>2. UNCHANGED <<opts, cuts, overlapped>>
    BY <1>10 DEF TemplateOpen, TemplateWrite, initHistory
  <2> QED
    BY <1>1, <1>2, <1>10, <2>1, <2>2, TemplateKeepsCalm
<1>11. CASE SetTemplateDir(p)
  <2>1. pc'[p] = "ended"
    BY <1>1, <1>11 DEF SetTemplateDir
  <2> QED
    BY <1>3, <1>11, <2>1 DEF SetTemplateDir, initHistory, InitSteps, AtTemplate, AtHook
<1>12. CASE InitFails(p)
  <2>1. pc'[p] = "ended"
    BY <1>1, <1>12 DEF InitFails
  <2>2. cuts \subseteq cuts' /\ (pc[p] \in AtTemplate => cuts' # {})
    BY <1>12 DEF InitFails, Cut, AtTemplate
  <2> QED
    BY <1>3, <1>12, <2>1, <2>2 DEF InitFails, home, InitSteps, AtTemplate, AtHook
<1> QED
  BY <1>4, <1>6, <1>7, <1>8, <1>9, <1>10, <1>11, <1>12 DEF InitStep

LEMMA ClientKeepsCalm ==
  ASSUME NEW p \in Proc, ProcessOK, BackupOK, PlaceAt(p), FlagsAt(p), OthersStay(p), ClientStep(p),
         EnabledInv, CalmInv
  PROVE  EnabledInv' /\ CalmInv'
<1>1. ~Installing(p)' /\ (~Kill(p) => ~Installing(p))
  BY ClientInstallsNothing
<1>2. UNCHANGED <<hook, template, enabled, armed, overlapped>> /\ cuts \subseteq cuts'
  <2>1. CASE UNCHANGED install
    BY <2>1 DEF install, home, initHistory, setupHistory, repo
  <2>2. CASE Kill(p)
    BY <2>2 DEF Kill, Cut, home, repo, setupHistory
  <2> QED
    BY <2>1, <2>2 DEF ClientStep, HookStep, GitCommit, RebaseFinish, Change, Manual, AmendRewrite, RebaseClean,
                      Preflight, CheckRebase, CheckDebounce, AcquireLock, Copy, Finish, CopyFails, ReleaseLock,
                      TruncateStamp, WriteStamp, WriteTime, MoveStamp, StampFails
<1>3. pc'[p] \notin InitSteps \cup SetupSteps
  <2>1. PlaceAt(p)'
    BY ClientKeepsPlace
  <2> QED
    BY <1>1, <2>1 DEF PlaceAt, InitSteps, SetupSteps, Installing, Idle
<1>4. pc[p] \in AtTemplate \cup AtHook => cuts' # {}
  <2>1. CASE Kill(p)
    BY <2>1 DEF Kill, Cut, AtTemplate, AtHook
  <2>2. CASE ~Kill(p)
    BY <1>1, <2>2 DEF Installing, Idle, PlaceAt, InitSteps, SetupSteps, AtTemplate, AtHook
  <2> QED
    BY <2>1, <2>2
<1>5. EnabledInv'
  <2>1. EnabledAt(p)'
    BY <1>3 DEF EnabledAt, SetupSteps, Behind
  <2> QED
    BY <1>2, <2>1, EnabledFrame DEF EnabledInv
<1>6. InstallAt(p)'
  BY <1>3 DEF InstallAt, InitSteps, SetupSteps, AtTemplate, HookLoop, Behind
<1>7. CalmInv'
  BY <1>2, <1>4, <1>6, CalmFrame DEF Calm
<1> QED
  BY <1>5, <1>7

(* A step that writes the hook a setup is at.                              *)
LEMMA HookWriteKeepsCalm ==
  ASSUME NEW p \in Proc, NEW h0 \in Hook, h0 = H(p), NEW file, RepoTypeOK, PlaceAt(p), OthersStay(p), CalmInv,
         ~overlapped, \A q \in Proc \ {p} : pc[q] \notin InitSteps \cup SetupSteps,
         hook' = [hook EXCEPT ![h0] = file], UNCHANGED <<template, armed, opts, cuts, overlapped, todo>>,
         pc[p] \in HookLoop, pc'[p] \in AtHook,
         pc'[p] \in {"copy3", "chmod"} => IsDevback(file), h0 \in todo[p]
  PROVE  CalmInv'
<1> SUFFICES ASSUME Calm' PROVE (\A q \in Proc : InstallAt(q)') /\ AllOrNone' /\ ArmedHooks'
  BY DEF CalmInv
<1>1. Calm /\ InstallAt(p) /\ H(p)' = h0 /\ hook'[h0] = file /\ \A h \in Hook \ {h0} : hook'[h] = hook[h]
  BY DEF Calm, CalmInv, H, RepoTypeOK
<1>2. WithHooks(p) /\ AllWhole /\ \A h \in Hook \ todo[p] : Done(h)
  BY <1>1 DEF InstallAt
<1>3. InstallAt(p)'
  BY <1>1, <1>2 DEF InstallAt, AtTemplate, AtHook, Behind, HookLoop, WithHooks, AllWhole, Done
<1>4. \A q \in Proc \ {p} : InstallAt(q)'
  BY DEF InstallAt, AtTemplate, HookLoop, Behind, InitSteps, SetupSteps, OthersStay
<1>5. AllOrNone'
  BY <1>2 DEF AllOrNone, AllWhole
<1>6. ASSUME armed, NEW h \in Hook \ {h0} PROVE Done(h)'
  <2>1. Done(h)
    BY <1>1, <1>6 DEF CalmInv, ArmedHooks, AtHook, SetupSteps
  <2> QED
    BY <1>1, <2>1 DEF Done
<1>7. ArmedHooks'
  BY <1>1, <1>6 DEF ArmedHooks
<1> QED
  BY <1>3, <1>4, <1>5, <1>7

LEMMA ChmodKeepsCalm ==
  ASSUME NEW p \in Proc, ProcessOK, RepoTypeOK, PlaceAt(p), OthersStay(p), CalmInv,
         ~overlapped, \A q \in Proc \ {p} : pc[q] \notin InitSteps \cup SetupSteps,
         Chmod(p), UNCHANGED <<template, cuts, overlapped>>
  PROVE  CalmInv'
<1> SUFFICES ASSUME Calm' PROVE (\A q \in Proc : InstallAt(q)') /\ AllOrNone' /\ ArmedHooks'
  BY DEF CalmInv
<1>1. Calm /\ InstallAt(p) /\ pc[p] = "chmod" /\ UNCHANGED <<armed, opts>>
  BY DEF Calm, CalmInv, Chmod, setupHistory
<1>2. PICK h0 \in Hook : h0 = H(p) /\ h0 \in todo[p]
  BY <1>1, HAt DEF HookLoop
<1>3. WithHooks(p) /\ AllWhole /\ IsDevback(hook[h0]) /\ \A h \in Hook \ todo[p] : Done(h)
  BY <1>1, <1>2 DEF InstallAt, HookLoop
<1>4. /\ hook' = IF hook[h0].kind = "plain" THEN [hook EXCEPT ![h0] = File("template")] ELSE hook
      /\ NextHook(p)
  BY <1>2, <1>3 DEF Chmod, MakeExecutable, Exists, IsDevback
<1>5. Done(h0)' /\ \A h \in Hook \ {h0} : hook'[h] = hook[h]
  BY <1>3, <1>4, FileKinds DEF Done, IsDevback, RepoTypeOK
<1>6. /\ todo'[p] = todo[p] \ {h0} /\ pc'[p] \in {"enable", "hook"}
      /\ pc'[p] = "enable" => todo'[p] = {}
  BY <1>2, <1>4 DEF NextHook, Goto, ProcessOK
<1>7. \A h \in Hook \ todo'[p] : Done(h)'
  BY <1>3, <1>5, <1>6 DEF Done
<1>8. InstallAt(p)'
  BY <1>1, <1>3, <1>6, <1>7 DEF InstallAt, AtTemplate, HookLoop, Behind, WithHooks, AllWhole
<1>9. \A q \in Proc \ {p} : InstallAt(q)'
  BY DEF InstallAt, AtTemplate, HookLoop, Behind, InitSteps, SetupSteps, OthersStay
<1>10. AllOrNone'
  BY <1>3 DEF AllOrNone, AllWhole
<1>11. ASSUME armed, NEW h \in Hook \ {h0} PROVE Done(h)'
  <2>1. Done(h)
    BY <1>1, <1>2, <1>11 DEF CalmInv, ArmedHooks, AtHook, SetupSteps
  <2> QED
    BY <1>5, <2>1 DEF Done
<1>12. ArmedHooks'
  BY <1>1, <1>5, <1>11 DEF ArmedHooks
<1> QED
  BY <1>8, <1>9, <1>10, <1>12

(* The steps of a setup between which no other one of an installation is.  *)
LEMMA LoopKeepsCalm ==
  ASSUME NEW p \in Proc, ProcessOK, HomeTypeOK, RepoTypeOK, PlaceAt(p), OthersStay(p), CalmInv,
         ~overlapped, \A q \in Proc \ {p} : pc[q] \notin InitSteps \cup SetupSteps,
         UNCHANGED <<template, cuts, overlapped>>,
         \/ CheckSetup(p)
         \/ ReadHook(p)
         \/ Reserve(p)
         \/ MoveHook(p)
         \/ WrapperOpen(p)
         \/ WrapperWrite(p)
         \/ CopyOpen(p)
         \/ CopyWrite(p) \/ CopyMode(p)
         \/ Chmod(p)
  PROVE  CalmInv'
<1> USE DEF Goto, End, Ends, Continue
<1>1. pc \in [Proc -> {"idle", "ended"} \cup InitSteps \cup SetupSteps \cup Running] /\ todo \in [Proc -> SUBSET Template]
  BY DEF ProcessOK
<1>2. Calm' => Calm /\ InstallAt(p) /\ AllOrNone
  BY DEF Calm, CalmInv
<1>3. UNCHANGED <<armed, opts>>
  BY DEF CheckSetup, ReadHook, Reserve, MoveHook, WrapperOpen, WrapperWrite, CopyOpen, CopyWrite, CopyMode,
         MakeExecutable, Chmod, setupHistory
<1>4. ASSUME UNCHANGED hook, pc[p] \notin AtTemplate \cup AtHook, Calm' => InstallAt(p)' PROVE CalmInv'
  BY <1>3, <1>4, CalmFrame
<1>5. ASSUME pc'[p] = "ended" PROVE InstallAt(p)'
  BY <1>5 DEF InstallAt, AtTemplate, HookLoop, Behind
<1>6. CASE CheckSetup(p)
  <2>1. pc[p] = "setup" /\ UNCHANGED hook
    BY <1>6 DEF CheckSetup, repo
  <2>2. CASE pc'[p] = "ended"
    BY <1>4, <1>5, <2>1, <2>2 DEF AtTemplate, AtHook
  <2>3. CASE Refused(p) = "none" /\ pc'[p] = FirstStep(p) /\ todo'[p] = Files
    <3>1. Files # {}
      BY <2>3 DEF Refused
    <3>2. ASSUME Calm' PROVE InstallAt(p)'
      <4>1. \A q \in Proc : pc[q] \notin AtTemplate
        BY <2>1 DEF AtTemplate, InitSteps
      <4>2. AllWhole
        BY <1>2, <3>1, <3>2, <4>1 DEF AllOrNone, Files, Template
      <4>3. Files = Hook
        BY <4>2 DEF AllWhole, Files, Template
      <4>4. /\ pc'[p] \in {"ignore", "enable", "hook"} /\ (pc'[p] = "hook" <=> WithHooks(p))
        BY <2>3 DEF FirstStep, WithHooks, Has
      <4> QED
        BY <1>3, <2>3, <4>2, <4>3, <4>4 DEF InstallAt, AtTemplate, HookLoop, Behind, WithHooks, AllWhole
    <3> QED
      BY <1>4, <2>1, <3>2 DEF AtTemplate, AtHook
  <2> QED
    BY <1>1, <1>6, <2>2, <2>3 DEF CheckSetup
<1>7. CASE Chmod(p)
  BY <1>7, ChmodKeepsCalm
<1>8. CASE ReadHook(p) \/ Reserve(p)
  <2>1. pc[p] \in {"hook", "reserve"} /\ UNCHANGED <<hook, todo>>
    BY <1>8 DEF ReadHook, Reserve, repo
  <2>2. pc'[p] \in {"ended", "copy", "reserve", "merge"} \/ (pc'[p] = "chmod" /\ IsDevback(hook[H(p)]))
    BY <1>1, <1>8 DEF ReadHook, Reserve
  <2>3. ASSUME Calm', pc'[p] # "ended" PROVE InstallAt(p)'
    <3>1. WithHooks(p) /\ AllWhole /\ \A h \in Hook \ todo[p] : Done(h)
      BY <1>2, <2>1, <2>3 DEF InstallAt, HookLoop
    <3>2. IsDevback(hook[H(p)]) => IsDevback(hook[H(p)])'
      BY <2>1 DEF H, IsDevback
    <3> QED
      BY <1>3, <2>1, <2>2, <2>3, <3>1, <3>2
         DEF InstallAt, AtTemplate, HookLoop, Behind, WithHooks, AllWhole, Done
  <2> QED
    BY <1>4, <1>5, <2>1, <2>3 DEF AtTemplate, AtHook
<1>9. ASSUME pc[p] \in HookLoop PROVE H(p) \in Hook /\ H(p) \in todo[p]
  BY <1>9, HAt
<1>10. CASE MoveHook(p) \/ WrapperOpen(p) \/ WrapperWrite(p) \/ CopyOpen(p)
  <2>1. pc[p] \in {"merge", "merge2", "merge3", "copy"} /\ UNCHANGED todo
    BY <1>10 DEF MoveHook, WrapperOpen, WrapperWrite, CopyOpen
  <2>2. CASE UNCHANGED hook /\ pc'[p] = "ended" /\ pc[p] \notin AtHook
    BY <1>4, <1>5, <2>1, <2>2 DEF AtTemplate
  <2>3. CASE \E file : /\ hook' = [hook EXCEPT ![H(p)] = file] /\ pc'[p] \in AtHook
                       /\ pc'[p] \in {"copy3", "chmod"} => IsDevback(file)
    BY <1>3, <1>9, <2>1, <2>3, HookWriteKeepsCalm DEF HookLoop
  <2>4. IsDevback(Wrapper(slot[p]))
    BY FileKinds DEF IsDevback
  <2> QED
    BY <1>1, <1>10, <2>2, <2>3, <2>4 DEF MoveHook, WrapperOpen, WrapperWrite, CopyOpen, AtHook
<1>11. CASE CopyWrite(p)
  <2>1. /\ pc[p] = "copy2" /\ UNCHANGED todo /\ pc'[p] = "copy3"
        /\ hook' = [hook EXCEPT ![H(p)] = File(IF template[H(p)] = "whole" THEN "plain" ELSE "empty")]
    BY <1>1, <1>11 DEF CopyWrite
  <2>2. CASE ~Calm'
    BY <2>2 DEF CalmInv
  <2>3. CASE Calm'
    <3>1. template[H(p)] = "whole"
      BY <1>2, <1>9, <2>1, <2>3 DEF InstallAt, HookLoop, AllWhole, Template
    <3>2. IsDevback(File("plain"))
      BY FileKinds DEF IsDevback
    <3> QED
      BY <1>3, <1>9, <2>1, <3>1, <3>2, HookWriteKeepsCalm DEF HookLoop, AtHook
  <2> QED
    BY <2>2, <2>3
<1>12. CASE CopyMode(p)
  <2>1. pc[p] = "copy3" /\ UNCHANGED todo
    BY <1>12 DEF CopyMode
  <2>2. CASE ~Calm'
    BY <2>2 DEF CalmInv
  <2>3. CASE Calm'
    <3>1. IsDevback(hook[H(p)])
      BY <1>2, <2>1, <2>3 DEF InstallAt
    <3>2. /\ pc'[p] = "chmod"
          /\ hook' = IF hook[H(p)].kind = "plain" THEN [hook EXCEPT ![H(p)] = File("template")] ELSE hook
      BY <1>1, <1>12, <3>1 DEF CopyMode, MakeExecutable, Exists, IsDevback
    <3>3. PICK file : hook' = [hook EXCEPT ![H(p)] = file] /\ IsDevback(file)
      <4>1. hook = [hook EXCEPT ![H(p)] = hook[H(p)]]
        BY DEF RepoTypeOK
      <4> QED
        BY <3>1, <3>2, <4>1, FileKinds DEF IsDevback
    <3> QED
      BY <1>3, <1>9, <2>1, <3>2, <3>3, HookWriteKeepsCalm DEF HookLoop, AtHook
  <2> QED
    BY <2>2, <2>3
<1> QED
  BY <1>6, <1>7, <1>8, <1>10, <1>11, <1>12

LEMMA SetupKeepsCalm ==
  ASSUME NEW p \in Proc, ProcessOK, HomeTypeOK, RepoTypeOK, PlaceInv, OthersStay(p), SetupAny(p), Alone, CalmInv
  PROVE  CalmInv'
<1>1. PlaceAt(p) /\ pc \in [Proc -> {"idle", "ended"} \cup InitSteps \cup SetupSteps \cup Running]
  BY DEF PlaceInv, ProcessOK
<1>2. CASE overlapped'
  BY <1>2 DEF CalmInv, Calm
<1>3. CASE SetupStart(p)
  <2>1. UNCHANGED <<hook, template, cuts, armed>> /\ (overlapped => overlapped')
    BY <1>3 DEF SetupStart, NoteOverlap, repo, home
  <2>2. pc'[p] = "setup" /\ pc[p] \in {"idle", "ended"}
    BY <1>1, <1>3 DEF SetupStart, Begin, Goto, Idle
  <2>3. InstallAt(p)'
    BY <2>2 DEF InstallAt, AtTemplate, HookLoop, Behind
  <2> QED
    BY <2>1, <2>2, <2>3, CalmFrame DEF AtTemplate, AtHook
<1>4. CASE SetupFails(p)
  <2>1. /\ UNCHANGED <<hook, template, armed, overlapped>> /\ cuts \subseteq cuts' /\ pc'[p] = "ended"
        /\ pc[p] \in SetupSteps
    BY <1>1, <1>4 DEF SetupFails, Cut, repo, home, setupHistory, Ends, End, Goto
  <2>2. pc[p] \in AtTemplate \cup AtHook => cuts' # {}
    BY <1>4, <2>1 DEF SetupFails, Cut, AtTemplate, AtHook
  <2>3. InstallAt(p)'
    BY <2>1 DEF InstallAt, AtTemplate, HookLoop, Behind
  <2> QED
    BY <2>1, <2>2, <2>3, CalmFrame DEF Calm
<1>5. CASE SetupStep(p) /\ ~overlapped'
  <2>1. ~overlapped /\ \A q \in Proc \ {p} : pc[q] \notin InitSteps \cup SetupSteps
    BY <1>5, InstallAlone
  <2>2. UNCHANGED <<template, cuts, overlapped>>
    BY <1>5 DEF SetupStep, home, initHistory
  <2>3. ASSUME pc[p] \in {"enable"} \cup Behind, pc'[p] \in Behind \cup {"ended"},
               UNCHANGED <<hook, opts>>, armed' => armed \/ (pc[p] \in Behind /\ WithHooks(p))
        PROVE  CalmInv'
    <3>1. Calm' => InstallAt(p)
      BY <2>2 DEF Calm, CalmInv
    <3>2. Calm' => InstallAt(p)'
      BY <2>3, <3>1 DEF InstallAt, AtTemplate, HookLoop, Behind, WithHooks, Done
    <3>3. Calm' => (armed' => armed \/ \A h \in Hook : Done(h))
      BY <2>3, <3>1 DEF InstallAt
    <3>4. pc[p] \notin AtTemplate \cup AtHook
      BY <2>3 DEF AtTemplate, AtHook, Behind
    <3> QED
      BY <2>2, <2>3, <3>2, <3>3, <3>4, CalmFrame
  <2>4. CASE Enable(p)
    <3>1. pc[p] = "enable" /\ pc'[p] = "ignore" /\ UNCHANGED <<hook, opts, armed>>
      BY <1>1, <2>4 DEF Enable, Continue, Goto, setupHistory
    <3> QED
      BY <2>3, <3>1 DEF Behind
  <2>5. CASE CheckIgnore(p) \/ WriteIgnore(p) \/ SetSlug(p) \/ SetWorktreeSlug(p)
    BY <2>3, <2>5, BehindSteps
  <2> QED
    BY <1>1, <1>5, <2>1, <2>2, <2>4, <2>5, LoopKeepsCalm DEF SetupStep
<1> QED
  BY <1>2, <1>3, <1>4, <1>5 DEF SetupAny

LEMMA InitKeepsEnabled ==
  ASSUME NEW p \in Proc, ProcessOK, PlaceInv, OthersStay(p), InitStep(p), UNCHANGED <<repo, setupHistory, backup>>,
         EnabledInv
  PROVE  EnabledInv'
<1>1. PlaceAt(p)
  BY DEF PlaceInv
<1>2. cmd'[p] \in {"init", "setup"} /\ UNCHANGED <<enabled, armed>>
  BY <1>1, InstallPlaces DEF repo, setupHistory
<1>3. pc'[p] \notin Behind
  <2> USE DEF ProcessOK, Goto, End, Behind
  <2>1. CASE InitStart(p)
    BY <2>1 DEF InitStart, Begin
  <2>2. CASE CheckConfig(p)
    BY <2>2 DEF CheckConfig, AfterConfig, AfterTemplates
  <2>3. CASE MoveConfig(p) \/ SaveOpen(p) \/ TemplateOpen(p) \/ SetTemplateDir(p) \/ InitFails(p)
    BY <2>3 DEF MoveConfig, SaveOpen, TemplateOpen, SetTemplateDir, InitFails
  <2>4. CASE SaveWrite(p) \/ TemplateWrite(p)
    BY <2>4 DEF SaveWrite, TemplateWrite, AfterConfig, AfterTemplates
  <2> QED
    BY <2>1, <2>2, <2>3, <2>4 DEF InitStep
<1>4. EnabledAt(p)'
  BY <1>3 DEF EnabledAt
<1> QED
  BY <1>2, <1>4, EnabledFrame DEF EnabledInv

LEMMA CalmInductive ==
  ASSUME TypeInv, Alone, EnabledInv, CalmInv, [Next]_vars
  PROVE  EnabledInv' /\ CalmInv'
<1>1. ProcessOK /\ BackupOK /\ PlaceInv /\ FlagsInv /\ HomeTypeOK /\ RepoTypeOK
  BY TypeInvParts
<1>2. CASE \E p \in Proc : InitStep(p) /\ UNCHANGED <<scene, repo, slot, setupHistory, backup>>
  BY <1>1, <1>2, OthersInitStep, InitKeepsCalm, InitKeepsEnabled
<1>3. CASE \E p \in Proc : SetupAny(p) /\ UNCHANGED <<scene, backup>>
  BY <1>1, <1>3, OthersSetupStep, SetupKeepsCalm, SetupKeepsEnabled
<1>4. CASE \E p \in Proc : ClientStep(p)
  BY <1>1, <1>4, OthersClientStep, ClientKeepsCalm DEF PlaceInv, FlagsInv
<1>5. CASE RebaseStart \/ (Tick /\ UNCHANGED <<scene, repo, slot, setupHistory, backup>>) \/ UNCHANGED vars
  <2>1. UNCHANGED <<pc, opts, todo, hook, template, enabled, armed, cuts, overlapped>>
    BY <1>5 DEF RebaseStart, Tick, vars, process, install, home, repo, initHistory, setupHistory
  <2> QED
    BY <2>1 DEF EnabledInv, EnabledAt, CalmInv, Calm, InstallAt, AllOrNone, AllWhole, ArmedHooks, Done, H,
                WithHooks,
                IsDevback
<1> QED
  BY <1>2, <1>3, <1>4, <1>5, StepCases

LEMMA InitialCalm == Init => EnabledInv /\ CalmInv
<1> SUFFICES ASSUME Init PROVE EnabledInv /\ CalmInv
  OBVIOUS
<1>1. \A p \in Proc : pc[p] = "idle"
  BY DEF Init
<1>2. AllOrNone
  BY DEF Init, AllOrNone, AllWhole
<1>3. (armed <=> Installed) /\ (enabled <=> Installed)
  BY DEF Init
<1>4. PICK hooks \in SUBSET scene.userHooks :
         hook = [h \in Hook |->
            IF Installed THEN (IF h \in hooks THEN Wrapper(0) ELSE File("template"))
            ELSE IF h \in hooks THEN File("user") ELSE File("none")]
  BY Zenon DEF Init
<1>5. Installed => \A h \in Hook : Done(h)
  BY <1>4, FileKinds DEF Done
<1> QED
  BY <1>1, <1>2, <1>3, <1>5 DEF EnabledInv, EnabledAt, CalmInv, InstallAt, ArmedHooks, AtTemplate, HookLoop,
                                Behind

LEMMA CalmInvariant == Spec => [](EnabledInv /\ CalmInv)
<1>1. WholeInv => Alone
  BY DEF WholeInv
<1> QED
  BY <1>1, InitialCalm, CalmInductive, TypeInvariant, WholeInvariant, PTL DEF Spec

(* When an init and a setup have succeeded and none was cut short, every   *)
(* hook runs devback, the repository is enabled and the config is there.   *)
THEOREM HooksAreArmed == Spec => []InstalledIsArmed
<1>1. ASSUME TypeInv, EnabledInv, CalmInv, ConfigGapsAreCuts, inited, armed, cuts = {}, ~overlapped, NobodyInstalls
      PROVE  Usable /\ enabled /\ \A h \in Hook : RunsDevback(h)
  <2>1. RepoTypeOK /\ PlaceInv
    BY <1>1, TypeInvParts
  <2>2. \A p \in Proc : pc[p] \notin InitSteps \cup SetupSteps
    BY <1>1, <2>1 DEF NobodyInstalls, Installing, Idle, PlaceInv, PlaceAt, InitSteps, SetupSteps
  <2>3. Usable
    BY <1>1, <2>2 DEF ConfigGapsAreCuts, InitSteps
  <2>4. enabled
    BY <1>1 DEF EnabledInv
  <2>5. \A h \in Hook : Done(h)
    BY <1>1, <2>2 DEF CalmInv, Calm, ArmedHooks, AtHook, SetupSteps
  <2>6. \A h \in Hook : RunsDevback(h)
    BY <2>1, <2>5, FirstCalls DEF RunsDevback, Done
  <2> QED
    BY <2>3, <2>4, <2>6
<1>2. TypeInv /\ EnabledInv /\ CalmInv /\ ConfigGapsAreCuts => InstalledIsArmed
  BY <1>1 DEF InstalledIsArmed
<1> QED
  BY <1>2, TypeInvariant, CalmInvariant, GapsAreCuts, PTL

-----------------------------------------------------------------------------
(* Keys.  The worktree has a slug whenever its repository has, so that the *)
(* two keys are of one form, or of forms of different elements.            *)
THEOREM KeysAreApart == Spec => []KeysAreOwn
<1>1. ASSUME NEW style \in Styles, NEW merge \in BOOLEAN, NEW remote \in {NoRemote, Origin}, NEW tree \in Trees,
             DeriveRepoKey(style, merge, Levels("main"), remote, Main)
                = DeriveRepoKey(style, merge, Levels("worktree"), remote, tree)
      PROVE  \/ remote = Origin /\ (style = "remote-hierarchy" \/ (style = "auto" /\ merge))
             \/ tree.base = Main.base /\ slug["main"] /\ style \in {"auto", "custom"}
  <2> DEFINE own == Get(Levels("main"))  its == Get(Levels("worktree"))
  <2>1. own = Name(slug["main"]) /\ its \in {"slug", own} /\ own \in {"slug", "unset"}
    BY DEF Get, Levels, Name
  <2>2. Main.base = "repo" /\ tree # Main /\ tree.base \in {"repo", "tree"}
    BY DEF Main, Trees
  <2>3. slug["main"] <=> own = "slug"
    BY <2>1 DEF Name
  <2> HIDE DEF own, its
  <2>4. CASE remote = NoRemote \/ style \in {"custom", "name+hash"}
    <3>1. DeriveRepoKey(style, merge, Levels("main"), remote, Main)
             = IF style \in {"auto", "custom"} /\ own = "slug" THEN <<"slug", "repo">> ELSE <<"repo", Main>>
      BY <2>1, <2>2, <2>4 DEF DeriveRepoKey, KeyFromSlug, KeyNameHash, Unset, own
    <3>2. DeriveRepoKey(style, merge, Levels("worktree"), remote, tree)
             = IF style \in {"auto", "custom"} /\ its = "slug" THEN <<"slug", tree.base>> ELSE <<tree.base, tree>>
      BY <2>1, <2>2, <2>4 DEF DeriveRepoKey, KeyFromSlug, KeyNameHash, Unset, its
    <3> QED
      BY <1>1, <2>1, <2>2, <2>3, <3>1, <3>2
  <2>5. CASE remote = Origin /\ style = "auto" /\ ~merge
    <3> DEFINE remoteKey(root) == KeyFromRemote(remote, root, merge)
    <3>1. remote # NoRemote
      BY <2>5 DEF Origin, NoRemote
    <3>2. DeriveRepoKey(style, merge, Levels("main"), remote, Main)
             = IF own = "slug" THEN <<"slug", "repo">> ELSE remoteKey(Main)
      BY <2>1, <2>2, <2>5, <3>1 DEF DeriveRepoKey, KeyFromSlug, Unset, own
    <3>3. DeriveRepoKey(style, merge, Levels("worktree"), remote, tree)
             = IF its = "slug" THEN <<"slug", tree.base>> ELSE remoteKey(tree)
      BY <2>1, <2>2, <2>5, <3>1 DEF DeriveRepoKey, KeyFromSlug, Unset, its
    <3>4. \A root : Len(remoteKey(root)) = 4 /\ remoteKey(root)[4] = root
      BY <2>5 DEF KeyFromRemote, KeyHierarchy
    <3>5. Len(<<"slug", "repo">>) = 2 /\ Len(<<"slug", tree.base>>) = 2
      OBVIOUS
    <3> HIDE DEF remoteKey
    <3> QED
      BY <1>1, <2>1, <2>2, <2>3, <2>5, <3>2, <3>3, <3>4, <3>5
  <2> QED
    BY <2>4, <2>5 DEF Styles
<1>2. KeysAreOwn
  BY <1>1 DEF KeysAreOwn
<1> QED
  BY <1>2, PTL
=============================================================================
