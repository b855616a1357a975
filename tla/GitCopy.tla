------------------------------- MODULE GitCopy --------------------------------
(***************************************************************************)
(* copyDirRecursive of internal/usecase/backup.go copying the .git of a    *)
(* repository while git goes on working in it: the command line of another *)
(* terminal commits, or a "git gc" runs that an earlier command left in    *)
(* the background.  The copy takes no lock of git's; what it relies on is  *)
(* the order of filepath.Walk: objects/<xx>, objects/pack, packed-refs,    *)
(* refs.  Only these parts of .git are modelled.                           *)
(*                                                                         *)
(* Object n is a commit together with what it adds to commits 1 .. n-1,    *)
(* its history.                                                            *)
(***************************************************************************)
EXTENDS Naturals

CONSTANTS
    Objects,    \* how many objects there may be
    Ref,        \* the branches
    Scenarios   \* what git may be doing: subsets of Activity

Activity == {"commit", "repack", "packRefs"}

ASSUME ObjectsAssumption == Objects \in Nat \ {0}
ASSUME ScenariosAssumption == Scenarios \subseteq SUBSET Activity

Obj == 1 .. Objects
NoObj == 0

VARIABLES
    active,         \* what git is doing
    loose, packs,   \* the object store: loose objects, and packs of objects
    looseRef,       \* refs/heads/<branch>, and its line in packed-refs;
    packedRef,      \* the former counts when there are both
    pending,        \* an object written for which no branch was updated yet
    gc, newPack,    \* how far the repacking is, and the pack it wrote
    refsPacked,     \* packed-refs was rewritten
    pc, todo,       \* where the walk is and what the directory listing holds
    base,           \* the objects found when the walk began
    copied,         \* the objects in the copy
    copiedRef, copiedPacked,    \* the refs in the copy
    errors,         \* copyErrors is not empty
    outcome,        \* what copyDirRecursive returns
    held            \* history: the values each branch has had during the walk

git == <<loose, packs, looseRef, packedRef, pending, gc, newPack, refsPacked, held>>
copy == <<base, copied, copiedRef, copiedPacked, errors, outcome>>
vars == <<active, git, pc, todo, copy>>

RefMap == [Ref -> Obj \cup {NoObj}]

TypeOK ==
    /\ active \in Scenarios
    /\ loose \subseteq Obj /\ packs \subseteq SUBSET Obj
    /\ looseRef \in RefMap /\ packedRef \in RefMap
    /\ pending \in Obj \cup {NoObj}
    /\ gc \in {"idle", "prune"} /\ newPack \subseteq Obj /\ refsPacked \in BOOLEAN
    /\ pc \in {"start", "loose", "listPacks", "pack", "packedRefs", "listRefs", "refs", "end"}
    /\ pc = "loose" => todo \subseteq Obj
    /\ pc = "pack" => todo \subseteq SUBSET Obj
    /\ pc = "refs" => todo \subseteq Ref
    /\ base \subseteq Obj /\ copied \subseteq Obj
    /\ copiedRef \in RefMap /\ copiedPacked \in RefMap
    /\ errors \in BOOLEAN
    /\ outcome \in {"none", "ok", "failed", "interrupted"}
    /\ held \in [Ref -> SUBSET Obj]

Resolve(l, k) == [r \in Ref |-> IF l[r] # NoObj THEN l[r] ELSE k[r]]
Branch == Resolve(looseRef, packedRef)
Store == loose \cup UNION packs
Latest == CHOOSE n \in Store : \A o \in Store : o <= n

(* Any repository with one object or more, each of them loose, in a pack,  *)
(* or both, and every branch at one of them.                               *)
Init ==
    /\ active \in Scenarios
    /\ \E n \in Obj :
          /\ \E p \in SUBSET (1 .. n) :
                /\ packs = IF p = {} THEN {} ELSE {p}
                /\ loose \in {l \in SUBSET (1 .. n) : l \cup p = 1 .. n}
          /\ looseRef \in [Ref -> 0 .. n] /\ packedRef \in [Ref -> 0 .. n]
    /\ \A r \in Ref : Branch[r] # NoObj
    /\ held = [r \in Ref |-> {Branch[r]}]
    /\ pending = NoObj
    /\ gc = "idle" /\ newPack = {} /\ refsPacked = FALSE
    /\ pc = "start" /\ todo = {}
    /\ base = {} /\ copied = {} /\ errors = FALSE /\ outcome = "none"
    /\ copiedRef = [r \in Ref |-> NoObj] /\ copiedPacked = [r \in Ref |-> NoObj]

-----------------------------------------------------------------------------
(* git.  Each file appears by a rename, so that nobody sees half of it.    *)

(* A commit: its objects first, then the branch.                           *)
WriteObject ==
    /\ "commit" \in active /\ pending = NoObj /\ Latest < Objects
    /\ pending' = Latest + 1
    /\ loose' = loose \cup {Latest + 1}
    /\ UNCHANGED <<active, packs, looseRef, packedRef, gc, newPack, refsPacked,
                   held, pc, todo, copy>>

UpdateRef(r) ==
    /\ pending # NoObj
    /\ looseRef' = [looseRef EXCEPT ![r] = pending]
    /\ held' = [held EXCEPT ![r] = @ \cup {pending}]
    /\ pending' = NoObj
    /\ UNCHANGED <<active, loose, packs, packedRef, gc, newPack, refsPacked, pc, todo, copy>>

(* A repacking, at most one: a pack of everything, then the files it makes *)
(* redundant go.                                                           *)
Repack ==
    /\ "repack" \in active /\ gc = "idle"
    /\ newPack' = Store /\ packs' = packs \cup {Store} /\ gc' = "prune"
    /\ UNCHANGED <<active, loose, looseRef, packedRef, pending, refsPacked, held, pc, todo, copy>>

PruneLoose(o) ==
    /\ gc = "prune" /\ o \in loose \cap newPack
    /\ loose' = loose \ {o}
    /\ UNCHANGED <<active, packs, looseRef, packedRef, pending, gc, newPack, refsPacked,
                   held, pc, todo, copy>>

PrunePack(k) ==
    /\ gc = "prune" /\ k # newPack
    /\ packs' = packs \ {k}
    /\ UNCHANGED <<active, loose, looseRef, packedRef, pending, gc, newPack, refsPacked,
                   held, pc, todo, copy>>

(* git pack-refs: packed-refs is rewritten, then refs equal to their line  *)
(* in it are removed.                                                      *)
PackRefs ==
    /\ "packRefs" \in active
    /\ packedRef' = Branch /\ refsPacked' = TRUE
    /\ UNCHANGED <<active, loose, packs, looseRef, pending, gc, newPack, held, pc, todo, copy>>

PruneRef(r) ==
    /\ refsPacked /\ looseRef[r] # NoObj /\ looseRef[r] = packedRef[r]
    /\ looseRef' = [looseRef EXCEPT ![r] = NoObj]
    /\ UNCHANGED <<active, loose, packs, packedRef, pending, gc, newPack, refsPacked,
                   held, pc, todo, copy>>

Git ==
    \/ WriteObject \/ (\E r \in Ref : UpdateRef(r) \/ PruneRef(r))
    \/ Repack \/ (\E o \in loose : PruneLoose(o)) \/ (\E k \in packs : PrunePack(k))
    \/ PackRefs

-----------------------------------------------------------------------------
(* The walk.  A name that was listed and is gone is a recorded error; the  *)
(* walk goes on.                                                           *)

Enter(next, names) == pc' = next /\ todo' = names

WalkObjects ==
    /\ pc = "start"
    /\ base' = Store /\ Enter("loose", Obj)
    /\ UNCHANGED <<active, git, copied, copiedRef, copiedPacked, errors, outcome>>

(* The directories objects/<xx> are listed one by one.  A loose object     *)
(* that was pruned had been listed or not; one that is new may be in a     *)
(* directory that objects/ did not have when it was listed.                *)
CopyLoose(o) ==
    /\ pc = "loose" /\ todo' = todo \ {o}
    /\ \/ o \in loose /\ copied' = copied \cup {o} /\ UNCHANGED errors
       \/ (o \notin loose \/ o \notin base) /\ UNCHANGED <<copied, errors>>
       \/ o \in newPack \ loose /\ errors' = TRUE /\ UNCHANGED copied
    /\ UNCHANGED <<active, git, pc, base, copiedRef, copiedPacked, outcome>>

LooseCopied ==
    /\ pc = "loose" /\ todo = {}
    /\ Enter("listPacks", {})
    /\ UNCHANGED <<active, git, copy>>

(* Mistake: objects/pack is left out of the copy.                          *)
ListNoPacks ==
    /\ pc = "listPacks"
    /\ Enter("pack", {})
    /\ UNCHANGED <<active, git, copy>>

ListPacks ==
    /\ pc = "listPacks"
    /\ Enter("pack", packs)
    /\ UNCHANGED <<active, git, copy>>

(* Mistake: a pack that is gone is no error.                               *)
CopyPackLeniently(k) ==
    /\ pc = "pack" /\ todo' = todo \ {k}
    /\ copied' = IF k \in packs THEN copied \cup k ELSE copied
    /\ UNCHANGED <<active, git, pc, base, copiedRef, copiedPacked, errors, outcome>>

CopyPack(k) ==
    /\ pc = "pack" /\ todo' = todo \ {k}
    /\ IF k \in packs THEN copied' = copied \cup k /\ UNCHANGED errors
                      ELSE errors' = TRUE /\ UNCHANGED copied
    /\ UNCHANGED <<active, git, pc, base, copiedRef, copiedPacked, outcome>>

PacksCopied ==
    /\ pc = "pack" /\ todo = {}
    /\ Enter("packedRefs", {})
    /\ UNCHANGED <<active, git, copy>>

CopyPackedRefs ==
    /\ pc = "packedRefs"
    /\ copiedPacked' = packedRef /\ Enter("listRefs", {})
    /\ UNCHANGED <<active, git, base, copied, copiedRef, errors, outcome>>

(* Mistake: the listing of the directory before is used again.             *)
ListRefsAgain ==
    /\ pc = "listRefs"
    /\ Enter("refs", packs)
    /\ UNCHANGED <<active, git, copy>>

ListRefs ==
    /\ pc = "listRefs"
    /\ Enter("refs", {r \in Ref : looseRef[r] # NoObj})
    /\ UNCHANGED <<active, git, copy>>

(* Mistake: a ref with a line in packed-refs is not copied again.          *)
CopyRefOnce(r) ==
    /\ pc = "refs" /\ todo' = todo \ {r}
    /\ IF looseRef[r] = NoObj
       THEN errors' = TRUE /\ UNCHANGED copiedRef
       ELSE /\ copiedRef' = IF copiedPacked[r] # NoObj THEN copiedRef
                            ELSE [copiedRef EXCEPT ![r] = looseRef[r]]
            /\ UNCHANGED errors
    /\ UNCHANGED <<active, git, pc, base, copied, copiedPacked, outcome>>

CopyRef(r) ==
    /\ pc = "refs" /\ todo' = todo \ {r}
    /\ IF looseRef[r] # NoObj
       THEN copiedRef' = [copiedRef EXCEPT ![r] = looseRef[r]] /\ UNCHANGED errors
       ELSE errors' = TRUE /\ UNCHANGED copiedRef
    /\ UNCHANGED <<active, git, pc, base, copied, copiedPacked, outcome>>

(* The recorded errors come before the error of the walk.                  *)
Return(result) ==
    /\ Enter("end", {})
    /\ outcome' = IF errors THEN "failed" ELSE result
    /\ UNCHANGED <<active, git, base, copied, copiedRef, copiedPacked, errors>>

WalkEnds == pc = "refs" /\ todo = {} /\ Return("ok")
WalkCanceled == pc # "end" /\ Return("interrupted")

Walk ==
    \/ WalkObjects \/ LooseCopied \/ ListPacks \/ PacksCopied \/ CopyPackedRefs
    \/ ListRefs \/ WalkEnds \/ WalkCanceled
    \/ \E x \in todo : CopyLoose(x) \/ CopyPack(x) \/ CopyRef(x)

Ended == pc = "end" /\ UNCHANGED vars

Next == Walk \/ (pc # "end" /\ Git) \/ Ended

Spec == Init /\ [][Next]_vars

-----------------------------------------------------------------------------
CopiedBranch == Resolve(copiedRef, copiedPacked)

(* A copy that succeeds holds every object the repository had when it      *)
(* began, in whatever files git has moved it to meanwhile ("full copy of   *)
(* the Git repository").                                                   *)
ObjectsKept == outcome = "ok" => base \subseteq copied

(* Every branch of the copy is where the branch has been at some time      *)
(* during the copy.                                                        *)
BranchesKept == \A r \in Ref : CopiedBranch[r] \in held[r]

(* The history of every branch of the copy is in the copy.                 *)
HistoryKept == \A r \in Ref : 1 .. CopiedBranch[r] \subseteq copied

(* A copy that succeeds has every branch, at a commit it had during the    *)
(* copy, unless the refs are packed meanwhile: the files of refs are       *)
(* listed after packed-refs was copied.                                    *)
RefsCurrent == outcome = "ok" /\ "packRefs" \notin active => BranchesKept

(* A copy that succeeds has the history of every branch, unless something  *)
(* is committed meanwhile: the refs are copied after the objects, whatever *)
(* a repacking does to the files of the latter.                            *)
RefsResolve == outcome = "ok" /\ "commit" \notin active => HistoryKept

(* A copy that succeeds is a repository with its branches and their        *)
(* history ("full copy of the Git repository" in README.md): not so when   *)
(* git commits, or packs its refs, while the copy is made.                 *)
CopyIsWhole == outcome = "ok" => BranchesKept /\ HistoryKept
=============================================================================
