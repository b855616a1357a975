----------------------------- MODULE GitCopyProofs -----------------------------
(***************************************************************************)
(* Theorems about GitCopy for any number of objects, any branches and      *)
(* anything git may be doing, with their proofs.                           *)
(***************************************************************************)
EXTENDS GitCopy, Induction

-----------------------------------------------------------------------------
(* What git keeps: there is an object, the pack of a repacking stays and   *)
(* holds all that is pruned, and every branch is at one of the values it   *)
(* is remembered to have had.                                              *)
GitInv ==
    /\ Store # {}
    /\ gc = "idle" => newPack = {}
    /\ gc = "prune" => newPack \in packs /\ \A k \in packs : k \subseteq newPack
    /\ \A r \in Ref : Branch[r] \in held[r]

(* What the walk may still find an object in, by the place it is at.       *)
Awaited(o) ==
    \/ pc = "loose" /\ o \in todo
    \/ pc \in {"loose", "listPacks"} /\ o \in UNION packs
    \/ pc = "pack" /\ o \in UNION todo
    \/ pc = "end" /\ outcome # "ok"

ObjectInv ==
    /\ base \subseteq Store /\ (pc = "start" => base = {})
    /\ \A o \in base : o \in copied \/ errors \/ Awaited(o)
    /\ outcome = "ok" => pc = "end" /\ ~errors

(* The refs, as long as nobody packs them.                                 *)
PackedCopied == pc \in {"listRefs", "refs"} => copiedPacked = packedRef
RefInv ==
    /\ pc \notin {"refs", "end"} => \A r \in Ref : copiedRef[r] = NoObj
    /\ "packRefs" \notin active =>
          /\ ~refsPacked /\ PackedCopied
          /\ pc = "refs" => \A r \in Ref : r \in todo \/ errors \/ CopiedBranch[r] \in held[r]
          /\ outcome = "ok" => BranchesKept

(* The histories, as long as nobody commits.                               *)
HistoryIn(refs, objects) == \A r \in Ref : 1 .. refs[r] \subseteq objects
HistoryInv ==
    "commit" \notin active =>
        /\ pending = NoObj
        /\ pc \notin {"start", "end"} => Store \subseteq base
        /\ HistoryIn(looseRef, Store) /\ HistoryIn(packedRef, Store)
        /\ HistoryIn(copiedRef, base) /\ HistoryIn(copiedPacked, base)

CopyInv == TypeOK /\ GitInv /\ ObjectInv /\ RefInv /\ HistoryInv

LEMMA LatestIsObj ==
  ASSUME TypeOK, Store # {}
  PROVE  Latest \in Obj
<1>1. Store \subseteq Obj /\ \A o \in Obj : o \in Nat /\ Objects - o \in Nat
  BY ObjectsAssumption DEF TypeOK, Store, Obj
<1> DEFINE left == {Objects - o : o \in Store}
<1>2. left \in SUBSET Nat /\ left # {}
  BY <1>1
<1>3. PICK l \in left : \A m \in left : l =< m
  <2> HIDE DEF left
  <2> QED
    BY <1>2, Smallest
<1>4. PICK n \in Store : l = Objects - n
  BY <1>3
<1>5. ASSUME NEW o \in Store PROVE o <= n
  <2>1. Objects - o \in left /\ o \in Nat /\ n \in Nat
    BY <1>1
  <2>2. Objects - n =< Objects - o
    BY <1>3, <1>4, <2>1
  <2> QED
    BY <2>1, <2>2, ObjectsAssumption
<1>6. Latest \in Store
  BY <1>5 DEF Latest
<1> QED
  BY <1>1, <1>6

LEMMA InitialCopy == Init => CopyInv
<1> SUFFICES ASSUME Init PROVE CopyInv
  OBVIOUS
<1>1. PICK n \in Obj : \E p \in SUBSET (1 .. n) :
         /\ packs = IF p = {} THEN {} ELSE {p}
         /\ loose \in {l \in SUBSET (1 .. n) : l \cup p = 1 .. n}
         /\ looseRef \in [Ref -> 0 .. n] /\ packedRef \in [Ref -> 0 .. n]
  BY DEF Init
<1> PICK p \in SUBSET (1 .. n) :
         /\ packs = IF p = {} THEN {} ELSE {p}
         /\ loose \in {l \in SUBSET (1 .. n) : l \cup p = 1 .. n}
         /\ looseRef \in [Ref -> 0 .. n] /\ packedRef \in [Ref -> 0 .. n]
  BY <1>1
<1>2. n \in Nat \ {0} /\ n <= Objects /\ 1 .. n \subseteq Obj /\ 0 .. n \subseteq Obj \cup {NoObj} /\ 1 \in 1 .. n
  BY ObjectsAssumption DEF Obj, NoObj
<1>3. Store = 1 .. n
  <2>1. UNION packs = p
    BY <1>1
  <2> QED
    BY <1>1, <2>1 DEF Store
<1>4. TypeOK
  <2>1. loose \subseteq Obj /\ packs \subseteq SUBSET Obj
    BY <1>1, <1>2
  <2>2. looseRef \in RefMap /\ packedRef \in RefMap
    BY <1>1, <1>2 DEF RefMap
  <2>3. copiedRef \in RefMap /\ copiedPacked \in RefMap
    BY DEF Init, RefMap
  <2>4. held \in [Ref -> SUBSET Obj]
    <3>1. \A r \in Ref : Branch[r] \in Obj
      BY <2>2 DEF Init, RefMap, Branch, Resolve
    <3> QED
      BY <3>1 DEF Init
  <2> QED
    BY <2>1, <2>2, <2>3, <2>4 DEF Init, TypeOK
<1>5. GitInv
  BY <1>2, <1>3 DEF Init, GitInv
<1>6. ObjectInv
  BY DEF Init, ObjectInv
<1>7. RefInv
  BY DEF Init, RefInv, PackedCopied
<1>8. HistoryInv
  <2>1. \A m \in 0 .. n : 1 .. m \subseteq 1 .. n
    BY <1>2
  <2>2. 1 .. NoObj = {}
    BY DEF NoObj
  <2>3. HistoryIn(looseRef, Store) /\ HistoryIn(packedRef, Store)
    BY <1>1, <1>3, <2>1 DEF HistoryIn
  <2>4. HistoryIn(copiedRef, base) /\ HistoryIn(copiedPacked, base)
    BY <2>2 DEF Init, HistoryIn
  <2> QED
    BY <2>3, <2>4 DEF Init, HistoryInv
<1> QED
  BY <1>4, <1>5, <1>6, <1>7, <1>8 DEF CopyInv

-----------------------------------------------------------------------------
(* A step of git beside the walk: no object is lost, none comes without a  *)
(* commit, and no branch leaves its history.                               *)
WalkWaits == UNCHANGED <<active, pc, todo, copy>>
GitGoesOn ==
    /\ Store \subseteq Store' /\ UNION packs \subseteq (UNION packs)'
    /\ \A r \in Ref : held[r] \subseteq held'[r]

LEMMA GitTypes ==
  ASSUME TypeOK, GitInv, Git
  PROVE  TypeOK' /\ WalkWaits
<1> USE DEF TypeOK, WalkWaits, copy
<1>1. CASE WriteObject
  <2>1. Latest + 1 \in Obj
    BY <1>1, LatestIsObj, ObjectsAssumption DEF WriteObject, GitInv, Obj
  <2> QED
    BY <1>1, <2>1 DEF WriteObject
<1>2. ASSUME NEW r \in Ref, UpdateRef(r) PROVE TypeOK' /\ WalkWaits
  <2>1. pending \in Obj
    BY <1>2 DEF UpdateRef
  <2> QED
    BY <1>2, <2>1 DEF UpdateRef, RefMap
<1>3. ASSUME NEW r \in Ref, PruneRef(r) PROVE TypeOK' /\ WalkWaits
  BY <1>3 DEF PruneRef, RefMap
<1>4. CASE Repack
  BY <1>4 DEF Repack, Store
<1>5. ASSUME NEW o \in loose, PruneLoose(o) PROVE TypeOK' /\ WalkWaits
  BY <1>5 DEF PruneLoose
<1>6. ASSUME NEW k \in packs, PrunePack(k) PROVE TypeOK' /\ WalkWaits
  BY <1>6 DEF PrunePack
<1>7. CASE PackRefs
  BY <1>7 DEF PackRefs, RefMap, Branch, Resolve
<1> QED
  BY <1>1, <1>2, <1>3, <1>4, <1>5, <1>6, <1>7 DEF Git

LEMMA GitKeeps ==
  ASSUME TypeOK, GitInv, Git
  PROVE  GitInv' /\ GitGoesOn
<1>1. CASE WriteObject
  BY <1>1 DEF WriteObject, GitInv, GitGoesOn, Store, Branch, Resolve
<1>2. ASSUME NEW r \in Ref, UpdateRef(r) PROVE GitInv' /\ GitGoesOn
  <2>1. \A q \in Ref : q # r => looseRef'[q] = looseRef[q] /\ held'[q] = held[q]
    BY <1>2 DEF UpdateRef, TypeOK, RefMap
  <2>2. looseRef'[r] = pending /\ pending # NoObj /\ held'[r] = held[r] \cup {pending}
    BY <1>2 DEF UpdateRef, TypeOK, RefMap
  <2>3. \A q \in Ref : Branch[q]' \in held'[q]
    BY <1>2, <2>1, <2>2 DEF UpdateRef, Branch, Resolve, GitInv
  <2>4. \A q \in Ref : held[q] \subseteq held'[q]
    BY <2>1, <2>2
  <2> QED
    BY <1>2, <2>3, <2>4 DEF UpdateRef, GitInv, GitGoesOn, Store
<1>3. ASSUME NEW r \in Ref, PruneRef(r) PROVE GitInv' /\ GitGoesOn
  <2>1. \A q \in Ref : Branch[q]' = Branch[q]
    BY <1>3 DEF PruneRef, TypeOK, RefMap, Branch, Resolve
  <2> QED
    BY <1>3, <2>1 DEF PruneRef, GitInv, GitGoesOn, Store
<1>4. CASE Repack
  <2>1. /\ packs' = packs \cup {Store} /\ newPack' = Store /\ loose' = loose
        /\ UNCHANGED <<looseRef, packedRef, held>> /\ gc' = "prune"
    BY <1>4 DEF Repack
  <2>2. Store' = Store /\ UNION packs \subseteq (UNION packs)' /\ \A k \in packs : k \subseteq Store
    BY <2>1 DEF Store
  <2> QED
    BY <2>1, <2>2 DEF GitInv, GitGoesOn, Branch
<1>5. ASSUME NEW o \in loose, PruneLoose(o) PROVE GitInv' /\ GitGoesOn
  <2>1. gc = "prune" /\ o \in newPack /\ loose' = loose \ {o}
        /\ UNCHANGED <<packs, looseRef, packedRef, gc, newPack, held>>
    BY <1>5 DEF PruneLoose
  <2>2. o \in UNION packs
    BY <2>1 DEF GitInv
  <2>3. Store' = Store
    BY <2>1, <2>2 DEF Store
  <2> QED
    BY <2>1, <2>3 DEF GitInv, GitGoesOn, Branch
<1>6. ASSUME NEW k \in packs, PrunePack(k) PROVE GitInv' /\ GitGoesOn
  <2>1. gc = "prune" /\ k # newPack /\ packs' = packs \ {k}
        /\ UNCHANGED <<loose, looseRef, packedRef, gc, newPack, held>>
    BY <1>6 DEF PrunePack
  <2>2. newPack \in packs' /\ \A j \in packs : j \subseteq newPack
    BY <2>1 DEF GitInv
  <2>3. UNION packs = UNION packs'
    BY <2>1, <2>2
  <2>4. Store' = Store
    BY <2>1, <2>3 DEF Store
  <2> QED
    BY <2>1, <2>2, <2>3, <2>4 DEF GitInv, GitGoesOn, Branch
<1>7. CASE PackRefs
  <2>1. \A q \in Ref : Branch[q]' = Branch[q]
    BY <1>7 DEF PackRefs, Branch, Resolve
  <2> QED
    BY <1>7, <2>1 DEF PackRefs, GitInv, GitGoesOn, Store
<1> QED
  BY <1>1, <1>2, <1>3, <1>4, <1>5, <1>6, <1>7 DEF Git

LEMMA GitWithoutPacking ==
  ASSUME Git, "packRefs" \notin active
  PROVE  UNCHANGED <<packedRef, refsPacked>>
  BY DEF Git, WriteObject, UpdateRef, PruneRef, Repack, PruneLoose, PrunePack, PackRefs

LEMMA GitWithoutCommit ==
  ASSUME TypeOK, GitInv, Git, "commit" \notin active, pending = NoObj,
         HistoryIn(looseRef, Store), HistoryIn(packedRef, Store)
  PROVE  /\ Store' = Store /\ pending' = NoObj
         /\ HistoryIn(looseRef, Store)' /\ HistoryIn(packedRef, Store)'
<1>1. CASE WriteObject \/ \E r \in Ref : UpdateRef(r)
  BY <1>1 DEF WriteObject, UpdateRef
<1>2. CASE (\E r \in Ref : PruneRef(r)) \/ PackRefs
  <2>1. Store' = Store /\ pending' = NoObj
    BY <1>2 DEF PruneRef, PackRefs, Store
  <2>2. ASSUME NEW q \in Ref PROVE 1 .. looseRef'[q] \subseteq Store /\ 1 .. packedRef'[q] \subseteq Store
    <3>1. 1 .. NoObj = {}
      BY DEF NoObj
    <3>2. looseRef'[q] \in {looseRef[q], NoObj} /\ packedRef'[q] \in {packedRef[q], looseRef[q]}
      BY <1>2 DEF PruneRef, PackRefs, Branch, Resolve, TypeOK, RefMap
    <3> QED
      BY <3>1, <3>2 DEF HistoryIn
  <2> QED
    BY <2>1, <2>2 DEF HistoryIn
<1>3. CASE Repack \/ (\E o \in loose : PruneLoose(o)) \/ (\E k \in packs : PrunePack(k))
  <2>1. UNCHANGED <<looseRef, packedRef, pending>>
    BY <1>3 DEF Repack, PruneLoose, PrunePack
  <2>2. Store' \subseteq Store
    BY <1>3 DEF Repack, PruneLoose, PrunePack, Store
  <2>3. Store \subseteq Store'
    BY GitKeeps DEF GitGoesOn
  <2> QED
    BY <2>1, <2>2, <2>3 DEF HistoryIn
<1> QED
  BY <1>1, <1>2, <1>3 DEF Git

LEMMA GitInductive == ASSUME CopyInv, Git PROVE CopyInv'
<1>1. TypeOK' /\ WalkWaits /\ GitInv' /\ GitGoesOn
  BY GitTypes, GitKeeps DEF CopyInv
<1>2. UNCHANGED <<active, pc, todo, base, copied, copiedRef, copiedPacked, errors, outcome>>
  BY <1>1 DEF WalkWaits, copy
<1>3. ObjectInv'
  BY <1>1, <1>2 DEF CopyInv, ObjectInv, Awaited, GitGoesOn
<1>4. RefInv'
  <2>1. CopiedBranch' = CopiedBranch
    BY <1>2 DEF CopiedBranch, Resolve
  <2>2. BranchesKept => BranchesKept'
    BY <1>1, <2>1 DEF BranchesKept, GitGoesOn
  <2>3. CASE "packRefs" \in active
    BY <1>2, <2>3 DEF CopyInv, RefInv
  <2>4. CASE "packRefs" \notin active
    BY <1>1, <1>2, <2>1, <2>2, <2>4, GitWithoutPacking DEF CopyInv, RefInv, PackedCopied, GitGoesOn
  <2> QED
    BY <2>3, <2>4
<1>5. HistoryInv'
  <2>1. CASE "commit" \in active
    BY <1>2, <2>1 DEF HistoryInv
  <2>2. CASE "commit" \notin active
    <3>1. /\ pending = NoObj /\ (pc \notin {"start", "end"} => Store \subseteq base)
          /\ HistoryIn(looseRef, Store) /\ HistoryIn(packedRef, Store)
          /\ HistoryIn(copiedRef, base) /\ HistoryIn(copiedPacked, base)
      BY <2>2 DEF CopyInv, HistoryInv
    <3>2. /\ Store' = Store /\ pending' = NoObj
          /\ HistoryIn(looseRef, Store)' /\ HistoryIn(packedRef, Store)'
      BY <2>2, <3>1, GitWithoutCommit DEF CopyInv
    <3>3. HistoryIn(copiedRef, base)' /\ HistoryIn(copiedPacked, base)'
      BY <1>2, <3>1 DEF HistoryIn
    <3> QED
      BY <1>2, <3>1, <3>2, <3>3 DEF HistoryInv
  <2> QED
    BY <2>1, <2>2
<1> QED
  BY <1>1, <1>3, <1>4, <1>5 DEF CopyInv

-----------------------------------------------------------------------------
(* A step of the walk, which leaves git alone.                             *)
GitWaits ==
    /\ UNCHANGED <<active, loose, packs, looseRef, packedRef, pending, gc, newPack, refsPacked, held>>
    /\ Store' = Store

LEMMA WalkLeavesGit ==
  ASSUME GitInv, Walk
  PROVE  GitWaits /\ GitInv'
<1>1. UNCHANGED <<active, loose, packs, looseRef, packedRef, pending, gc, newPack, refsPacked, held>>
  BY DEF Walk, WalkObjects, LooseCopied, ListPacks, PacksCopied, CopyPackedRefs, ListRefs, WalkEnds, WalkCanceled,
         CopyLoose, CopyPack, CopyRef, Return, git
<1>2. GitWaits
  BY <1>1 DEF GitWaits, Store
<1> QED
  BY <1>1, <1>2 DEF GitInv, GitWaits, Branch, Resolve

LEMMA WalkTypes ==
  ASSUME TypeOK, Walk, GitWaits
  PROVE  TypeOK'
<1> USE DEF TypeOK, GitWaits, Enter, copy
<1>1. Store \subseteq Obj
  BY DEF Store
<1>2. CASE WalkObjects
  BY <1>1, <1>2 DEF WalkObjects
<1>3. CASE LooseCopied \/ PacksCopied \/ ListPacks \/ CopyPackedRefs \/ ListRefs
  BY <1>3 DEF LooseCopied, PacksCopied, ListPacks, CopyPackedRefs, ListRefs
<1>4. CASE WalkEnds \/ WalkCanceled
  BY <1>4 DEF WalkEnds, WalkCanceled, Return
<1>5. ASSUME NEW x \in todo, CopyLoose(x) PROVE TypeOK'
  BY <1>5 DEF CopyLoose
<1>6. ASSUME NEW x \in todo, CopyPack(x) PROVE TypeOK'
  <2>1. x \subseteq Obj
    BY <1>6 DEF CopyPack
  <2> QED
    BY <1>6, <2>1 DEF CopyPack
<1>7. ASSUME NEW x \in todo, CopyRef(x) PROVE TypeOK'
  BY <1>7 DEF CopyRef, RefMap
<1> QED
  BY <1>2, <1>3, <1>4, <1>5, <1>6, <1>7 DEF Walk

LEMMA WalkObjectInv ==
  ASSUME TypeOK, ObjectInv, Walk, GitWaits
  PROVE  ObjectInv'
<1> USE DEF ObjectInv, Awaited, GitWaits, Enter, copy
<1>1. outcome # "ok" /\ base \subseteq Store
  BY DEF Walk, WalkObjects, LooseCopied, ListPacks, PacksCopied, CopyPackedRefs, ListRefs, WalkEnds, WalkCanceled,
         CopyLoose, CopyPack, CopyRef
<1>2. CASE WalkObjects
  <2>1. Store \subseteq Obj
    BY DEF Store, TypeOK
  <2> QED
    BY <1>1, <1>2, <2>1 DEF WalkObjects
<1>3. CASE LooseCopied \/ ListPacks
  BY <1>1, <1>3 DEF LooseCopied, ListPacks
<1>4. CASE PacksCopied \/ CopyPackedRefs \/ ListRefs
  BY <1>1, <1>4 DEF PacksCopied, CopyPackedRefs, ListRefs
<1>5. CASE WalkEnds \/ WalkCanceled
  BY <1>1, <1>5 DEF WalkEnds, WalkCanceled, Return
<1>6. ASSUME NEW x \in todo, CopyLoose(x) PROVE ObjectInv'
  <2>1. pc = "loose" /\ pc' = "loose" /\ todo' = todo \ {x} /\ base' = base /\ outcome' = outcome
        /\ copied \subseteq copied' /\ (errors => errors')
    BY <1>6 DEF CopyLoose
  <2>2. x \in base => x \in copied' \/ errors' \/ x \in UNION packs
    BY <1>1, <1>6 DEF CopyLoose, Store
  <2>3. \A o \in base : o \in copied' \/ errors' \/ o \in todo' \/ o \in UNION packs
    BY <2>1, <2>2
  <2> QED
    BY <1>1, <2>1, <2>3
<1>7. ASSUME NEW x \in todo, CopyPack(x) PROVE ObjectInv'
  <2>1. pc = "pack" /\ pc' = "pack" /\ todo' = todo \ {x} /\ base' = base /\ outcome' = outcome
        /\ copied \subseteq copied' /\ (errors => errors') /\ (x \subseteq copied' \/ errors')
    BY <1>7 DEF CopyPack, TypeOK
  <2>2. \A o \in base : o \in copied' \/ errors' \/ o \in UNION todo'
    BY <2>1
  <2> QED
    BY <1>1, <2>1, <2>2
<1>8. ASSUME NEW x \in todo, CopyRef(x) PROVE ObjectInv'
  BY <1>1, <1>8 DEF CopyRef, TypeOK
<1> QED
  BY <1>2, <1>3, <1>4, <1>5, <1>6, <1>7, <1>8 DEF Walk

LEMMA WalkRefInv ==
  ASSUME TypeOK, GitInv, ObjectInv, RefInv, Walk, GitWaits
  PROVE  RefInv'
<1> USE DEF RefInv, PackedCopied, GitWaits, Enter, copy
<1>1. outcome # "ok"
  BY DEF Walk, WalkObjects, LooseCopied, ListPacks, PacksCopied, CopyPackedRefs, ListRefs, WalkEnds, WalkCanceled,
         CopyLoose, CopyPack, CopyRef, ObjectInv
<1>2. CASE WalkObjects \/ LooseCopied \/ ListPacks \/ PacksCopied
  BY <1>1, <1>2 DEF WalkObjects, LooseCopied, ListPacks, PacksCopied
<1>3. CASE CopyPackedRefs
  BY <1>1, <1>3 DEF CopyPackedRefs
<1>4. CASE ListRefs
  <2>1. UNCHANGED <<copiedRef, copiedPacked, errors, outcome>> /\ pc' = "refs" /\ pc = "listRefs"
        /\ todo' = {r \in Ref : looseRef[r] # NoObj}
    BY <1>4 DEF ListRefs
  <2>2. ASSUME "packRefs" \notin active, NEW r \in Ref PROVE r \in todo' \/ CopiedBranch'[r] \in held[r]
    <3>1. CASE looseRef[r] # NoObj
      BY <2>1, <3>1
    <3>2. CASE looseRef[r] = NoObj
      <4>1. CopiedBranch'[r] = packedRef[r]
        BY <2>1, <2>2 DEF CopiedBranch, Resolve
      <4>2. Branch[r] = packedRef[r]
        BY <3>2 DEF Branch, Resolve
      <4> QED
        BY <4>1, <4>2 DEF GitInv
    <3> QED
      BY <3>1, <3>2
  <2> QED
    BY <1>1, <2>1, <2>2
<1>5. CASE WalkEnds \/ WalkCanceled
  <2>1. UNCHANGED <<copiedRef, copiedPacked, errors>> /\ pc' = "end"
        /\ (outcome' = "ok" => pc = "refs" /\ todo = {} /\ ~errors)
    BY <1>5 DEF WalkEnds, WalkCanceled, Return
  <2>2. ASSUME "packRefs" \notin active, outcome' = "ok" PROVE BranchesKept'
    <3>1. \A r \in Ref : CopiedBranch[r] \in held[r]
      BY <2>1, <2>2
    <3> QED
      BY <2>1, <3>1 DEF BranchesKept, CopiedBranch
  <2> QED
    BY <2>1, <2>2
<1>6. ASSUME NEW x \in todo, CopyLoose(x) \/ CopyPack(x) PROVE RefInv'
  BY <1>1, <1>6 DEF CopyLoose, CopyPack
<1>7. ASSUME NEW x \in todo, CopyRef(x) PROVE RefInv'
  <2>1. pc = "refs" /\ pc' = "refs" /\ todo' = todo \ {x} /\ x \in Ref /\ (errors => errors')
        /\ UNCHANGED <<copiedPacked, outcome>>
    BY <1>7 DEF CopyRef, TypeOK
  <2>2. \A r \in Ref : r # x => copiedRef'[r] = copiedRef[r]
    BY <1>7 DEF CopyRef, TypeOK, RefMap
  <2>3. errors' \/ (copiedRef'[x] = looseRef[x] /\ looseRef[x] # NoObj)
    BY <1>7, <2>1 DEF CopyRef, TypeOK, RefMap
  <2>4. \A r \in Ref : r # x => CopiedBranch'[r] = CopiedBranch[r]
    BY <2>1, <2>2 DEF CopiedBranch, Resolve
  <2>5. errors' \/ CopiedBranch'[x] \in held[x]
    <3>1. CASE copiedRef'[x] = looseRef[x] /\ looseRef[x] # NoObj
      BY <2>1, <3>1 DEF CopiedBranch, Branch, Resolve, GitInv
    <3> QED
      BY <2>3, <3>1
  <2> QED
    BY <1>1, <2>1, <2>4, <2>5
<1> QED
  BY <1>2, <1>3, <1>4, <1>5, <1>6, <1>7 DEF Walk

LEMMA WalkHistoryInv ==
  ASSUME TypeOK, ObjectInv, HistoryInv, Walk, GitWaits
  PROVE  HistoryInv'
<1> USE DEF HistoryInv, HistoryIn, GitWaits, Enter, copy
<1>1. CASE WalkObjects
  BY <1>1 DEF WalkObjects, ObjectInv
<1>2. CASE LooseCopied \/ ListPacks \/ PacksCopied \/ ListRefs
  BY <1>2 DEF LooseCopied, ListPacks, PacksCopied, ListRefs
<1>3. CASE CopyPackedRefs
  BY <1>3 DEF CopyPackedRefs
<1>4. CASE WalkEnds \/ WalkCanceled
  BY <1>4 DEF WalkEnds, WalkCanceled, Return
<1>5. ASSUME NEW x \in todo, CopyLoose(x) \/ CopyPack(x) PROVE HistoryInv'
  BY <1>5 DEF CopyLoose, CopyPack
<1>6. ASSUME NEW x \in todo, CopyRef(x) PROVE HistoryInv'
  <2>1. pc = "refs" /\ pc' = "refs" /\ UNCHANGED <<base, copiedPacked>>
    BY <1>6 DEF CopyRef
  <2>2. \A r \in Ref : copiedRef'[r] \in {copiedRef[r], looseRef[r]}
    BY <1>6 DEF CopyRef, TypeOK, RefMap
  <2> QED
    BY <2>1, <2>2
<1> QED
  BY <1>1, <1>2, <1>3, <1>4, <1>5, <1>6 DEF Walk

-----------------------------------------------------------------------------
(* The invariant, and what follows from it.                                *)
LEMMA CopyInductive == ASSUME CopyInv, [Next]_vars PROVE CopyInv'
<1>1. CASE Walk
  <2>1. GitWaits /\ GitInv'
    BY <1>1, WalkLeavesGit DEF CopyInv
  <2> QED
    BY <1>1, <2>1, WalkTypes, WalkObjectInv, WalkRefInv, WalkHistoryInv DEF CopyInv
<1>2. CASE UNCHANGED vars
  <2> USE DEF vars, git, copy
  <2>1. TypeOK' /\ GitInv'
    BY <1>2 DEF CopyInv, TypeOK, GitInv, Store, Branch, Resolve
  <2>2. ObjectInv' /\ HistoryInv'
    BY <1>2 DEF CopyInv, ObjectInv, Awaited, HistoryInv, HistoryIn, Store
  <2>3. RefInv'
    BY <1>2 DEF CopyInv, RefInv, PackedCopied, BranchesKept, CopiedBranch, Resolve
  <2> QED
    BY <2>1, <2>2, <2>3 DEF CopyInv
<1> QED
  BY <1>1, <1>2, GitInductive DEF Next, Ended

(* Whatever git does beside the walk, the copy is well typed, git loses no *)
(* object, and what the copy does not have yet is still to be found.       *)
THEOREM CopyInvariant == Spec => []CopyInv
  BY InitialCopy, CopyInductive, PTL DEF Spec

(* Every variable keeps its type; in particular a ref of the copy is an    *)
(* object of the repository, and a listing holds names of one kind.        *)
THEOREM TypeCorrect == Spec => []TypeOK
<1>1. CopyInv => TypeOK
  BY DEF CopyInv
<1> QED
  BY <1>1, CopyInvariant, PTL

(* A copy that succeeds holds every object the repository had when it      *)
(* began, though a repacking moves them to another file meanwhile.         *)
THEOREM NoObjectLost == Spec => []ObjectsKept
<1>1. CopyInv => ObjectsKept
  BY DEF CopyInv, ObjectInv, Awaited, ObjectsKept
<1> QED
  BY <1>1, CopyInvariant, PTL

(* Unless refs are packed meanwhile, a copy that succeeds has every branch *)
(* at a commit it had during the copy.                                     *)
THEOREM BranchesCurrent == Spec => []RefsCurrent
<1>1. CopyInv => RefsCurrent
  BY DEF CopyInv, RefInv, RefsCurrent
<1> QED
  BY <1>1, CopyInvariant, PTL

(* Unless something is committed meanwhile, a copy that succeeds has the   *)
(* history of each of its branches.                                        *)
THEOREM HistoriesWhole == Spec => []RefsResolve
<1>1. CopyInv => RefsResolve
  <2> SUFFICES ASSUME CopyInv, outcome = "ok", "commit" \notin active, NEW r \in Ref
               PROVE  1 .. CopiedBranch[r] \subseteq copied
    BY DEF RefsResolve, HistoryKept
  <2>1. base \subseteq copied
    BY DEF CopyInv, ObjectInv, Awaited
  <2>2. CopiedBranch[r] \in {copiedRef[r], copiedPacked[r]}
    BY DEF CopiedBranch, Resolve
  <2> QED
    BY <2>1, <2>2 DEF CopyInv, HistoryInv, HistoryIn
<1> QED
  BY <1>1, CopyInvariant, PTL
=============================================================================
