------------------------------ MODULE MCGitCopy -------------------------------
(* Instances of GitCopy for TLC.                                           *)
EXTENDS GitCopy, TLC

(* A commit or a packing of the refs, each beside a repacking.             *)
OneOfTwo == {{"commit", "repack"}, {"repack", "packRefs"}}

(* Nothing but a commit.                                                   *)
Committing == {{"commit"}}

Symmetry == Permutations(Ref)
=============================================================================
