-------------------------------- MODULE RepoKey --------------------------------
(***************************************************************************)
(* What devback reads of the git config, and the repository key it derives *)
(* from it: the directory of the backups of a repository.  A backup        *)
(* (deriveRepoKey of internal/usecase/backup.go) and the status report     *)
(* (deriveRepoKeyStatus of internal/usecase/status.go) each have their own *)
(* code for it.  A key is the sequence of its path elements.               *)
(*                                                                         *)
(* A git config is a function from levels to values; "unset" is no entry   *)
(* and "" an empty one.  Hashes of different roots are taken to differ.    *)
(***************************************************************************)
EXTENDS Sequences

Unset(value) == value \in {"unset", ""}

(* git config --get: the value of the innermost level that has an entry.   *)
Get(levels) ==
    IF levels.worktree # "unset" THEN levels.worktree
    ELSE IF levels.local # "unset" THEN levels.local ELSE levels.global

(* readRepoConfig of the hooks: worktree, then any level, then global.     *)
HookConfig(levels) ==
    IF ~Unset(levels.worktree) THEN levels.worktree
    ELSE IF ~Unset(Get(levels)) THEN Get(levels) ELSE levels.global

(* readRepoConfig of status: the worktree level only in a linked worktree. *)
StatusConfig(levels, isWorktree) ==
    IF isWorktree /\ ~Unset(levels.worktree) THEN levels.worktree ELSE Get(levels)

(* parseBoolValue and parseHookBool.                                       *)
ParseBool(value) == value \in {"1", "true", "yes", "on"}

(* repoKeyNameHash, repoKeyFromSlug and repoKeyFromRemote.  A root is a    *)
(* record of its directory and base name, a remote one of host, owner and  *)
(* repo; NoRemote is one that is not set or that parseRemote cannot split. *)
NoRemote == [host |-> "", owner |-> "", repo |-> ""]
KeyNameHash(root) == <<root.base, root>>
(* Mistake: the slug alone.                                                *)
KeyFromSlugBare(slug, root) == <<slug>>
KeyFromSlug(slug, root) == <<slug, root.base>>
KeyHierarchy(remote) == <<remote.host, remote.owner, remote.repo>>
KeyFromRemote(remote, root, merge) ==
    KeyHierarchy(remote) \o (IF merge THEN <<>> ELSE <<root>>)

Styles == {"auto", "custom", "remote-hierarchy", "name+hash"}

(* deriveRepoKey: each style falls back on the name and its hash.          *)
DeriveRepoKey(style, merge, levels, remote, root) ==
    LET slug == Get(levels)
    IN  IF style \in {"auto", "custom"} /\ ~Unset(slug) THEN KeyFromSlug(slug, root)
        ELSE IF style = "auto" /\ remote # NoRemote THEN KeyFromRemote(remote, root, merge)
        ELSE IF style = "remote-hierarchy" /\ remote # NoRemote THEN KeyHierarchy(remote)
        ELSE KeyNameHash(root)

(* Mistake: status looks at the config of the main repository only.        *)
StatusSlugLocal(levels, isWorktree) == levels.local

(* deriveRepoKeyStatus: the slug has been read by the code of status.      *)
StatusSlug(levels, isWorktree) == StatusConfig(levels, isWorktree)

DeriveRepoKeyStatus(style, merge, levels, isWorktree, remote, root) ==
    LET slug == StatusSlug(levels, isWorktree)
    IN  IF style \in {"auto", "custom"} /\ ~Unset(slug) THEN KeyFromSlug(slug, root)
        ELSE IF style = "auto" /\ remote # NoRemote THEN KeyFromRemote(remote, root, merge)
        ELSE IF style = "remote-hierarchy" /\ remote # NoRemote THEN KeyHierarchy(remote)
        ELSE KeyNameHash(root)
=============================================================================
