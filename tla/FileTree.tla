------------------------------- MODULE FileTree ------------------------------
(****************************************************************************)
(* What the namespace handlers of cachedfs promise to a caller: a tree of   *)
(* files and directories.  No index, bucket or header appears here; the     *)
(* detailed module CacheFS implements this one.                             *)
(*                                                                          *)
(* kind  the existing paths, each mapped to "dir" or "file"                 *)
(* ret   the last answer: which handler, on which path, result and names    *)
(****************************************************************************)
EXTENDS SequencesExt

CONSTANTS Names,    \* the names a path is made of
          MaxDepth  \* bound: components in the longest path

VARIABLES kind, ret

treeVars == <<kind, ret>>

Root == <<>>
Paths == SeqOf(Names, MaxDepth)

Children(d) == {p \in DOMAIN kind : p # Root /\ Front(p) = d}

Answer(op, p) == ret'.op = op /\ ret'.arg = p

TreeOps == {"init", "mkdir", "create", "rmdir", "unlink", "readdir", "getattr", "access"}

TreeInit == DOMAIN kind = {} /\ ret.op = "none"

\* A new, empty file system.
Format ==
  /\ ret'.op = "init"
  /\ DOMAIN kind' = {Root}
  /\ kind'[Root] = "dir"

\* The stored file system is taken over as it is.
Reuse == ret'.op = "init" /\ UNCHANGED kind

\* The server loses everything while nothing is mounted.
Lose == DOMAIN kind' = {} /\ UNCHANGED ret

\* p appears below an existing directory, and nothing else changes.
Make(op, p, k) ==
  /\ Answer(op, p) /\ ret'.val = "ok"
  /\ p \notin DOMAIN kind /\ p # Root
  /\ Front(p) \in DOMAIN kind /\ kind[Front(p)] = "dir"
  /\ kind' = [q \in DOMAIN kind \cup {p} |-> IF q = p THEN k ELSE kind[q]]

\* p disappears, and nothing else changes.
Drop(p) == kind' = [q \in DOMAIN kind \ {p} |-> kind[q]]

\* rmdir succeeds exactly on an empty directory other than the root.
Rmdir(p) ==
  /\ Answer("rmdir", p)
  /\ \/ p = Root /\ ret'.val = "EPERM" /\ UNCHANGED kind
     \/ p # Root /\ p \notin DOMAIN kind /\ ret'.val = "ENOTDIR" /\ UNCHANGED kind
     \/ /\ p # Root /\ p \in DOMAIN kind /\ kind[p] = "dir"
        /\ IF Children(p) = {}
           THEN ret'.val = "ok" /\ Drop(p)
           ELSE ret'.val = "ENOTEMPTY" /\ UNCHANGED kind

Unlink(p) ==
  /\ Answer("unlink", p)
  /\ \/ p = Root /\ ret'.val = "EPERM" /\ UNCHANGED kind
     \/ p # Root /\ p \notin DOMAIN kind /\ ret'.val = "ENOENT" /\ UNCHANGED kind
     \/ p \in DOMAIN kind /\ kind[p] = "file" /\ ret'.val = "ok" /\ Drop(p)

\* A listing names every child of the directory exactly once.
Readdir(p) ==
  /\ Answer("readdir", p) /\ UNCHANGED kind
  /\ IF p \in DOMAIN kind
     THEN /\ ret'.val = "ok" /\ IsInjective(ret'.names)
          /\ Range(ret'.names) = {Last(c) : c \in Children(p)}
     ELSE ret'.val = "ENOENT"

Getattr(p) ==
  /\ Answer("getattr", p) /\ UNCHANGED kind
  /\ ret'.val = IF p \in DOMAIN kind THEN kind[p] ELSE "ENOENT"

Access(p) ==
  /\ Answer("access", p) /\ UNCHANGED kind
  /\ ret'.val = IF p \in DOMAIN kind THEN "ok" ELSE "ENOENT"

\* Handlers for data and attributes leave the tree alone.
Elsewhere == ret'.op \notin TreeOps /\ UNCHANGED kind

TreeNext ==
  \/ Format \/ Reuse \/ Lose \/ Elsewhere
  \/ \E p \in Paths :
       \/ Make("mkdir", p, "dir") \/ Make("create", p, "file")
       \/ Rmdir(p) \/ Unlink(p) \/ Readdir(p) \/ Getattr(p) \/ Access(p)

TreeSpec == TreeInit /\ [][TreeNext]_treeVars
==============================================================================
