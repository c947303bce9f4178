----------------------------- MODULE MountPoint -----------------------------
(***************************************************************************)
(* freezer.utils.utils.get_mount_from_path: the mount point of a path and *)
(* the rest of the path below it.  A path is absolute, a sequence of      *)
(* components that may be ".." or "."; <<>> is "/".  A file system maps   *)
(* the paths of its entries to "dir" or "file" (absent paths to "none"),  *)
(* and mounts is the set of its mount points; "/" is always one.  The    *)
(* result is [ok |-> FALSE] for the IOError, or the mount point and the  *)
(* relative path.                                                          *)
(***************************************************************************)
EXTENDS Integers, Sequences, SequencesExt

\* What is at path p of file system f; "/" is a directory.
KindOf(f, p) == IF p = <<>> THEN "dir" ELSE IF p \in DOMAIN f THEN f[p] ELSE "none"

\* os.path.dirname of a normalised path; the parent of "/" is "/".
Dirname(p) == IF p = <<>> THEN <<>> ELSE SubSeq(p, 1, Len(p) - 1)

(***************************************************************************)
(* os.path.exists(path): the kernel walks the components as they are     *)
(* written, so "." and ".." are looked up in what precedes them, which    *)
(* must be a directory that exists.                                        *)
(***************************************************************************)
RECURSIVE Walk(_, _, _)
Walk(f, cur, rest) ==
    IF rest = <<>> THEN TRUE
    ELSE /\ KindOf(f, cur) = "dir"
         /\ LET c    == Head(rest)
                next == CASE c = "."  -> cur
                          [] c = ".." -> Dirname(cur)
                          [] OTHER    -> Append(cur, c)
            IN  KindOf(f, next) # "none" /\ Walk(f, next, Tail(rest))

PathExists(f, s) == Walk(f, <<>>, s)

\* os.path.abspath of an absolute path: normpath drops "." and lets ".."
\* remove the component before it, and does so on the text alone.
Abspath(s) ==
    FoldLeft(LAMBDA acc, c : CASE c = "."  -> acc
                               [] c = ".." -> Dirname(acc)
                               [] OTHER    -> Append(acc, c),
             <<>>, s)

\* os.path.ismount: only a directory is a mount point.
IsMount(f, mounts, p) == p = <<>> \/ (p \in mounts /\ KindOf(f, p) = "dir")

\* A mutant of MountLoop: the path itself is never asked, only its parents.
RECURSIVE MountLoopFromParent(_, _, _)
MountLoopFromParent(f, mounts, p) ==
    LET q == Dirname(p)
    IN  IF IsMount(f, mounts, q) THEN q ELSE MountLoopFromParent(f, mounts, q)

\* "while not os.path.ismount(mount_point_path): mount_point_path =
\* os.path.dirname(mount_point_path)"
RECURSIVE MountLoop(_, _, _)
MountLoop(f, mounts, p) ==
    IF IsMount(f, mounts, p) THEN p ELSE MountLoop(f, mounts, Dirname(p))

(***************************************************************************)
(* os.path.relpath(path, start): both are made absolute; the components   *)
(* after their common prefix are kept, one ".." is put for each component *)
(* of start past it, and "." stands for an empty result.                  *)
(***************************************************************************)
Relpath(s, start) ==
    LET a == Abspath(s)
        b == Abspath(start)
        i == Max({k \in 0..Min({Len(a), Len(b)}) : SubSeq(a, 1, k) = SubSeq(b, 1, k)})
        r == [k \in 1..Len(b) - i |-> ".."] \o SubSeq(a, i + 1, Len(a))
    IN  IF r = <<>> THEN <<".">> ELSE r

IOError == [ok |-> FALSE]

\* get_mount_from_path(path)
GetMountFromPath(f, mounts, s) ==
    IF ~PathExists(f, s) THEN IOError
    ELSE LET m == MountLoop(f, mounts, Abspath(s))
         IN  [ok |-> TRUE, mount |-> m, rel |-> Relpath(s, m)]
=============================================================================
