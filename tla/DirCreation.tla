----------------------------- MODULE DirCreation -----------------------------
(***************************************************************************)
(* freezer.utils.utils.create_dir_tree and create_dir, called by several  *)
(* processes at once on one file system.  A path is a sequence of names;  *)
(* the file system maps each path to "none", "dir" or "file".  Both       *)
(* functions call os.makedirs, which is not one system call: it checks    *)
(* with os.path.exists, from the parent of the target upwards, for the     *)
(* first ancestor that exists, then calls mkdir on the missing ancestors   *)
(* from the top down, ignoring EEXIST for them, and finally mkdir on the   *)
(* target itself, where EEXIST is raised.  Each check and each mkdir is a  *)
(* step of its own, so the calls of other processes interleave with them. *)
(* Nothing removes a directory or creates a file, so a state read is only *)
(* made stale by another process's mkdir.                                 *)
(***************************************************************************)
EXTENDS Integers, Sequences, FiniteSets

CONSTANTS
    Procs,    \* the calling processes
    Names,    \* the names a path is made of
    Depth     \* the longest path

\* The paths of the model, "/" (the root, always a directory) left out.
Paths == UNION {[1..n -> Names] : n \in 1..Depth}

Ops == {"create_dir_tree", "create_dir"}

VARIABLES
    fs,       \* path -> "none" | "dir" | "file"
    op,       \* the function each process calls
    target,   \* the directory it asks for
    pc,       \* where each process is in its call
    lvl,      \* the depth of the ancestor os.makedirs is at
    err,      \* the errno of the OSError being handled
    result    \* "none" while the call runs, then "ok" or "raised"

vars == <<fs, op, target, pc, lvl, err, result>>

\* The first j names of path d.
Prefix(d, j) == SubSeq(d, 1, j)

\* The parent of a path is a directory; the root always is.
ParentIsDir(d) == Len(d) = 1 \/ fs[Prefix(d, Len(d) - 1)] = "dir"

\* A file at the target or at one of its ancestors: no call can make it.
Blocked(d) == \E j \in 1..Len(d) : fs[Prefix(d, j)] = "file"

\* os.mkdir(d): EEXIST if anything is there, ENOENT if the parent is
\* missing, ENOTDIR if it is a file, otherwise the directory is made.
MkdirErrno(d) ==
    IF fs[d] # "none" THEN "EEXIST"
    ELSE IF ParentIsDir(d) THEN "ok"
    ELSE IF fs[Prefix(d, Len(d) - 1)] = "none" THEN "ENOENT"
    ELSE "ENOTDIR"

\* The process leaves its call with outcome r.
Return(p, r) ==
    /\ pc' = [pc EXCEPT ![p] = "done"]
    /\ result' = [result EXCEPT ![p] = r]

\* A mutant of EnterMakedirs: the walk starts at the target itself.
EnterMakedirsAtTarget(p) ==
    /\ pc' = [pc EXCEPT ![p] = "exists"]
    /\ lvl' = [lvl EXCEPT ![p] = Len(target[p])]

\* The process enters os.makedirs(target): its first check is on the
\* parent of the target.
EnterMakedirs(p) ==
    /\ pc' = [pc EXCEPT ![p] = "exists"]
    /\ lvl' = [lvl EXCEPT ![p] = Len(target[p]) - 1]

(***************************************************************************)
(* A call of create_dir_tree starts os.makedirs at once; create_dir first *)
(* asks os.path.isdir and returns if the directory is found.              *)
(***************************************************************************)
Call(p) ==
    /\ pc[p] = "call"
    /\ \/ /\ op[p] = "create_dir_tree"
          /\ EnterMakedirs(p)
          /\ UNCHANGED result
       \/ /\ op[p] = "create_dir"
          /\ fs[target[p]] = "dir"
          /\ Return(p, "ok")
          /\ UNCHANGED lvl
       \/ /\ op[p] = "create_dir"
          /\ fs[target[p]] # "dir"
          /\ EnterMakedirs(p)
          /\ UNCHANGED result
    /\ UNCHANGED <<fs, op, target, err>>

(***************************************************************************)
(* os.makedirs, the upward walk: "if head and tail and not                *)
(* path.exists(head)" recurses on the head, otherwise the mkdirs start at *)
(* the level below it.                                                     *)
(***************************************************************************)
MakedirsExists(p) ==
    /\ pc[p] = "exists"
    /\ IF lvl[p] = 0 \/ fs[Prefix(target[p], lvl[p])] # "none"
       THEN /\ pc' = [pc EXCEPT ![p] = "mkdir"]
            /\ lvl' = [lvl EXCEPT ![p] = lvl[p] + 1]
       ELSE /\ lvl' = [lvl EXCEPT ![p] = lvl[p] - 1]
            /\ UNCHANGED pc
    /\ UNCHANGED <<fs, op, target, err, result>>

(***************************************************************************)
(* os.makedirs, the downward walk: mkdir of the path at level lvl.  An    *)
(* ancestor's EEXIST is swallowed; any other error, and every error of    *)
(* the target's own mkdir, leaves os.makedirs as an OSError.              *)
(***************************************************************************)
MakedirsMkdir(p) ==
    LET d    == Prefix(target[p], lvl[p])
        e    == MkdirErrno(d)
        leaf == lvl[p] = Len(target[p])
    IN  /\ pc[p] = "mkdir"
        /\ fs' = IF e = "ok" THEN [fs EXCEPT ![d] = "dir"] ELSE fs
        /\ \/ /\ leaf /\ e = "ok"
              /\ Return(p, "ok")
              /\ UNCHANGED <<lvl, err>>
           \/ /\ ~leaf /\ e \in {"ok", "EEXIST"}
              /\ lvl' = [lvl EXCEPT ![p] = lvl[p] + 1]
              /\ UNCHANGED <<pc, err, result>>
           \/ /\ e # "ok" /\ (leaf \/ e # "EEXIST")
              /\ pc' = [pc EXCEPT ![p] = "except"]
              /\ err' = [err EXCEPT ![p] = e]
              /\ UNCHANGED <<lvl, result>>
        /\ UNCHANGED <<op, target>>

\* A mutant of HandleError: create_dir_tree re-raises every OSError.
HandleErrorAlwaysRaise(p) ==
    /\ pc[p] = "except"
    /\ Return(p, "raised")
    /\ UNCHANGED <<fs, op, target, lvl, err>>

\* A mutant of HandleError: create_dir_tree passes on EEXIST without
\* asking os.path.isdir.
HandleErrorNoIsDir(p) ==
    /\ pc[p] = "except"
    /\ Return(p, IF op[p] = "create_dir_tree" /\ err[p] = "EEXIST"
                 THEN "ok" ELSE "raised")
    /\ UNCHANGED <<fs, op, target, lvl, err>>

(***************************************************************************)
(* The except clauses.  create_dir_tree passes if the errno is EEXIST and *)
(* os.path.isdir(dir), asked now, holds, and re-raises otherwise;          *)
(* create_dir wraps every exception in a new Exception.                    *)
(***************************************************************************)
HandleError(p) ==
    /\ pc[p] = "except"
    /\ Return(p, IF op[p] = "create_dir_tree"
                    /\ err[p] = "EEXIST" /\ fs[target[p]] = "dir"
                 THEN "ok" ELSE "raised")
    /\ UNCHANGED <<fs, op, target, lvl, err>>

\* A file system in which every entry's parent is a directory.
WellFormed(f) == \A d \in Paths : f[d] # "none" => Len(d) = 1 \/ f[Prefix(d, Len(d) - 1)] = "dir"

Init ==
    /\ fs \in {f \in [Paths -> {"none", "dir", "file"}] : WellFormed(f)}
    /\ op \in [Procs -> Ops]
    /\ target \in [Procs -> Paths]
    /\ pc = [p \in Procs |-> "call"]
    /\ lvl = [p \in Procs |-> 0]
    /\ err = [p \in Procs |-> "none"]
    /\ result = [p \in Procs |-> "none"]

Next ==
    \E p \in Procs :
        \/ Call(p)
        \/ MakedirsExists(p)
        \/ MakedirsMkdir(p)
        \/ HandleError(p)

Spec == Init /\ [][Next]_vars

-----------------------------------------------------------------------------
TypeOK ==
    /\ fs \in [Paths -> {"none", "dir", "file"}]
    /\ op \in [Procs -> Ops]
    /\ target \in [Procs -> Paths]
    /\ pc \in [Procs -> {"call", "exists", "mkdir", "except", "done"}]
    /\ lvl \in [Procs -> 0..Depth]
    /\ err \in [Procs -> {"none", "EEXIST", "ENOENT", "ENOTDIR"}]
    /\ result \in [Procs -> {"none", "ok", "raised"}]

(* A call of either function that returns normally leaves its target a   *)
(* directory, even when another process changed the file system between *)
(* its isdir, exists and mkdir steps and when a file stands in the way.  *)
ReturnedMeansDir ==
    \A p \in Procs : result[p] = "ok" => fs[target[p]] = "dir"

(* create_dir_tree is safe to call concurrently: it raises only when a    *)
(* file at the target or an ancestor makes the directory impossible,     *)
(* never because another process made the directory (or an ancestor)    *)
(* between its own checks and its mkdir.                                  *)
TreeRaisesOnlyWhenBlocked ==
    \A p \in Procs : op[p] = "create_dir_tree" /\ result[p] = "raised" => Blocked(target[p])

(* create_dir, "Creates a directory if it doesn't exists", raises only   *)
(* when the directory cannot be made.                                    *)
DirRaisesOnlyWhenBlocked ==
    \A p \in Procs : op[p] = "create_dir" /\ result[p] = "raised" => Blocked(target[p])
=============================================================================
