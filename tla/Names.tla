------------------------------- MODULE Names --------------------------------
(***************************************************************************)
(* The paths of a guest program and the entries they name (path.go,        *)
(* vfs.c).                                                                 *)
(*                                                                         *)
(* A path is the sequence of its parts between slashes: <<"", "a", ".">>   *)
(* is "/a/.".  The name that the backend gets has no slash in front, and   *)
(* is <<".">> for the mount itself.  The backend is an fs.FS of the Go     *)
(* program; what it does to a name it has been given is external.          *)
(***************************************************************************)
EXTENDS Integers, Sequences, SequencesExt

CONSTANTS
  Entries,        \* names that may exist, below the mount
  Paths,          \* what the guest may ask for
  MaxPathLength   \* maxPathLength, in parts

ASSUME NamesAssumption ==
  /\ \A e \in Entries : e \in Seq(STRING) /\ Len(e) > 0
  /\ \A p \in Paths : p \in Seq(STRING) /\ Len(p) > 0

VARIABLE tree  \* what is there: [Entries -> {"none", "file", "dir"}]

Root == <<".">>
Refused == [ok |-> FALSE, name |-> <<>>]
Found(name) == [ok |-> TRUE, name |-> name]

Is(name, kind) == name \in Entries /\ tree[name] = kind
Exists(name) == name \in Entries /\ tree[name] # "none"
Holds(name, kind) == IF name \in {Root, <<>>} THEN kind = "dir" ELSE Is(name, kind)
Below(name) == {e \in Entries : IsStrictPrefix(name, e) /\ tree[e] # "none"}

-----------------------------------------------------------------------------
(* path.go.                                                                *)

\* A path without the parts in front that are `part`, but for the last.
After(part, p) ==
  LET others == {i \in DOMAIN p : i = Len(p) \/ p[i] # part}
  IN  SubSeq(p, CHOOSE i \in others : \A j \in others : i <= j, Len(p))

\* strings.TrimLeft(name, "/"), and "./" after "./" off the front.
Unrooted(p) == After("", p)
Undotted(p) == After(".", p)

\* fs.ValidPath.
ValidPath(p) == p = Root \/ \A i \in DOMAIN p : p[i] \notin {"", ".", ".."}

\* Seeded fault: what is not a name is cleaned until it is one.
MutName(p) ==
  LET parts == SelectSeq(p, LAMBDA part : part \notin {"", "."})
  IN  IF Len(p) > MaxPathLength \/ \E i \in DOMAIN p : p[i] \in {"..", "\\"} THEN Refused
      ELSE Found(IF parts = <<>> THEN Root ELSE parts)

\* Filesystem.name, of a path that it can read.
Name(p) ==
  LET name == Undotted(Unrooted(p))
  IN  IF \/ Len(p) > MaxPathLength
         \/ \E i \in DOMAIN p : p[i] \in {"..", "\\"}
         \/ name # <<"">> /\ ~ValidPath(name)
      THEN Refused
      ELSE Found(IF name = <<"">> THEN Root ELSE name)

\* Filesystem.target: the mount is not to be changed.
Target(p) == IF Name(p).name = Root THEN Refused ELSE Name(p)

NameOf == [p \in Paths |-> Name(p)]
TargetOf == [p \in Paths |-> Target(p)]

-----------------------------------------------------------------------------
(* The operations, where they succeed.  Any may fail as well, and changes  *)
(* nothing then.                                                           *)

\* Xhost_fs_open with create: the entry, if it was not there.
Creates(name, create) ==
  /\ name \in Entries
  /\ \/ Is(name, "file") /\ UNCHANGED tree
     \/ create /\ Is(name, "none") /\ Holds(Front(name), "dir")
        /\ tree' = [tree EXCEPT ![name] = "file"]

\* Xhost_fs_mkdir.
Mkdir(p) ==
  LET t == TargetOf[p]
  IN  /\ t.ok /\ Is(t.name, "none") /\ Holds(Front(t.name), "dir")
      /\ tree' = [tree EXCEPT ![t.name] = "dir"]

\* Xhost_fs_remove.
Unlink(p) ==
  LET t == TargetOf[p]
  IN  /\ t.ok /\ Is(t.name, "file")
      /\ tree' = [tree EXCEPT ![t.name] = "none"]

\* Xhost_fs_rmdir.
Rmdir(p) ==
  LET t == TargetOf[p]
  IN  /\ t.ok /\ Is(t.name, "dir") /\ Below(t.name) = {}
      /\ tree' = [tree EXCEPT ![t.name] = "none"]

\* Where an entry goes when `old` becomes `new`.
Moved(old, new, e) == new \o SubSeq(e, Len(old) + 1, Len(e))

\* Xhost_fs_rename: onto nothing, or an entry of the same kind that holds nothing.
Rename(p, q) ==
  LET old == TargetOf[p]
      new == TargetOf[q]
      all == Below(old.name) \cup {old.name}
  IN  /\ old.ok /\ Exists(old.name)
      /\ new.ok /\ new.name \in Entries /\ Holds(Front(new.name), "dir")
      /\ tree[new.name] \in {"none", tree[old.name]} /\ Below(new.name) = {}
      /\ ~IsPrefix(old.name, new.name)
      /\ \A e \in all : Moved(old.name, new.name, e) \in Entries  \* bound
      /\ tree' = [e \in Entries |->
                    IF e \in all THEN "none"
                    ELSE IF \E f \in all : e = Moved(old.name, new.name, f)
                    THEN tree[CHOOSE f \in all : e = Moved(old.name, new.name, f)]
                    ELSE tree[e]]

\* Somebody else who has the files.
OthersChange ==
  \E e \in Entries :
    /\ Holds(Front(e), "dir") /\ Below(e) = {}
    /\ tree' \in {[tree EXCEPT ![e] = kind] : kind \in {"none", "file", "dir"} \ {tree[e]}}

NamesInit == tree = [e \in Entries |-> "none"]

-----------------------------------------------------------------------------
(* What a path names to POSIX, with the mount for a root and without "..". *)

\* One part further from a directory; the mount is <<>>.
Step(at, part) ==
  IF ~at.ok \/ ~Holds(at.name, "dir") \/ part = ".." THEN Refused
  ELSE IF part \in {"", "."} THEN at
  ELSE Found(Append(at.name, part))

Named(p) ==
  LET walk[i \in 0 .. Len(p)] == IF i = 0 THEN Found(<<>>) ELSE Step(walk[i - 1], p[i])
  IN  walk[Len(p)]
=============================================================================
