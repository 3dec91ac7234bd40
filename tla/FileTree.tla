------------------------------ MODULE FileTree ------------------------------
(***************************************************************************)
(* What a program inside an environment may expect of its files: one tree  *)
(* of directories and files, in which a call changes the paths it names    *)
(* and nothing else.  PathOverlay keeps that promise with three trees of   *)
(* storage.                                                                *)
(*                                                                         *)
(* A call that was cut off half-way (the file system process killed, a     *)
(* storage call failed) leaves the paths it named, and what lies below     *)
(* them, `dirty': nothing is promised about those.  Everything else keeps  *)
(* its content through any number of such calls.                           *)
(***************************************************************************)
EXTENDS Sequences, SequencesExt

CONSTANTS
  Paths,      \* the paths below the root, each a sequence of names
  Contents    \* what a program may write into a file

VARIABLES
  tree,       \* what is seen at each path
  dirty       \* the paths a call that was cut off may have left in any state

vars == <<tree, dirty>>

Node == {"none", "dir", "empty", "torn"} \cup Contents
IsFile(v) == v \notin {"none", "dir"}

Below == [p \in Paths |-> {q \in Paths : IsPrefix(p, q)}]
Parents == [p \in Paths |-> {q \in Paths : IsStrictPrefix(q, p)}]
Children ==
  [p \in Paths |-> {q \in Paths : IsStrictPrefix(p, q) /\ Len(q) = Len(p) + 1}]

(***************************************************************************)
(* The same path one directory elsewhere: q, seen from `from', below `to'. *)
(***************************************************************************)
Moved(q, from, to) == to \o SubSeq(q, Len(from) + 1, Len(q))

-----------------------------------------------------------------------------

Init ==
  /\ tree \in [Paths -> Node]
  /\ dirty = {}

(***************************************************************************)
(* The next tree is `expected', except that nothing is said of a dirty     *)
(* path.                                                                   *)
(***************************************************************************)
Becomes(expected) ==
  /\ tree' \in [Paths -> Node]
  /\ \A q \in Paths \ dirty : tree'[q] = expected[q]
  /\ UNCHANGED dirty

Create(p) ==
  /\ tree[p] = "none"
  /\ \A q \in Parents[p] : tree[q] = "dir"
  /\ Becomes([tree EXCEPT ![p] = "empty"])

Mkdir(p) ==
  /\ tree[p] = "none"
  /\ \A q \in Parents[p] : tree[q] = "dir"
  /\ Becomes([tree EXCEPT ![p] = "dir"])

Truncate(p) == IsFile(tree[p]) /\ Becomes([tree EXCEPT ![p] = "empty"])

Write(p, c) == IsFile(tree[p]) /\ Becomes([tree EXCEPT ![p] = c])

Unlink(p) == IsFile(tree[p]) /\ Becomes([tree EXCEPT ![p] = "none"])

(***************************************************************************)
(* Only an empty directory is removed.                                     *)
(***************************************************************************)
Rmdir(p) ==
  /\ tree[p] = "dir"
  /\ \A q \in Children[p] \ dirty : tree[q] = "none"
  /\ Becomes([tree EXCEPT ![p] = "none"])

(***************************************************************************)
(* A file or a whole directory moves; a file in its place is replaced, a   *)
(* directory in its place must be empty.                                   *)
(***************************************************************************)
AfterRename(from, to) ==
  [q \in Paths |->
     CASE q \in Below[from] -> "none"
       [] q \in Below[to] ->
            LET source == Moved(q, to, from)
            IN  IF source \in Paths THEN tree[source] ELSE "none"
       [] OTHER -> tree[q]]

Rename(from, to) ==
  /\ tree[from] # "none"
  /\ to \notin Below[from] /\ from \notin Below[to]
  /\ \A q \in Parents[to] : tree[q] = "dir"
  /\ \/ tree[to] = "none"
     \/ IsFile(tree[from]) /\ IsFile(tree[to])
     \/ tree[from] = "dir" /\ tree[to] = "dir"
        /\ \A q \in Children[to] : tree[q] = "none"
  /\ Becomes(AfterRename(from, to))

(***************************************************************************)
(* A call on the paths P was cut off.                                      *)
(***************************************************************************)
CutOff(P) ==
  /\ dirty' = dirty \cup UNION {Below[p] : p \in P}
  /\ tree' \in [Paths -> Node]
  /\ \A q \in Paths \ dirty' : tree'[q] = tree[q]

Next ==
  \/ \E p \in Paths :
       \/ Create(p) \/ Mkdir(p) \/ Truncate(p) \/ Unlink(p) \/ Rmdir(p)
       \/ \E c \in Contents : Write(p, c)
       \/ \E to \in Paths : Rename(p, to)
  \/ \E P \in SUBSET Paths : CutOff(P)

Spec == Init /\ [][Next]_vars
=============================================================================
