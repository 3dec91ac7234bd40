----------------------------- MODULE PathOverlay -----------------------------
(***************************************************************************)
(* The path-preserving overlay: the three trees of path_overlay.rs (lower, *)
(* upper, whiteouts) and the file system requests agent-overlayfs answers  *)
(* from them.                                                              *)
(*                                                                         *)
(* agent-overlayfs handles one request at a time (fuser::mount2 with one   *)
(* session loop).  A request reads the trees and then makes storage calls  *)
(* one after the other: `plan' is the calls still to make, each is a step, *)
(* and the process may be killed, or a call fail, before any of them.      *)
(*                                                                         *)
(* The kernel asks only what lookups allow: a directory it has just looked *)
(* up, a name that is there for unlink, not there for mkdir, and so on.    *)
(* Permissions, symbolic links, the fallback roots and the inode table     *)
(* (ids are paths here) are left out.                                      *)
(***************************************************************************)
EXTENDS Naturals, Sequences, FiniteSets, SequencesExt

CONSTANTS
  Paths,       \* the paths below the root, each a nonempty sequence of names
  Contents,    \* what a program may write into a file
  Original,    \* what the files of the lower tree hold
  Handles,     \* files a program may hold open for writing
  Closed,      \* what `open' has for a handle that is not in use
  Gone,        \* and for one whose file has been removed or replaced
  RenameDirs,  \* whether programs rename directories too
  MaxCuts      \* how many requests may be cut off half-way

ASSUME PathsAssumption ==
  /\ IsFiniteSet(Paths)
  /\ Paths \subseteq Seq(UNION {ToSet(p) : p \in Paths})
  /\ \A p \in Paths : p # <<>> /\ \A q \in Prefixes(p) : q # <<>> => q \in Paths

ASSUME ContentsAssumption ==
  /\ Original \notin Contents
  /\ ({Original} \cup Contents) \cap {"none", "dir", "empty", "torn"} = {}

ASSUME HandlesAssumption == Closed # Gone /\ {Closed, Gone} \cap Paths = {}

ASSUME BoundsAssumption == RenameDirs \in BOOLEAN /\ MaxCuts \in Nat

VARIABLES
  lower,    \* the snapshot of the host's tree
  upper,    \* what the environment has created or changed
  white,    \* the whiteout tree: a file, or a directory with or without marker
  open,     \* where the file behind a handle is stored now
  plan,     \* the storage calls the request in progress has still to make
  req,      \* the request in progress
  seen,     \* history: what was seen when the last request ended
  dirty,    \* history: the paths that cut off requests named, and all below
  cuts      \* history: requests cut off so far

vars == <<lower, upper, white, open, plan, req, seen, dirty, cuts>>

-----------------------------------------------------------------------------
(* Paths and trees *)

Node == {"none", "dir", "empty", "torn", Original} \cup Contents
IsFile(v) == v \notin {"none", "dir"}

Below == [p \in Paths |-> {q \in Paths : IsPrefix(p, q)}]
Parents == [p \in Paths |-> {q \in Paths : IsStrictPrefix(q, p)}]
Children ==
  [p \in Paths |-> {q \in Paths : IsStrictPrefix(p, q) /\ Len(q) = Len(p) + 1}]
Moved(q, from, to) == to \o SubSeq(q, Len(from) + 1, Len(q))

(* A tree of a real file system: what exists is in a directory. *)
WellFormed(t) ==
  \A p \in Paths : t[p] # "none" => \A q \in Parents[p] : t[q] = "dir"

-----------------------------------------------------------------------------
(* What is seen through the three trees *)

(* A directory of the whiteout tree whiteouts its path only by its marker. *)
Whiteouted(p) == white[p] \in {"file", "marked"}

(* "none" stands for both Whiteout and Missing: either is ENOENT. *)
Resolve(p) ==
  IF Whiteouted(p) THEN "none"
  ELSE IF upper[p] # "none" THEN upper[p]
  ELSE lower[p]

(* The kernel looks a path up one component after the other. *)
View ==
  [p \in Paths |->
     IF \A q \in Parents[p] : Resolve(q) = "dir" THEN Resolve(p) ELSE "none"]

(* readdir needs a directory in every tree that has the path at all. *)
Listable(p) ==
  upper[p] \in {"none", "dir"} /\ lower[p] \in {"none", "dir"}

Listed(p) ==
  {q \in Children[p] :
     (lower[q] # "none" \/ upper[q] # "none") /\ ~Whiteouted(q)}

-----------------------------------------------------------------------------
(* Storage calls *)

MakeParents(p) == [call |-> "parents", at |-> p]
Put(p, v) == [call |-> "put", at |-> p, value |-> v]
OpenOrCreate(p) == [call |-> "create", at |-> p]
RemoveEntry(p) == [call |-> "remove", at |-> p]
Move(p, to) == [call |-> "move", at |-> p, to |-> to]
CreateWhiteout(p) == [call |-> "white", at |-> p]
RemoveWhiteout(p) == [call |-> "unwhite", at |-> p]
Bind(h, p) == [call |-> "bind", at |-> p, handle |-> h]

Calls ==
  [call : {"parents", "create", "remove", "white", "unwhite"}, at : Paths]
    \cup [call : {"put"}, at : Paths, value : Node]
    \cup [call : {"move"}, at : Paths, to : Paths]
    \cup [call : {"bind"}, at : Paths, handle : Handles]

(* fs::copy truncates the target, then fills it. *)
CopyNode(v, p) == IF v = "dir" THEN <<Put(p, v)>> ELSE <<Put(p, "torn"), Put(p, v)>>

(* copy_tree: the whole lower tree at `from', parents before children. *)
CopyTree(from, to) ==
  LET tree == {q \in Below[from] : lower[q] # "none"}
      nodes == CHOOSE s \in [1..Cardinality(tree) -> tree] :
                 \A i, j \in DOMAIN s :
                   i < j => s[i] # s[j] /\ Len(s[i]) <= Len(s[j])
  IN  FlattenSeq([i \in DOMAIN nodes |->
                    CopyNode(lower[nodes[i]], Moved(nodes[i], from, to))])

(* Mutant: what is deleted is never whiteouted. *)
ForgetWhiteout(p) == RemoveWhiteout(p)

(* A path is whiteouted when the lower tree has it, and only then. *)
UpdateWhiteout(p) ==
  IF lower[p] # "none" THEN CreateWhiteout(p) ELSE RemoveWhiteout(p)

(* Mutants: the parents are not made; a rename leaves the target's *)
(* whiteout, or removes it before the move.                                 *)
EnsureUpperInPlace(p) ==
  IF upper[p] # "none" THEN <<>>
  ELSE (IF Resolve(p) = "none" THEN <<Put(p, "empty")>> ELSE CopyNode(lower[p], p))
       \o <<RemoveWhiteout(p)>>

RenameKeepingWhiteout(from, to) ==
  <<MakeParents(to)>>
    \o IF upper[from] # "none" THEN <<Move(from, to), UpdateWhiteout(from)>>
       ELSE CopyTree(from, to) \o <<RemoveWhiteout(to), CreateWhiteout(from)>>

RenameRevealingFirst(from, to) ==
  <<MakeParents(to), RemoveWhiteout(to)>>
    \o IF upper[from] # "none" THEN <<Move(from, to), UpdateWhiteout(from)>>
       ELSE CopyTree(from, to) \o <<CreateWhiteout(from)>>

(* What a write needs: the path in the upper tree, copied up from the lower  *)
(* tree if that has it.                                                      *)
EnsureUpperForWrite(p) ==
  IF upper[p] # "none" THEN <<>>
  ELSE <<MakeParents(p)>>
       \o (IF Resolve(p) = "none" THEN <<Put(p, "empty")>> ELSE CopyNode(lower[p], p))
       \o <<RemoveWhiteout(p)>>

RemovePlan(p) ==
  (IF upper[p] # "none" THEN <<RemoveEntry(p)>> ELSE <<>>) \o <<UpdateWhiteout(p)>>

RenamePlan(from, to) ==
  <<MakeParents(to)>>
    \o IF upper[from] # "none"
       THEN <<Move(from, to), RemoveWhiteout(to), UpdateWhiteout(from)>>
       ELSE CopyTree(from, to) \o <<RemoveWhiteout(to), CreateWhiteout(from)>>

-----------------------------------------------------------------------------
(* Requests *)

Idle == plan = <<>>
NoRequest == [op |-> "none", paths |-> <<>>, stored |-> FALSE]

InDirectory(p) == \A q \in Parents[p] : seen[q] = "dir"

(* Between requests `seen' is what lookups show: requests are judged by it. *)

(* A request that has nothing to do to the trees is answered and forgotten. *)
Begin(op, paths, calls) ==
  /\ Idle
  /\ calls # <<>>
  /\ plan' = calls
  /\ req' = [op |-> op, paths |-> paths, stored |-> upper[paths[1]] # "none"]
  /\ UNCHANGED <<lower, upper, white, open, seen, dirty, cuts>>

Truncation(p, truncate) == IF truncate THEN <<Put(p, "empty")>> ELSE <<>>

(* setattr: with a size, or with only a mode. *)
Setattr(p, truncate) ==
  /\ seen[p] # "none"
  /\ truncate => IsFile(seen[p])
  /\ Begin("setattr", <<p>>, EnsureUpperForWrite(p) \o Truncation(p, truncate))

Open(h, p, truncate) ==
  /\ open[h] = Closed
  /\ IsFile(seen[p])
  /\ Begin("open", <<p>>,
           EnsureUpperForWrite(p) \o Truncation(p, truncate) \o <<Bind(h, p)>>)

(* Without O_TRUNC an upper file that a whiteout hides is opened as it is. *)
Create(h, p) ==
  /\ open[h] = Closed
  /\ InDirectory(p) /\ seen[p] = "none"
  /\ Begin("create", <<p>>,
           <<MakeParents(p), OpenOrCreate(p), RemoveWhiteout(p), Bind(h, p)>>)

(* EEXIST when the upper tree has the path, seen or not. *)
Mkdir(p) ==
  /\ InDirectory(p) /\ seen[p] = "none"
  /\ upper[p] = "none"
  /\ Begin("mkdir", <<p>>, <<MakeParents(p), Put(p, "dir"), RemoveWhiteout(p)>>)

Unlink(p) ==
  /\ IsFile(seen[p])
  /\ Begin("unlink", <<p>>, RemovePlan(p))

(* ENOTDIR and ENOTEMPTY come from the listing. *)
Rmdir(p) ==
  /\ seen[p] = "dir"
  /\ Listable(p) /\ Listed(p) = {}
  /\ Begin("rmdir", <<p>>, RemovePlan(p))

Rename(from, to) ==
  /\ seen[from] # "none" /\ InDirectory(to)
  /\ IsFile(seen[from]) \/ RenameDirs
  /\ to \notin Below[from] /\ from \notin Below[to]
  /\ \A q \in Below[from] : Moved(q, from, to) \in Paths
  /\ seen[to] # "none" => (IsFile(seen[from]) <=> IsFile(seen[to]))
  /\ Begin("rename", <<from, to>>, RenamePlan(from, to))

(* A write goes to the file the handle was bound to, wherever it is now. *)
Write(h, c) ==
  /\ Idle
  /\ open[h] \in Paths
  /\ upper' = [upper EXCEPT ![open[h]] = c]
  /\ UNCHANGED <<lower, white, open, plan, req, dirty, cuts>>
  /\ seen' = View'

Release(h) ==
  /\ Idle
  /\ open[h] # Closed
  /\ open' = [open EXCEPT ![h] = Closed]
  /\ UNCHANGED <<lower, upper, white, plan, req, seen, dirty, cuts>>

-----------------------------------------------------------------------------
(* The next storage call of the request in progress *)

(* Whether the call succeeds on the trees as they are. *)
Works(s) ==
  CASE s.call = "parents" -> \A q \in Parents[s.at] : upper[q] \in {"none", "dir"}
    [] s.call = "put" -> /\ \A q \in Parents[s.at] : upper[q] = "dir"
                         /\ upper[s.at] # "none" =>
                              (upper[s.at] = "dir" <=> s.value = "dir")
    [] s.call = "create" -> upper[s.at] # "dir"
    [] s.call = "remove" -> \A q \in Children[s.at] : upper[q] = "none"
    [] s.call = "move" -> \/ upper[s.to] = "none"
                          \/ IsFile(upper[s.at]) /\ IsFile(upper[s.to])
                          \/ /\ upper[s.at] = "dir" /\ upper[s.to] = "dir"
                             /\ \A q \in Children[s.to] : upper[q] = "none"
    [] s.call = "white" -> \A q \in Parents[s.at] : white[q] # "file"
    [] OTHER -> TRUE

(* What the request has left to do; the last call ends it. *)
Proceed ==
  /\ plan' = Tail(plan)
  /\ req' = IF plan' = <<>> THEN NoRequest ELSE req
  /\ UNCHANGED <<lower, dirty, cuts>>
  /\ seen' = IF plan' = <<>> THEN View' ELSE seen

DoMakeParents(p) ==
  /\ upper' = [q \in Paths |-> IF q \in Parents[p] THEN "dir" ELSE upper[q]]
  /\ UNCHANGED <<white, open>>

DoPut(p, v) ==
  /\ upper' = [upper EXCEPT ![p] = v]
  /\ UNCHANGED <<white, open>>

DoOpenOrCreate(p) ==
  /\ \E truncate \in BOOLEAN :
       upper' = [upper EXCEPT ![p] = IF @ = "none" \/ truncate THEN "empty" ELSE @]
  /\ UNCHANGED <<white, open>>

DoRemove(p) ==
  /\ upper' = [upper EXCEPT ![p] = "none"]
  /\ open' = [h \in Handles |-> IF open[h] = p THEN Gone ELSE open[h]]
  /\ UNCHANGED white

(* Handles follow the files that move; a file that is replaced is gone. *)
DoMove(from, to) ==
  /\ upper' = [q \in Paths |->
                 CASE q \in Below[from] -> "none"
                   [] q \in Below[to] ->
                        IF Moved(q, to, from) \in Paths THEN upper[Moved(q, to, from)]
                        ELSE "none"
                   [] OTHER -> upper[q]]
  /\ open' = [h \in Handles |->
                CASE open[h] \in Below[from] -> Moved(open[h], from, to)
                  [] open[h] = to -> Gone
                  [] OTHER -> open[h]]
  /\ UNCHANGED white

(* Mutant: a whiteout is a file even where a directory of whiteouts is.     *)
DoCreateFileWhiteout(p) ==
  /\ white' = [q \in Paths |->
                 CASE q = p -> "file"
                   [] q \in Parents[p] -> IF white[q] = "none" THEN "dir" ELSE white[q]
                   [] OTHER -> white[q]]
  /\ UNCHANGED <<upper, open>>

DoCreateWhiteout(p) ==
  /\ white' = [q \in Paths |->
                 CASE q = p -> IF white[p] \in {"dir", "marked"} THEN "marked" ELSE "file"
                   [] q \in Parents[p] -> IF white[q] = "none" THEN "dir" ELSE white[q]
                   [] OTHER -> white[q]]
  /\ UNCHANGED <<upper, open>>

DoRemoveWhiteout(p) ==
  /\ white' = [white EXCEPT ![p] = CASE @ = "file" -> "none"
                                     [] @ = "marked" -> "dir"
                                     [] OTHER -> @]
  /\ UNCHANGED <<upper, open>>

DoBind(h, p) ==
  /\ open' = [open EXCEPT ![h] = p]
  /\ UNCHANGED <<upper, white>>

StorageCall ==
  /\ ~Idle
  /\ Works(Head(plan))
  /\ LET s == Head(plan)
     IN  \/ s.call = "parents" /\ DoMakeParents(s.at)
         \/ s.call = "put" /\ DoPut(s.at, s.value)
         \/ s.call = "create" /\ DoOpenOrCreate(s.at)
         \/ s.call = "remove" /\ DoRemove(s.at)
         \/ s.call = "move" /\ DoMove(s.at, s.to)
         \/ s.call = "white" /\ DoCreateWhiteout(s.at)
         \/ s.call = "unwhite" /\ DoRemoveWhiteout(s.at)
         \/ s.call = "bind" /\ DoBind(s.handle, s.at)
  /\ Proceed

(***************************************************************************)
(* The request ends where it is: its next call fails, as the trees are or  *)
(* for a reason outside of them, or the process is killed.                 *)
(***************************************************************************)
Abandon ==
  /\ ~Idle
  /\ \/ ~Works(Head(plan)) /\ UNCHANGED cuts
     \/ Works(Head(plan)) /\ cuts < MaxCuts /\ cuts' = cuts + 1
  /\ plan' = <<>>
  /\ req' = NoRequest
  /\ seen' = View
  /\ dirty' = dirty \cup UNION {Below[req.paths[i]] : i \in DOMAIN req.paths}
  /\ UNCHANGED <<lower, upper, white, open>>

-----------------------------------------------------------------------------

(* Any snapshot of the host. *)
Init ==
  /\ lower \in {t \in [Paths -> {"none", "dir", Original}] : WellFormed(t)}
  /\ upper = [p \in Paths |-> "none"]
  /\ white = [p \in Paths |-> "none"]
  /\ open = [h \in Handles |-> Closed]
  /\ plan = <<>>
  /\ req = NoRequest
  /\ seen = View
  /\ dirty = {}
  /\ cuts = 0

Next ==
  \/ \E p \in Paths :
       \/ \E truncate \in BOOLEAN :
            Setattr(p, truncate) \/ \E h \in Handles : Open(h, p, truncate)
       \/ \E h \in Handles : Create(h, p)
       \/ Mkdir(p) \/ Unlink(p) \/ Rmdir(p)
       \/ \E to \in Paths : Rename(p, to)
  \/ \E h \in Handles : Release(h) \/ \E c \in Contents : Write(h, c)
  \/ StorageCall
  \/ Abandon

Spec == Init /\ [][Next]_vars

-----------------------------------------------------------------------------
(* Properties *)

(* The trees are trees, a whiteout lies in a directory of whiteouts, and a  *)
(* handle is bound to a file of the upper tree.                             *)
OverlayTypeOK ==
  /\ lower \in [Paths -> {"none", "dir", Original}] /\ WellFormed(lower)
  /\ upper \in [Paths -> Node] /\ WellFormed(upper)
  /\ white \in [Paths -> {"none", "file", "dir", "marked"}]
  /\ \A p \in Paths : white[p] # "none" =>
       \A q \in Parents[p] : white[q] \in {"dir", "marked"}
  /\ open \in [Handles -> Paths \cup {Closed, Gone}]
  /\ \A h \in Handles : open[h] \in Paths => IsFile(upper[open[h]])
  /\ plan \in Seq(Calls)
  /\ Idle <=> req = NoRequest
  /\ Idle => seen = View
  /\ dirty \subseteq Paths
  /\ cuts \in 0..MaxCuts

(* Between requests no whiteout hides a file or directory the environment   *)
(* has stored at the same path, unless a request was cut off there.         *)
NoHiddenUpper ==
  Idle => \A p \in Paths \ dirty : ~(Whiteouted(p) /\ upper[p] # "none")

(* An editor's safe save: while a file the environment has stored is renamed *)
(* over another, what is seen at the target is the old file or the new one,  *)
(* wherever the process is killed.                                           *)
SafeSaveAtomic ==
  (req.op = "rename" /\ req.stored) =>
    LET from == req.paths[1]
        to == req.paths[2]
    IN  IsFile(seen[from]) => View[to] \in {seen[from], seen[to]}

(* A request that has begun is carried out: none of its storage calls fails  *)
(* for the state the earlier requests have left the trees in, unless one of  *)
(* those was cut off.                                                        *)
NoneFailsHalfway == (cuts = 0 /\ ~Idle) => Works(Head(plan))

(* What a program sees between requests is one tree of files in which each   *)
(* request does what its name says, whatever lies in which tree; a request   *)
(* that was cut off spoils the paths it named and nothing else.              *)
Tree == INSTANCE FileTree WITH
          Contents <- Contents \cup {Original},
          tree <- seen
ImplementsTree == Tree!Spec

(* A rename moves what is seen below the path, unchanged files of the        *)
(* snapshot included, and leaves nothing else at the new path.               *)
RenameMovesTree ==
  [][(req.op = "rename" /\ Len(plan) = 1 /\ Works(Head(plan)) /\ cuts' = cuts)
       => LET from == req.paths[1]
              to == req.paths[2]
          IN  seen[to] = "none" => \A q \in Below[from] :
                /\ View'[q] = "none"
                /\ View'[Moved(q, from, to)] = seen[q]]_vars
=============================================================================
