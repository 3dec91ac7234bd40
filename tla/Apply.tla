------------------------------- MODULE Apply -------------------------------
(***************************************************************************)
(* `agentctl apply': what an environment has changed is written back to    *)
(* the host's tree (DesktopService::apply, desktop.rs).                    *)
(*                                                                         *)
(* An apply first writes every entry of the upper tree, parents first, to  *)
(* the host and then to the lower tree, which keeps what the host is known *)
(* to have; it clears the upper tree; then it removes every whiteouted     *)
(* path, children first, from both and clears the whiteout tree.  Before   *)
(* each entry it compares the lower tree with the host, and refuses when   *)
(* they differ unless it is forced.  It may be cut off, or fail, between   *)
(* any two operations on the file system, and be repeated.                 *)
(*                                                                         *)
(* The environment's requests are those of PathOverlay.  Here programs and *)
(* the host's user are quiet while an apply runs, and have their files     *)
(* closed.  Permissions and symbolic links are left out.                   *)
(***************************************************************************)
EXTENDS PathOverlay

CONSTANTS
  Inside,      \* the paths below the source root, which apply writes back
  Source,      \* the host's tree when it was cloned
  Theirs,      \* what the host's user writes into a file
  MaxEdits     \* how many edits the host's user makes

ASSUME InsideAssumption ==
  /\ Inside \subseteq Paths
  /\ \A p \in Inside : Parents[p] \subseteq Inside /\ Below[p] \subseteq Inside

ASSUME SourceAssumption ==
  /\ Source \in [Paths -> {"none", "dir", Original}] /\ WellFormed(Source)
  /\ \A p \in Paths \ Inside : Source[p] = "none"

ASSUME TheirsAssumption ==
  Theirs \notin Contents \cup {Original, "none", "dir", "empty", "torn"}

ASSUME EditsAssumption == MaxEdits \in Nat

VARIABLES
  host,       \* the host's tree
  job,        \* the apply in progress
  theirs,     \* history: paths the host's user has edited, not overwritten since
  halfway,    \* history: paths whose write-back was cut off
  edits       \* history: edits of the host's user so far

applyVars == <<vars, host, job, theirs, halfway, edits>>

-----------------------------------------------------------------------------
(* Operations on the host's tree and on the lower tree *)

Step(call, tree, p, v) == [call |-> call, tree |-> tree, at |-> p, value |-> v]

Exists(t, p) == t[p] # "none"

(* lstat fails (ENOTDIR, not ENOENT) below something that is no directory. *)
BelowFile(t, p) == \E q \in Parents[p] : IsFile(t[q])

(* Mutant: the two entries are compared, what lies below them is not. *)
EquivalentAtTop(p) == lower[p] = host[p]

(* paths_equivalent: the two subtrees are alike. *)
Equivalent(p) == \A q \in Below[p] : lower[q] = host[q]

NoConflict(p, force) == force \/ Equivalent(p)

(* apply_upper_path, replace_path_from: what is there is removed first, but a *)
(* directory stays where a directory is wanted.                              *)
WritePath(tree, p) ==
  IF upper[p] = "dir" THEN <<Step("unfile", tree, p, "none"), Step("mkdir", tree, p, "dir")>>
  ELSE <<Step("remove", tree, p, "none"), Step("put", tree, p, "torn"),
         Step("put", tree, p, upper[p])>>

(* Mutant: the lower tree does not learn what the host has now. *)
WriteBackHostOnly(p) == WritePath("host", p)

WriteBack(p) == WritePath("host", p) \o WritePath("lower", p)

(* Mutant: what is deleted stays in the lower tree. *)
DeleteHostOnly(p) == <<Step("remove", "host", p, "none")>>

DeleteBoth(p) ==
  <<Step("remove", "host", p, "none"), Step("remove", "lower", p, "none")>>

(* create_dir_all of the parent comes with the write. *)
Placed(t, p, v) ==
  [q \in Paths |-> IF q = p THEN v
                   ELSE IF q \in Parents[p] /\ ~Exists(t, q) THEN "dir" ELSE t[q]]

Deepest(S) == {p \in S : \A q \in S : Len(q) <= Len(p)}
Shallowest(S) == {p \in S : \A q \in S : Len(p) <= Len(q)}

-----------------------------------------------------------------------------
(* The apply in progress *)

NoJob == [phase |-> "idle", force |-> FALSE, left |-> {}, done |-> {}, now |-> <<>>]
Applying == job.phase \in {"upper", "clearUpper", "white", "clearWhite"}
Replied == job.phase \in {"done", "refused", "failed"}

(* Mutant: the markers of directories are taken for directories. *)
FileWhiteEntries == {p \in Inside : white[p] = "file"}

(* collect_overlay_apply_entries below the source root; of the whiteout tree *)
(* files and markers count.                                                  *)
UpperEntries == {p \in Inside : upper[p] # "none"}
WhiteEntries == {p \in Inside : Whiteouted(p)}

(* A marker lies one level below the directory it whiteouts. *)
WhiteDepth(p) == IF white[p] = "marked" THEN Len(p) + 1 ELSE Len(p)

Enter(phase, left) == [job EXCEPT !.phase = phase, !.left = left, !.done = left]
Reply(phase) == [NoJob EXCEPT !.phase = phase]

Apply(force) ==
  /\ Idle /\ job = NoJob
  /\ \A h \in Handles : open[h] = Closed
  /\ job' = [NoJob EXCEPT !.phase = "upper", !.force = force,
                          !.left = UpperEntries, !.done = UpperEntries]
  /\ UNCHANGED <<vars, host, theirs, halfway, edits>>

(* What an entry with this last operation replaces: a directory only itself. *)
Replaced(s) == IF s.call = "mkdir" THEN {s.at} ELSE Below[s.at]

(* The next entry: refused, or its operations begin. *)
Consider(p, steps) ==
  /\ job' = IF NoConflict(p, job.force)
            THEN [job EXCEPT !.left = @ \ {p}, !.now = steps]
            ELSE Reply("refused")
  /\ theirs' = IF job.force THEN theirs \ Replaced(Last(steps)) ELSE theirs
  /\ UNCHANGED <<vars, host, halfway, edits>>

ConsiderUpper(p) ==
  /\ job.phase = "upper" /\ job.now = <<>>
  /\ p \in Shallowest(job.left)
  /\ Consider(p, WriteBack(p))

ConsiderWhite(p) ==
  /\ job.phase = "white" /\ job.now = <<>>
  /\ p \in job.left /\ \A q \in job.left : WhiteDepth(q) <= WhiteDepth(p)
  /\ IF ~job.force /\ (BelowFile(lower, p) \/ BelowFile(host, p))
     THEN job' = Reply("failed") /\ UNCHANGED <<vars, host, theirs, halfway, edits>>
     ELSE Consider(p, DeleteBoth(p))

(* The next operation; the entry's last one settles it. *)
Become(tree, t) ==
  IF tree = "host" THEN host' = t /\ UNCHANGED lower ELSE lower' = t /\ UNCHANGED host

Settle(s) ==
  /\ job' = [job EXCEPT !.now = Tail(@)]
  /\ halfway' = IF job'.now = <<>> THEN halfway \ Replaced(s) ELSE halfway

Stay == UNCHANGED <<job, halfway>>

(* remove_dir_all goes from the leaves up, one entry at a time. *)
RemoveStep(s, t) ==
  LET there == {q \in Below[s.at] : Exists(t, q)}
  IN  IF there = {} THEN Become(s.tree, t) /\ Settle(s)
      ELSE \E q \in Deepest(there) :
             /\ Become(s.tree, [t EXCEPT ![q] = "none"])
             /\ IF q = s.at THEN Settle(s) ELSE Stay

Operate ==
  /\ job.now # <<>>
  /\ LET s == Head(job.now)
         t == IF s.tree = "host" THEN host ELSE lower
     IN  IF BelowFile(t, s.at)
         THEN /\ job' = Reply("failed")
              /\ UNCHANGED <<lower, host, halfway>>
         ELSE \/ s.call = "remove" /\ RemoveStep(s, t)
              \/ /\ s.call = "unfile"
                 /\ Become(s.tree, IF IsFile(t[s.at]) THEN [t EXCEPT ![s.at] = "none"] ELSE t)
                 /\ Settle(s)
              \/ /\ s.call \in {"mkdir", "put"}
                 /\ Become(s.tree, Placed(t, s.at, s.value))
                 /\ Settle(s)
  /\ UNCHANGED <<upper, white, open, plan, req, dirty, cuts, theirs, edits>>
  /\ seen' = View'

(* All entries are applied: they are cleared from their tree. *)
Turn ==
  /\ job.left = {} /\ job.now = <<>>
  /\ \/ job.phase = "upper" /\ job' = Enter("clearUpper", job.done)
     \/ job.phase = "white" /\ job' = Enter("clearWhite", job.done)
  /\ UNCHANGED <<vars, host, theirs, halfway, edits>>

ClearUpper(p) ==
  /\ job.phase = "clearUpper"
  /\ p \in Deepest(job.left)
  /\ job' = [job EXCEPT !.left = @ \ {p}]
  /\ upper' = IF \A q \in Children[p] : upper[q] = "none"
              THEN [upper EXCEPT ![p] = "none"] ELSE upper
  /\ UNCHANGED <<lower, white, open, plan, req, dirty, cuts, host, theirs, halfway, edits>>
  /\ seen' = View'

ClearWhite(p) ==
  /\ job.phase = "clearWhite"
  /\ p \in job.left /\ \A q \in job.left : WhiteDepth(q) <= WhiteDepth(p)
  /\ job' = [job EXCEPT !.left = @ \ {p}]
  /\ white' = [white EXCEPT ![p] = IF @ = "marked" THEN "dir" ELSE "none"]
  /\ UNCHANGED <<lower, upper, open, plan, req, dirty, cuts, host, theirs, halfway, edits>>
  /\ seen' = View'

(* remove_empty_storage_parents, of the whole tree: a directory goes when      *)
(* nothing but empty directories is below it, be it outside of the source.     *)
PruneUpper ==
  /\ job.phase = "clearUpper" /\ job.left = {}
  /\ upper' = [p \in Paths |->
                 IF \A q \in Below[p] : upper[q] \in {"none", "dir"} THEN "none" ELSE upper[p]]
  /\ job' = Enter("white", WhiteEntries)
  /\ UNCHANGED <<lower, white, open, plan, req, dirty, cuts, host, theirs, halfway, edits>>
  /\ seen' = View'

PruneWhite ==
  /\ job.phase = "clearWhite" /\ job.left = {}
  /\ white' = [p \in Paths |->
                 IF \A q \in Below[p] : white[q] \in {"none", "dir"} THEN "none" ELSE white[p]]
  /\ job' = Reply("done")
  /\ UNCHANGED <<lower, upper, open, plan, req, dirty, cuts, host, theirs, halfway, edits>>
  /\ seen' = View'

(* The client has its answer. *)
Answer ==
  /\ Replied
  /\ job' = NoJob
  /\ UNCHANGED <<vars, host, theirs, halfway, edits>>

(* The daemon is killed or an operation fails for a reason outside. *)
CutApply ==
  /\ Applying
  /\ cuts < MaxCuts
  /\ cuts' = cuts + 1
  /\ halfway' = IF job.now = <<>> THEN halfway ELSE halfway \cup Below[Head(job.now).at]
  /\ job' = NoJob
  /\ UNCHANGED <<lower, upper, white, open, plan, req, seen, dirty, host, theirs, edits>>

-----------------------------------------------------------------------------
(* The environment and the host's user, between applies *)

EnvStep ==
  /\ job = NoJob
  /\ Next
  /\ UNCHANGED <<host, job, theirs, halfway, edits>>

(* A file is written, made or removed on the host. *)
HostEdit(p, v) ==
  /\ Idle /\ job = NoJob
  /\ edits < MaxEdits /\ edits' = edits + 1
  /\ host[p] # "dir" /\ host[p] # v
  /\ \A q \in Parents[p] : host[q] = "dir"
  /\ host' = [host EXCEPT ![p] = v]
  /\ theirs' = IF v = lower[p] THEN theirs \ {p} ELSE theirs \cup {p}
  /\ UNCHANGED <<vars, job, halfway>>

(* The lower tree is a clone of the source; nothing outside of it is cloned. *)
ApplyInit ==
  /\ Init
  /\ lower = Source
  /\ host = lower
  /\ job = NoJob
  /\ theirs = {}
  /\ halfway = {}
  /\ edits = 0

ApplyNext ==
  \/ \E force \in BOOLEAN : Apply(force)
  \/ \E p \in Paths : \/ ConsiderUpper(p) \/ ConsiderWhite(p)
                      \/ ClearUpper(p) \/ ClearWhite(p)
  \/ Operate \/ Turn \/ PruneUpper \/ PruneWhite \/ Answer \/ CutApply
  \/ EnvStep
  \/ \E p \in Inside, v \in {Theirs, "none"} : HostEdit(p, v)

ApplySpec == ApplyInit /\ [][ApplyNext]_applyVars

-----------------------------------------------------------------------------
(* Properties *)

(* No step of an apply, one that is cut off, refused or repeated included, is *)
(* seen by the programs in the environment: lower, upper and whiteouts change *)
(* in an order that shows the same files all the time.  The exception is an   *)
(* empty directory outside the source, which is removed.                     *)
ApplyUnseen ==
  [][Applying => \A p \in Paths :
       \/ seen'[p] = seen[p]
       \/ /\ p \notin Inside /\ seen[p] = "dir"
          /\ \A q \in Children[p] : seen[q] \in {"none", "dir"}]_applyVars

(* An apply that reports success has written everything back: the host has    *)
(* what the environment shows, but for files that the host's user changed     *)
(* and the environment did not, and no upper file and no whiteout is left.     *)
Delivered ==
  job.phase = "done" => \A p \in Inside :
    /\ upper[p] = "none" /\ white[p] = "none"
    /\ lower[p] = seen[p]
    /\ p \notin theirs \cup halfway => host[p] = seen[p]

(* Without --force no apply touches a file that the host's user has written   *)
(* or removed, whatever applies were cut off or refused before.              *)
HostEditsSurvive ==
  [][(Applying /\ ~job.force) => \A p \in theirs : host'[p] = host[p]]_applyVars

(* An apply refuses an entry only for what the user of the host has changed   *)
(* at or below it, or for an entry whose write-back was cut off: what earlier *)
(* applies have delivered before they were refused is no conflict.            *)
RefusedWithReason ==
  job.phase = "refused" => theirs \cup halfway # {}
=============================================================================
