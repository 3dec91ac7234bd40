----------------------------- MODULE OverlayFiles -----------------------------
(***************************************************************************)
(* What agent-overlayfs makes of names, of open files and of listings: the *)
(* inode table, the handles, readdir by offsets, symbolic links, and the   *)
(* fallback roots, the host's own directories that are shown where the     *)
(* three trees of the overlay have nothing.                                *)
(*                                                                         *)
(* One request is handled at a time and is one step here; PathOverlay has  *)
(* the steps inside a request, its failures and kills, and directories     *)
(* that are renamed.  The inode table gives every path one number for good *)
(* (intern) and a rename does not touch it, so a number is the path it was *)
(* given for: what the kernel holds of an open file is that path, wherever *)
(* the file has gone since.  The names of a request have just been looked  *)
(* up, component by component.                                             *)
(***************************************************************************)
EXTENDS Naturals, Sequences, FiniteSets, SequencesExt

CONSTANTS
  Paths,         \* the paths below the root, each a nonempty sequence of names
  Rank,          \* the paths in the order of their names: each one's number
  LowerTrees,    \* the snapshots to consider
  Hosts,         \* the host's trees to consider, with the --fallback-root arguments
  LinkTarget,    \* where symbolic links lead, within the tree they are in
  LinkNames,     \* the names a program gives to links
  Scanned,       \* the directories a program lists page by page
  Handles, Closed, Gone

ASSUME PathsAssumption ==
  /\ IsFiniteSet(Paths)
  /\ \A p \in Paths : p # <<>> /\ \A q \in Prefixes(p) : q # <<>> => q \in Paths
  /\ Paths \subseteq Seq(UNION {ToSet(p) : p \in Paths})
  /\ \A h \in Hosts : h.roots \subseteq Paths
  /\ LinkTarget \in Paths /\ LinkNames \subseteq Paths /\ Scanned \subseteq Paths
  /\ Rank \in [Paths -> Nat] /\ \A p, q \in Paths : Rank[p] = Rank[q] => p = q
  /\ Gone \notin Paths

VARIABLES
  roots,   \* the fallback roots
  host,    \* the host's files at the paths of the fallback roots
  lower,   \* the snapshot
  upper,   \* what the environment has created or changed
  white,   \* the whiteout tree: none, file, dir or marked (dir with marker)
  files,   \* the open files: the inode, and the stored file behind the handle
  scan,    \* a directory being listed: the offset, and what is still owed
  away     \* history: what unlink and rmdir have removed and nobody made again

trees == <<roots, host, lower, upper, white>>
vars == <<roots, host, lower, upper, white, files, scan, away>>

-----------------------------------------------------------------------------
(* Paths and nodes *)

Root == <<>>
Dirs == Paths \cup {Root}
Node == {"none", "dir", "link", "device", "original", "own"}
IsFile(v) == v \in {"original", "own"}

Parents == [p \in Paths |-> {q \in Paths : IsStrictPrefix(q, p)}]

(* In a tree, what is not there has nothing below it. *)
WellFormed(tree) ==
  \A p \in Paths : tree[p] # "none" => \A q \in Parents[p] : tree[q] = "dir"

(* Devices are the host's; the snapshot, a checkout, has none. *)
ASSUME TreesAssumption ==
  /\ LowerTrees \subseteq [Paths -> Node \ {"device"}]
  /\ \A h \in Hosts : h.tree \in [Paths -> Node] /\ WellFormed(h.tree)

Children ==
  [d \in Dirs |-> {q \in Paths : IsStrictPrefix(d, q) /\ Len(q) = Len(d) + 1}]

(* Path::exists follows a link, in the tree that holds it. *)
Exists(tree, p) ==
  /\ tree[p] # "none"
  /\ tree[p] = "link" => tree[LinkTarget] \notin {"none", "link"}

-----------------------------------------------------------------------------
(* The fallback roots.  A link of the host leads out of its root, or nowhere, *)
(* and is refused.                                                           *)

InRoot(p) == \E r \in roots : IsPrefix(r, p)
IsVirtualDir(p) == \E r \in roots : IsStrictPrefix(p, r)

HasFallback(p) == InRoot(p) /\ host[p] \notin {"none", "link"}
ShownByRoots(p) == HasFallback(p) \/ IsVirtualDir(p)

(* child_names: the next name towards each root. *)
RootNames(d) == {q \in Children[d] : \E r \in roots : IsPrefix(q, r)}

-----------------------------------------------------------------------------
(* Lookup and listing *)

Whiteouted(p) == white[p] \in {"file", "marked"}

(* Where a path is stored: the tree, or nowhere. *)
StoredIn(p) ==
  CASE Whiteouted(p)     -> "nowhere"
    [] ~Whiteouted(p) /\ Exists(upper, p) -> "upper"
    [] ~Whiteouted(p) /\ ~Exists(upper, p) /\ Exists(lower, p) -> "lower"
    [] OTHER -> IF HasFallback(p) THEN "host" ELSE "nowhere"

(* lookup_path, for a path whose parents are directories. *)
Lookup(p) ==
  CASE StoredIn(p) = "upper" -> upper[p]
    [] StoredIn(p) = "lower" -> lower[p]
    [] StoredIn(p) = "host"  -> host[p]
    [] OTHER -> IF IsVirtualDir(p) /\ ~Whiteouted(p) THEN "dir" ELSE "none"

View ==
  [p \in Paths |->
     IF \A q \in Parents[p] : Lookup(q) = "dir" THEN Lookup(p) ELSE "none"]

IsDir(d) == d # Root => View[d] = "dir"

(* merged_dir_entries refuses a directory that is a file in some tree. *)
Listable(d) ==
  d # Root => \A tree \in {lower, upper} : tree[d] \in {"none", "dir"}

FallbackListed(d) == d # Root /\ HasFallback(d) /\ host[d] = "dir"

(* Mutant: the names towards the roots are listed without regard to         *)
(* whiteouts.                                                                *)
EntriesWithRoots(d) ==
  {q \in Children[d] :
     \/ q \in RootNames(d)
     \/ /\ ~Whiteouted(q)
        /\ \/ lower[q] # "none" \/ upper[q] # "none"
           \/ FallbackListed(d) /\ host[q] # "none"}

Entries(d) ==
  {q \in Children[d] :
     /\ ~Whiteouted(q)
     /\ \/ lower[q] # "none" \/ upper[q] # "none"
        \/ FallbackListed(d) /\ host[q] # "none"
        \/ q \in RootNames(d)}

(* The entries are sorted by name, at every call. *)
Position(d, q) == Cardinality({r \in Entries(d) : Rank[r] <= Rank[q]})

(* The entries of d that follow the first offset ones, up to end. *)
Page(d, offset, end) ==
  {q \in Entries(d) : offset < Position(d, q) /\ Position(d, q) <= end}

-----------------------------------------------------------------------------
(* Changes to the trees *)

CanMakeParents(p) == \A q \in Parents[p] : upper[q] \in {"none", "dir"}

(* Mutant: the file is put where its directory may be missing.              *)
WithoutParents(tree, p) == tree

WithParents(tree, p) ==
  [q \in Paths |-> IF q \in Parents[p] THEN "dir" ELSE tree[q]]

AddWhiteout(p) ==
  [q \in Paths |->
     CASE q = p -> IF white[p] \in {"dir", "marked"} THEN "marked" ELSE "file"
       [] q \in Parents[p] -> IF white[q] = "none" THEN "dir" ELSE white[q]
       [] OTHER -> white[q]]

(* Mutant: the marker in a directory of whiteouts is left.                  *)
DropFileWhiteout(p) == [white EXCEPT ![p] = IF @ = "file" THEN "none" ELSE @]

DropWhiteout(p) ==
  [white EXCEPT ![p] = CASE @ = "file" -> "none"
                         [] @ = "marked" -> "dir"
                         [] OTHER -> @]

(* A file opened or created in the upper tree through a link is the link's. *)
Behind(p) == IF upper[p] = "link" THEN LinkTarget ELSE p

(* A dangling link is in the way of what should be made at its path. *)
CanStore(p) ==
  /\ CanMakeParents(p)
  /\ upper[p] # "dir"
  /\ upper[p] = "link" =>
       \/ IsFile(upper[LinkTarget])
       \/ upper[LinkTarget] = "none" /\ \A q \in Parents[LinkTarget] : upper[q] = "dir"

(***************************************************************************)
(* ensure_upper_for_write: the path in the upper tree, copied up from      *)
(* where it is, or a new empty file.                                       *)
(***************************************************************************)
IsDevice(p) == StoredIn(p) = "host" /\ host[p] = "device"

CopiedUp(p) ==
  CASE StoredIn(p) = "lower" -> lower[p]
    [] StoredIn(p) = "host"  -> host[p]
    [] OTHER -> "own"

(* Only a file is written through a link that leads nowhere yet. *)
CanEnsureUpper(p) ==
  \/ Exists(upper, p)
  \/ /\ CanStore(p) /\ ~IsDevice(p)
     /\ upper[p] = "link" => IsFile(CopiedUp(p))

EnsuredUpper(p) ==
  IF Exists(upper, p) THEN upper
  ELSE [WithParents(upper, p) EXCEPT ![Behind(p)] = CopiedUp(p)]

EnsuredWhite(p) == IF Exists(upper, p) THEN white ELSE DropWhiteout(p)

-----------------------------------------------------------------------------
(* Requests *)

NoScan == [dir |-> Root, offset |-> 0, owed |-> {}]

(* What becomes of the listing in progress: where an entry has gone, those   *)
(* after it have moved up, and nothing more is expected of it.               *)
SameScan ==
  \E d \in {scan.dir} : \E before \in {Entries(d)} :
    scan' = IF before \subseteq Entries(d)' THEN scan ELSE NoScan

OpenOn(h, p, mode, tree, at) ==
  files' = [files EXCEPT ![h] = [ino |-> p, mode |-> mode, tree |-> tree, at |-> at]]

InUpper(h, p) == files[h] # Closed /\ files[h].tree = "upper" /\ files[h].at = p

(* A handle follows its file, also one that no longer has a name. *)
Followed(from, to) ==
  [h \in Handles |->
     CASE InUpper(h, from) -> [files[h] EXCEPT !.at = to]
       [] InUpper(h, to) /\ to # Gone -> [files[h] EXCEPT !.at = Gone]
       [] OTHER -> files[h]]

(***************************************************************************)
(* setattr of an inode.  The upper file is truncated, a mode is set on it, *)
(* or, with neither, nothing more is done.  A file that is open has its    *)
(* name again, and the directories above it that no whiteout hides.        *)
(***************************************************************************)
Setattr(ino, truncate) ==
  /\ CanEnsureUpper(ino)
  /\ LET made == EnsuredUpper(ino)
         at == Behind(ino)
     IN  /\ truncate => IsFile(made[at])
         /\ upper' = IF truncate THEN [made EXCEPT ![at] = "own"] ELSE made
         /\ white' = EnsuredWhite(ino)
  /\ away' = away \ ({ino, Behind(ino)} \cup {q \in Parents[ino] : ~Whiteouted(q)})
  /\ UNCHANGED <<roots, host, lower, files>>
  /\ SameScan

SetattrByName(p, truncate) ==
  /\ IsFile(View[p]) \/ (View[p] = "dir" /\ ~truncate)
  /\ Setattr(p, truncate)

(* ftruncate, fchmod: the kernel sends the inode of the open file. *)
SetattrByHandle(h, truncate) ==
  /\ files[h] # Closed
  /\ truncate => files[h].mode = "write"
  /\ Setattr(files[h].ino, truncate)

(* A device is not copied up; the parents have been made by then. *)
SetattrRefused(p) ==
  /\ View[p] = "device" \/ \E h \in Handles : files[h] # Closed /\ files[h].ino = p
  /\ IsDevice(p) /\ ~Exists(upper, p) /\ CanMakeParents(p)
  /\ upper' = WithParents(upper, p)
  /\ UNCHANGED <<roots, host, lower, white, files, away>>
  /\ SameScan

OpenForReading(h, p) ==
  /\ files[h] = Closed
  /\ IsFile(View[p]) \/ View[p] = "device"
  /\ OpenOn(h, p, "read", StoredIn(p), p)
  /\ UNCHANGED <<trees, scan, away>>

(* Mutant: what a fallback root has is opened where it is.                  *)
OpenForWritingAnywhere(h, p, truncate) ==
  /\ files[h] = Closed
  /\ IsFile(View[p]) \/ View[p] = "device"
  /\ IF HasFallback(p)
     THEN OpenOn(h, p, "write", "host", p) /\ UNCHANGED <<upper, white>>
     ELSE /\ CanEnsureUpper(p)
          /\ upper' = IF truncate THEN [EnsuredUpper(p) EXCEPT ![Behind(p)] = "own"]
                      ELSE EnsuredUpper(p)
          /\ white' = EnsuredWhite(p)
          /\ OpenOn(h, p, "write", "upper", Behind(p))
  /\ away' = away \ {p, Behind(p)}
  /\ UNCHANGED <<roots, host, lower>>
  /\ SameScan

(* Only devices of the fallback roots are written where they are. *)
OpenForWriting(h, p, truncate) ==
  /\ files[h] = Closed
  /\ IsFile(View[p]) \/ View[p] = "device"
  /\ IF HasFallback(p) /\ host[p] = "device"
     THEN OpenOn(h, p, "write", "host", p) /\ UNCHANGED <<upper, white>>
     ELSE /\ CanEnsureUpper(p)
          /\ upper' = IF truncate THEN [EnsuredUpper(p) EXCEPT ![Behind(p)] = "own"]
                      ELSE EnsuredUpper(p)
          /\ white' = EnsuredWhite(p)
          /\ OpenOn(h, p, "write", "upper", Behind(p))
  /\ away' = away \ {p, Behind(p)}
  /\ UNCHANGED <<roots, host, lower>>
  /\ SameScan

(* The data goes to the stored file behind the handle. *)
Write(h) ==
  /\ files[h] # Closed /\ files[h].mode = "write" /\ files[h].at # Gone
  /\ CASE files[h].tree = "upper" ->
            upper' = [upper EXCEPT ![files[h].at] = "own"] /\ UNCHANGED host
       [] OTHER ->
            /\ host' = [host EXCEPT ![files[h].at] = IF @ = "device" THEN @ ELSE "own"]
            /\ UNCHANGED upper
  /\ UNCHANGED <<roots, lower, white, files, scan, away>>

Release(h) ==
  /\ files[h] # Closed
  /\ files' = [files EXCEPT ![h] = Closed]
  /\ UNCHANGED <<trees, scan, away>>

(* A name that is free, in a directory. *)
IsFree(p) == View[p] = "none" /\ \A q \in Parents[p] : View[q] = "dir"

(* An upper file that a whiteout hides is opened as it is. *)
Create(h, p, truncate) ==
  /\ files[h] = Closed
  /\ IsFree(p) /\ CanStore(p)
  /\ upper' = [WithParents(upper, p) EXCEPT
                 ![Behind(p)] = IF @ = "none" \/ truncate THEN "own" ELSE @]
  /\ white' = DropWhiteout(p)
  /\ away' = away \ {p, Behind(p)}
  /\ OpenOn(h, p, "write", "upper", Behind(p))
  /\ UNCHANGED <<roots, host, lower>>
  /\ SameScan

(* mkdir, and symlink below, find what is at the path hidden or not. *)
Mkdir(p) ==
  /\ IsFree(p) /\ CanMakeParents(p) /\ upper[p] = "none"
  /\ upper' = [WithParents(upper, p) EXCEPT ![p] = "dir"]
  /\ white' = DropWhiteout(p)
  /\ away' = away \ {p}
  /\ UNCHANGED <<roots, host, lower, files>>
  /\ SameScan

Symlink(p) ==
  /\ IsFree(p) /\ CanMakeParents(p) /\ upper[p] = "none"
  /\ upper' = [WithParents(upper, p) EXCEPT ![p] = "link"]
  /\ white' = DropWhiteout(p)
  /\ away' = away \ {p}
  /\ UNCHANGED <<roots, host, lower, files>>
  /\ SameScan

(* Mutant: only what the snapshot has is whiteouted.                         *)
WhiteoutIfLower(p) == lower[p] # "none"

ShouldWhiteout(p) == lower[p] # "none" \/ ShownByRoots(p)

RemoveName(p) ==
  /\ upper[p] # "none" \/ ShouldWhiteout(p)
  /\ upper' = [upper EXCEPT ![p] = "none"]
  /\ white' = IF ShouldWhiteout(p) THEN AddWhiteout(p) ELSE DropWhiteout(p)
  /\ away' = away \cup {p}
  /\ UNCHANGED <<roots, host, lower>>
  /\ SameScan

Unlink(p) ==
  /\ View[p] \notin {"none", "dir"}
  /\ files' = Followed(p, Gone)
  /\ RemoveName(p)

Rmdir(p) ==
  /\ View[p] = "dir" /\ Listable(p) /\ Entries(p) = {}
  /\ \A q \in Children[p] : upper[q] = "none"
  /\ RemoveName(p)
  /\ UNCHANGED files

(***************************************************************************)
(* rename, of what is not a directory.  An upper file moves; one of the    *)
(* snapshot is copied, into the file at the new path if one is there; one  *)
(* of a fallback root is not found, after the parents have been made.      *)
(***************************************************************************)
RenameUpper(from, to) ==
  /\ Exists(upper, from)
  /\ upper' = [WithParents(upper, to) EXCEPT ![to] = upper[from], ![from] = "none"]
  /\ files' = Followed(from, to)
  /\ LET revealed == DropWhiteout(to)
     IN  white' = IF Exists(lower, from)
                  THEN [AddWhiteout(from) EXCEPT ![to] = revealed[to]]
                  ELSE revealed

RenameLower(from, to) ==
  /\ StoredIn(from) = "lower"
  /\ CanStore(to)
  /\ lower[from] = "link" => upper[to] = "none"
  /\ upper' = [WithParents(upper, to) EXCEPT ![Behind(to)] = lower[from]]
  /\ white' = [AddWhiteout(from) EXCEPT ![to] = DropWhiteout(to)[to]]
  /\ UNCHANGED files

Renames(from, to) ==
  /\ from # to
  /\ View[from] \notin {"none", "dir"}
  /\ View[to] # "dir" /\ \A q \in Parents[to] : View[q] = "dir"
  /\ CanMakeParents(to) /\ upper[to] # "dir"

Rename(from, to) ==
  /\ Renames(from, to)
  /\ RenameUpper(from, to) \/ RenameLower(from, to)
  /\ away' = (away \ {to, Behind(to)}) \cup (IF ShownByRoots(from) THEN {} ELSE {from})
  /\ UNCHANGED <<roots, host, lower>>
  /\ SameScan

RenameRefused(from, to) ==
  /\ Renames(from, to)
  /\ StoredIn(from) = "host"
  /\ upper' = WithParents(upper, to)
  /\ UNCHANGED <<roots, host, lower, white, files, away>>
  /\ SameScan

-----------------------------------------------------------------------------
(* Listing a directory *)

OpenDir(d) ==
  /\ IsDir(d) /\ Listable(d)
  /\ scan = NoScan
  /\ scan' = [dir |-> d, offset |-> 0, owed |-> Entries(d)]
  /\ UNCHANGED <<trees, files, away>>

(* Where a page of so many entries ends. *)
PageEnd(count) ==
  LET total == Cardinality(Entries(scan.dir))
  IN  IF scan.offset + count < total THEN scan.offset + count ELSE total

(* Mutant: a page starts after the entry the last page ended before.        *)
ReadDirPast(count) ==
  /\ scan # NoScan
  /\ Listable(scan.dir)
  /\ scan.offset < Cardinality(Entries(scan.dir))
  /\ scan' = [dir |-> scan.dir, offset |-> PageEnd(count) + 1,
              owed |-> scan.owed \ Page(scan.dir, scan.offset, PageEnd(count))]
  /\ UNCHANGED <<trees, files, away>>

(* readdir at an offset: as many entries as the reply has room for. *)
ReadDir(count) ==
  /\ scan # NoScan
  /\ Listable(scan.dir)
  /\ scan.offset < Cardinality(Entries(scan.dir))
  /\ scan' = [dir |-> scan.dir, offset |-> PageEnd(count),
              owed |-> scan.owed \ Page(scan.dir, scan.offset, PageEnd(count))]
  /\ UNCHANGED <<trees, files, away>>

(* The last page was empty, or the program has seen enough. *)
CloseDir ==
  /\ scan # NoScan
  /\ scan' = NoScan
  /\ UNCHANGED <<trees, files, away>>

-----------------------------------------------------------------------------

Init ==
  /\ \E h \in Hosts : host = h.tree /\ roots = {r \in h.roots : h.tree[r] # "none"}
  /\ lower \in LowerTrees
  /\ upper = [p \in Paths |-> "none"]
  /\ white = [p \in Paths |-> "none"]
  /\ files = [h \in Handles |-> Closed]
  /\ scan = NoScan
  /\ away = {}

Next ==
  \/ \E p \in Paths :
       \/ \E truncate \in BOOLEAN :
            \/ SetattrByName(p, truncate)
            \/ \E h \in Handles : OpenForWriting(h, p, truncate) \/ Create(h, p, truncate)
       \/ \E h \in Handles : OpenForReading(h, p)
       \/ SetattrRefused(p) \/ Mkdir(p)
       \/ Unlink(p) \/ Rmdir(p)
       \/ \E to \in Paths : Rename(p, to) \/ RenameRefused(p, to)
  \/ \E h \in Handles :
       \/ Write(h) \/ Release(h)
       \/ \E truncate \in BOOLEAN : SetattrByHandle(h, truncate)
  \/ \E p \in LinkNames : Symlink(p)
  \/ \E d \in Scanned : OpenDir(d)
  \/ \E count \in 1..2 : ReadDir(count)
  \/ CloseDir

Spec == Init /\ [][Next]_vars

-----------------------------------------------------------------------------
(* Properties *)

FilesTypeOK ==
  /\ roots \subseteq Paths
  /\ host \in [Paths -> Node] /\ lower \in [Paths -> Node]
  /\ upper \in [Paths -> Node \ {"device"}] /\ WellFormed(upper)
  /\ white \in [Paths -> {"none", "file", "dir", "marked"}]
  /\ \A h \in Handles : files[h] # Closed =>
       /\ files[h].ino \in Paths /\ files[h].mode \in {"read", "write"}
       /\ files[h].at \in Paths \cup {Gone}
       /\ InUpper(h, files[h].at) /\ files[h].at # Gone => IsFile(upper[files[h].at])
  /\ scan.dir \in Dirs /\ scan.owed \subseteq Children[scan.dir]
  /\ away \subseteq Paths

(* Whatever is done in the environment, the snapshot and the host's files    *)
(* under the fallback roots stay as they are.                                *)
HostAndSnapshotUntouched == [][UNCHANGED <<host, lower>>]_vars

(* readdir and lookup agree: a directory lists the names that a lookup finds *)
(* in it, and no other but links that lead nowhere in their own tree.        *)
DeadLink(q) == "link" \in {host[q], lower[q], upper[q]} /\ View[q] = "none"

ListingIsLookup ==
  \A d \in Dirs : IsDir(d) /\ Listable(d) =>
    {q \in Entries(d) : ~DeadLink(q)} = {q \in Children[d] : View[q] # "none"}

(* What has been removed stays away until a request makes it again: neither  *)
(* the snapshot nor a fallback root shows through, also when the directory   *)
(* it was in is removed and made again.                                      *)
RemovedStaysAway == \A p \in away : View[p] = "none"

(* A file that is open for writing is the one its name shows, but for one    *)
(* that may have been opened through a link.                                 *)
OpenFilesAreSeen ==
  \A h \in Handles :
    (files[h] # Closed /\ files[h].mode = "write" /\ files[h].tree = "upper"
       /\ files[h].at \notin {Gone, LinkTarget}) => View[files[h].at] = upper[files[h].at]

(* A listing read page by page has every name that was there throughout,     *)
(* unless one was removed in between.                                        *)
ScanMissesNothing ==
  (scan # NoScan /\ scan.offset >= Cardinality(Entries(scan.dir))) => scan.owed = {}
=============================================================================
