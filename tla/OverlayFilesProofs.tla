-------------------------- MODULE OverlayFilesProofs --------------------------
(***************************************************************************)
(* Proofs about OverlayFiles, for any snapshot, any host with any fallback *)
(* roots, any number of open files, and any requests in any order.         *)
(*                                                                         *)
(* What is removed stays away because it is under a whiteout of its own or *)
(* because nothing else has it (AwayOK); no directory that is made for     *)
(* another path brings it back, since such a directory is seen already.    *)
(* An open file is seen because no whiteout is put at its path or at a     *)
(* directory above it while the upper tree has it there (HandleOK).        *)
(* A listing in pages misses nothing because what it still owes is beyond  *)
(* its offset, also after entries have been added (ScanInv).               *)
(***************************************************************************)
EXTENDS OverlayFiles, FiniteSetTheorems, TLAPS

-----------------------------------------------------------------------------
(* Paths *)

Names == UNION {ToSet(p) : p \in Paths}

LEMMA PathsAreSequences == \A p \in Paths : p \in Seq(Names) /\ p # <<>>
BY PathsAssumption DEF Names

LEMMA PrefixElements ==
  ASSUME NEW S, NEW s \in Seq(S), NEW t \in Seq(S)
  PROVE  IsPrefix(s, t) <=> Len(s) <= Len(t) /\ \A i \in 1..Len(s) : s[i] = t[i]
<1>1. ASSUME Len(s) <= Len(t)
      PROVE  SubSeq(s, 1, Len(s)) = SubSeq(t, 1, Len(s)) <=> \A i \in 1..Len(s) : s[i] = t[i]
  <2>1. SubSeq(s, 1, Len(s)) = [i \in 1..Len(s) |-> s[i]]
    OBVIOUS
  <2>2. SubSeq(t, 1, Len(s)) = [i \in 1..Len(s) |-> t[i]]
    BY <1>1
  <2> QED BY <2>1, <2>2
<1> QED BY <1>1 DEF IsPrefix

LEMMA SequencesEqual ==
  ASSUME NEW S, NEW s \in Seq(S), NEW t \in Seq(S)
  PROVE  s = t <=> Len(s) = Len(t) /\ \A i \in 1..Len(s) : s[i] = t[i]
OBVIOUS

LEMMA ParentElements ==
  ASSUME NEW p \in Paths, NEW q \in Paths
  PROVE  /\ q \in Parents[p] <=> Len(q) < Len(p) /\ \A i \in 1..Len(q) : q[i] = p[i]
         /\ IsStrictPrefix(q, p) <=> q \in Parents[p]
         /\ IsPrefix(q, p) <=> q = p \/ q \in Parents[p]
<1> /\ p \in Seq(Names)
    /\ q \in Seq(Names)
  BY PathsAreSequences
<1>1. IsPrefix(q, p) <=> Len(q) <= Len(p) /\ \A i \in 1..Len(q) : q[i] = p[i]
  BY PrefixElements
<1>2. q = p <=> Len(q) = Len(p) /\ \A i \in 1..Len(q) : q[i] = p[i]
  BY SequencesEqual
<1>3. Len(p) \in Nat /\ Len(q) \in Nat
  OBVIOUS
<1>4. IsStrictPrefix(q, p) <=> q \in Parents[p]
  BY DEF Parents
<1> QED BY <1>1, <1>2, <1>3, <1>4 DEF IsStrictPrefix

LEMMA ParentsArePaths == \A p \in Paths : Parents[p] \subseteq Paths /\ p \notin Parents[p]
BY DEF Parents, IsStrictPrefix

LEMMA ParentsTransitive ==
  ASSUME NEW p \in Paths, NEW q \in Parents[p], NEW r \in Parents[q]
  PROVE  r \in Parents[p]
<1>1. q \in Paths /\ r \in Paths
  BY ParentsArePaths
<1>2. /\ Len(q) < Len(p) /\ \A i \in 1..Len(q) : q[i] = p[i]
      /\ Len(r) < Len(q) /\ \A i \in 1..Len(r) : r[i] = q[i]
  BY <1>1, ParentElements
<1>3. Len(p) \in Nat /\ Len(q) \in Nat /\ Len(r) \in Nat
  BY <1>1, PathsAreSequences
<1>4. Len(r) < Len(p) /\ \A i \in 1..Len(r) : r[i] = p[i]
  BY <1>2, <1>3
<1> QED BY <1>1, <1>4, ParentElements

(* The directories above one path are above each other. *)
LEMMA ParentsAreChain ==
  ASSUME NEW p \in Paths, NEW q \in Parents[p], NEW r \in Parents[p]
  PROVE  q = r \/ q \in Parents[r] \/ r \in Parents[q]
<1>1. q \in Paths /\ r \in Paths
  BY ParentsArePaths
<1>2. p \in Seq(Names) /\ q \in Seq(Names) /\ r \in Seq(Names)
  BY <1>1, PathsAreSequences
<1>3. /\ Len(q) < Len(p) /\ \A i \in 1..Len(q) : q[i] = p[i]
      /\ Len(r) < Len(p) /\ \A i \in 1..Len(r) : r[i] = p[i]
  BY <1>1, ParentElements
<1>4. Len(p) \in Nat /\ Len(q) \in Nat /\ Len(r) \in Nat
  BY <1>2
<1>5. CASE Len(q) < Len(r)
  <2>1. \A i \in 1..Len(q) : q[i] = r[i]
    BY <1>3, <1>4, <1>5
  <2> QED BY <1>1, <1>5, <2>1, ParentElements
<1>6. CASE Len(r) < Len(q)
  <2>1. \A i \in 1..Len(r) : r[i] = q[i]
    BY <1>3, <1>4, <1>6
  <2> QED BY <1>1, <1>6, <2>1, ParentElements
<1>7. CASE Len(q) = Len(r)
  <2>1. \A i \in 1..Len(q) : q[i] = r[i]
    BY <1>3, <1>4, <1>7
  <2> QED BY <1>2, <1>7, <2>1, SequencesEqual
<1> QED BY <1>4, <1>5, <1>6, <1>7

LEMMA ChildrenOfRoot == \A c \in Children[Root] : c \in Paths /\ Parents[c] = {}
<1> SUFFICES ASSUME NEW c \in Children[Root]
             PROVE  c \in Paths /\ Parents[c] = {}
  OBVIOUS
<1>1. c \in Paths /\ Len(c) = 1
  BY DEF Children, Root, Dirs
<1>2. ASSUME NEW q \in Parents[c]
      PROVE  FALSE
  <2>1. q \in Paths /\ Len(q) < 1
    BY <1>1, ParentsArePaths, ParentElements
  <2>2. q \in Seq(Names) /\ q # <<>>
    BY <2>1, PathsAreSequences
  <2> QED BY <2>1, <2>2
<1> QED BY <1>1, <1>2

LEMMA ChildrenOfDirectory ==
  ASSUME NEW d \in Paths, NEW c \in Children[d]
  PROVE  c \in Paths /\ Parents[c] = Parents[d] \cup {d}
<1>1. c \in Paths /\ IsStrictPrefix(d, c) /\ Len(c) = Len(d) + 1
  BY DEF Children, Dirs
<1>2. d \in Parents[c]
  BY <1>1, ParentElements
<1>3. ASSUME NEW q \in Parents[d]
      PROVE  q \in Parents[c]
  BY <1>1, <1>2, ParentsTransitive
<1>4. ASSUME NEW q \in Parents[c]
      PROVE  q = d \/ q \in Parents[d]
  <2>1. q \in Paths /\ Len(q) < Len(d) + 1
    BY <1>1, ParentsArePaths, ParentElements
  <2>2. Len(q) \in Nat /\ Len(d) \in Nat
    BY <2>1, PathsAreSequences
  <2>3. d \in Parents[q] => Len(d) < Len(q)
    BY <2>1, ParentElements
  <2> QED BY <1>1, <1>2, <2>1, <2>2, <2>3, ParentsAreChain
<1> QED BY <1>1, <1>2, <1>3, <1>4

LEMMA ChildOnTheWay ==
  ASSUME NEW p \in Paths, NEW q \in Paths, p \in Parents[q]
  PROVE  \E c \in Children[p] : c \in Paths /\ (c = q \/ c \in Parents[q])
<1> DEFINE c == SubSeq(q, 1, Len(p) + 1)
<1>1. p \in Seq(Names) /\ q \in Seq(Names) /\ p # <<>>
  BY PathsAreSequences
<1>2. Len(p) \in Nat /\ Len(q) \in Nat /\ Len(p) < Len(q) /\ \A i \in 1..Len(p) : p[i] = q[i]
  BY <1>1, ParentElements
<1>3. /\ c \in Seq(Names) /\ Len(c) = Len(p) + 1
      /\ \A i \in 1..Len(c) : c[i] = q[i]
  BY <1>1, <1>2
<1>4. c \in Paths
  <2>1. c \in Prefixes(q)
    BY <1>2 DEF Prefixes
  <2>2. c # <<>>
    BY <1>2, <1>3
  <2> QED BY <2>1, <2>2, PathsAssumption
<1> HIDE DEF c
<1>5. IsPrefix(c, q)
  BY <1>1, <1>2, <1>3, PrefixElements
<1>6. IsPrefix(p, c) /\ p # c
  BY <1>1, <1>2, <1>3, PrefixElements
<1>7. c \in Children[p]
  BY <1>3, <1>4, <1>6 DEF Children, Dirs, IsStrictPrefix
<1> QED BY <1>4, <1>5, <1>7, ParentElements

-----------------------------------------------------------------------------
(* The invariant *)

Whites == {"none", "file", "dir", "marked"}
Stored == Node \ {"device"}

Hides(w, p) == w[p] \in {"file", "marked"}

(* What no request changes. *)
BelowOK ==
  /\ roots \subseteq Paths
  /\ host \in [Paths -> Node] /\ WellFormed(host)
  /\ \A r \in roots : host[r] # "none"
  /\ lower \in [Paths -> Stored]

TreesOK ==
  /\ upper \in [Paths -> Stored] /\ WellFormed(upper)
  /\ white \in [Paths -> Whites]

Handle == [ino : Paths, mode : {"read", "write"},
           tree : {"upper", "lower", "host", "nowhere"}, at : Paths \cup {Gone}]

(* The file behind a handle, in the trees up, wh and ho.  A file open for    *)
(* writing is in the upper tree and seen there, or it is a device.           *)
HandleOK(f, up, wh, ho) ==
  /\ f \in Handle
  /\ f.tree = "upper" /\ f.at # Gone => IsFile(up[f.at])
  /\ f.mode = "write" =>
       \/ f.tree = "upper"
       \/ f.tree = "host" /\ f.at \in Paths /\ ho[f.at] = "device"
  /\ f.mode = "write" /\ f.tree = "upper" /\ f.at \notin {Gone, LinkTarget} =>
       \A q \in Parents[f.at] \cup {f.at} : ~Hides(wh, q)

FilesOK ==
  /\ DOMAIN files = Handles
  /\ \A h \in Handles : files[h] # Closed => HandleOK(files[h], upper, white, host)

(* What has been removed is under a whiteout, or nothing else has it. *)
AwayOK(p) ==
  \/ Whiteouted(p)
  \/ upper[p] = "none" /\ ~Exists(lower, p) /\ ~ShownByRoots(p)

ScanOK == scan.dir \in Dirs /\ scan.owed \subseteq Children[scan.dir]

Inv ==
  /\ BelowOK
  /\ TreesOK
  /\ FilesOK
  /\ away \subseteq Paths /\ \A p \in away : AwayOK(p)
  /\ ScanOK

-----------------------------------------------------------------------------
(* What is seen *)

LEMMA HiddenIsWhiteouted == \A p : Whiteouted(p) <=> Hides(white, p)
BY DEF Whiteouted, Hides

LEMMA RootsFacts ==
  ASSUME BelowOK, NEW p \in Paths
  PROVE  /\ InRoot(p) <=> \E r \in roots : r = p \/ r \in Parents[p]
         /\ IsVirtualDir(p) <=> \E r \in roots : p \in Parents[r]
BY ParentElements DEF BelowOK, InRoot, IsVirtualDir

LEMMA LookupFacts ==
  ASSUME NEW p \in Paths, Lookup(p) # "none"
  PROVE  /\ ~Whiteouted(p)
         /\ \/ Exists(upper, p) /\ StoredIn(p) = "upper" /\ Lookup(p) = upper[p]
            \/ ~Exists(upper, p) /\ Exists(lower, p) /\ StoredIn(p) = "lower"
               /\ Lookup(p) = lower[p]
            \/ ~Exists(upper, p) /\ ~Exists(lower, p) /\ StoredIn(p) = "host"
               /\ HasFallback(p) /\ Lookup(p) = host[p]
            \/ ~Exists(upper, p) /\ ~Exists(lower, p) /\ StoredIn(p) = "nowhere"
               /\ IsVirtualDir(p) /\ Lookup(p) = "dir"
BY DEF Lookup, StoredIn

LEMMA ViewFacts ==
  ASSUME NEW p \in Paths, View[p] # "none"
  PROVE  /\ View[p] = Lookup(p)
         /\ \A q \in Parents[p] : View[q] = "dir" /\ ~Whiteouted(q)
<1>1. View[p] = Lookup(p) /\ \A q \in Parents[p] : Lookup(q) = "dir"
  BY DEF View
<1>2. ASSUME NEW q \in Parents[p]
      PROVE  View[q] = "dir" /\ ~Whiteouted(q)
  <2>1. q \in Paths /\ \A r \in Parents[q] : r \in Parents[p]
    BY ParentsArePaths, ParentsTransitive
  <2>2. View[q] = Lookup(q) /\ Lookup(q) = "dir"
    BY <1>1, <2>1 DEF View
  <2> QED BY <2>1, <2>2, LookupFacts
<1> QED BY <1>1, <1>2

LEMMA AwayIsHidden ==
  ASSUME NEW p \in Paths, AwayOK(p)
  PROVE  View[p] = "none"
<1>1. Lookup(p) = "none"
  BY DEF AwayOK, Lookup, StoredIn, Exists, ShownByRoots
<1> QED BY <1>1 DEF View

(* A stored file with no whiteout at it or above it is what its name shows. *)
LEMMA StoredIsSeen ==
  ASSUME TreesOK, NEW p \in Paths, IsFile(upper[p]),
         \A q \in Parents[p] \cup {p} : ~Hides(white, q)
  PROVE  View[p] = upper[p]
<1>1. ASSUME NEW q \in Paths, ~Hides(white, q), upper[q] \notin {"none", "link"}
      PROVE  Lookup(q) = upper[q]
  BY <1>1 DEF Hides, Whiteouted, Lookup, StoredIn, Exists
<1>2. Lookup(p) = upper[p]
  BY <1>1 DEF IsFile
<1>3. ASSUME NEW q \in Parents[p]
      PROVE  Lookup(q) = "dir"
  <2>1. q \in Paths /\ upper[q] = "dir"
    BY ParentsArePaths DEF TreesOK, WellFormed, IsFile
  <2> QED BY <1>1, <2>1
<1> QED BY <1>2, <1>3 DEF View

-----------------------------------------------------------------------------
(* The changes to the trees *)

LEMMA ParentsMade ==
  ASSUME TreesOK, NEW p \in Paths, CanMakeParents(p)
  PROVE  /\ WithParents(upper, p) \in [Paths -> Stored] /\ WellFormed(WithParents(upper, p))
         /\ \A x \in Paths : WithParents(upper, p)[x]
                               = IF x \in Parents[p] THEN "dir" ELSE upper[x]
         /\ \A x \in Paths : upper[x] # "none" => WithParents(upper, p)[x] = upper[x]
<1> DEFINE new == WithParents(upper, p)
<1>1. \A x \in Paths : new[x] = IF x \in Parents[p] THEN "dir" ELSE upper[x]
  BY DEF WithParents
<1>2. new \in [Paths -> Stored]
  BY DEF WithParents, TreesOK, Stored, Node
<1>3. \A x \in Paths : upper[x] # "none" => new[x] = upper[x]
  BY <1>1 DEF CanMakeParents
<1>4. ASSUME NEW x \in Paths, new[x] # "none", NEW q \in Parents[x]
      PROVE  new[q] = "dir"
  <2>1. q \in Paths
    BY ParentsArePaths
  <2>2. CASE x \in Parents[p]
    BY <1>1, <2>1, <2>2, ParentsTransitive
  <2>3. CASE x \notin Parents[p]
    BY <1>1, <1>3, <1>4, <2>1, <2>3 DEF TreesOK, WellFormed
  <2> QED BY <2>2, <2>3
<1> QED BY <1>1, <1>2, <1>3, <1>4 DEF WellFormed

(* Something is put at a path, or at the target of the link that is there. *)
LEMMA Put ==
  ASSUME TreesOK, NEW p \in Paths, CanStore(p), NEW v \in Stored \ {"none"}
  PROVE  LET new == [WithParents(upper, p) EXCEPT ![Behind(p)] = v]
         IN  /\ new \in [Paths -> Stored] /\ WellFormed(new)
             /\ Behind(p) \in Paths
             /\ upper[Behind(p)] = "none" \/ IsFile(upper[Behind(p)])
             /\ WithParents(upper, p)[Behind(p)] = upper[Behind(p)]
             /\ new[Behind(p)] = v
             /\ \A x \in Paths : x # Behind(p) /\ upper[x] # "none" => new[x] = upper[x]
             /\ \A x \in Paths : upper[x] = "none" /\ new[x] # "none" =>
                                   x \in Parents[p] \cup {Behind(p)}
<1> DEFINE mid == WithParents(upper, p)
           b == Behind(p)
           new == [mid EXCEPT ![b] = v]
<1>1. /\ mid \in [Paths -> Stored] /\ WellFormed(mid)
      /\ \A x \in Paths : mid[x] = IF x \in Parents[p] THEN "dir" ELSE upper[x]
      /\ \A x \in Paths : upper[x] # "none" => mid[x] = upper[x]
  BY ParentsMade DEF CanStore
<1>2. /\ b \in Paths
      /\ upper[b] = "none" \/ IsFile(upper[b])
      /\ \A q \in Parents[b] : mid[q] = "dir"
      /\ b \notin Parents[p]
  <2>1. CASE upper[p] = "link"
    <3>1. b = LinkTarget /\ b \in Paths
      BY <2>1, PathsAssumption DEF Behind
    <3>2. upper[b] = "none" \/ IsFile(upper[b])
      BY <2>1, <3>1 DEF CanStore
    <3>3. \A q \in Parents[b] : upper[q] = "dir"
      BY <2>1, <3>1 DEF CanStore, TreesOK, WellFormed, IsFile
    <3>4. b \notin Parents[p]
      BY <2>1, <3>2 DEF TreesOK, WellFormed, IsFile
    <3> QED BY <1>1, <3>1, <3>2, <3>3, <3>4, ParentsArePaths
  <2>2. CASE upper[p] # "link"
    <3>1. b = p
      BY <2>2 DEF Behind
    <3>2. upper[p] = "none" \/ IsFile(upper[p])
      BY <2>2 DEF CanStore, TreesOK, Stored, Node, IsFile
    <3> QED BY <1>1, <3>1, <3>2, ParentsArePaths
  <2> QED BY <2>1, <2>2
<1>3. mid[b] = upper[b]
  BY <1>1, <1>2
<1> HIDE DEF mid, b
<1>4. new \in [Paths -> Stored] /\ new[b] = v /\ \A x \in Paths : x # b => new[x] = mid[x]
  BY <1>1, <1>2
<1>5. ASSUME NEW x \in Paths, new[x] # "none", NEW q \in Parents[x]
      PROVE  new[q] = "dir"
  <2>1. q \in Paths
    BY ParentsArePaths
  <2>2. CASE x = b
    <3>1. q # b
      BY <2>2, ParentsArePaths
    <3> QED BY <1>2, <1>4, <2>1, <2>2, <3>1
  <2>3. CASE x # b
    <3>1. mid[q] = "dir"
      BY <1>1, <1>4, <1>5, <2>3 DEF WellFormed
    <3>2. q # b
      BY <1>2, <1>3, <3>1 DEF IsFile
    <3> QED BY <1>4, <2>1, <3>1, <3>2
  <2> QED BY <2>2, <2>3
<1>6. WellFormed(new)
  BY <1>5 DEF WellFormed
<1>7. \A x \in Paths : x # b /\ upper[x] # "none" => new[x] = upper[x]
  BY <1>1, <1>4
<1>8. \A x \in Paths : upper[x] = "none" /\ new[x] # "none" => x \in Parents[p] \cup {b}
  BY <1>1, <1>4
<1>9. /\ b = Behind(p)
      /\ mid = WithParents(upper, p)
  BY DEF b, mid
<1> QED BY <1>2, <1>3, <1>4, <1>6, <1>7, <1>8, <1>9

LEMMA Dropped ==
  ASSUME TreesOK, NEW p \in Paths
  PROVE  /\ DropWhiteout(p) \in [Paths -> Whites]
         /\ ~Hides(DropWhiteout(p), p)
         /\ \A x \in Paths : Hides(DropWhiteout(p), x) => Hides(white, x)
         /\ \A x \in Paths : x # p => (Hides(DropWhiteout(p), x) <=> Hides(white, x))
BY DEF DropWhiteout, TreesOK, Whites, Hides

LEMMA Added ==
  ASSUME TreesOK, NEW p \in Paths
  PROVE  /\ AddWhiteout(p) \in [Paths -> Whites]
         /\ Hides(AddWhiteout(p), p)
         /\ \A x \in Paths : x # p => (Hides(AddWhiteout(p), x) <=> Hides(white, x))
<1> DEFINE Marked(q) ==
      CASE q = p -> IF white[p] \in {"dir", "marked"} THEN "marked" ELSE "file"
        [] q \in Parents[p] -> IF white[q] = "none" THEN "dir" ELSE white[q]
        [] OTHER -> white[q]
<1>1. AddWhiteout(p) = [q \in Paths |-> Marked(q)]
  BY DEF AddWhiteout
<1>2. p \notin Parents[p]
  BY ParentsArePaths
<1>3. Marked(p) \in {"file", "marked"}
  BY <1>2
<1>4. ASSUME NEW q \in Paths, q # p
      PROVE  /\ Marked(q) \in Whites
             /\ Marked(q) \in {"file", "marked"} <=> white[q] \in {"file", "marked"}
  <2>1. white[q] \in Whites
    BY DEF TreesOK
  <2>2. CASE q \in Parents[p]
    <3>1. Marked(q) = IF white[q] = "none" THEN "dir" ELSE white[q]
      BY <1>4, <2>2
    <3> QED BY <2>1, <3>1 DEF Whites
  <2>3. CASE q \notin Parents[p]
    <3>1. Marked(q) = white[q]
      BY <1>4, <2>3
    <3> QED BY <2>1, <3>1
  <2> QED BY <2>2, <2>3
<1> HIDE DEF Marked
<1> QED BY <1>1, <1>3, <1>4 DEF Hides, Whites

(* Copying up adds to the upper tree and takes nothing away. *)
LEMMA Ensured ==
  ASSUME BelowOK, TreesOK, NEW p \in Paths, CanEnsureUpper(p)
  PROVE  /\ EnsuredUpper(p) \in [Paths -> Stored] /\ WellFormed(EnsuredUpper(p))
         /\ Behind(p) \in Paths
         /\ \A x \in Paths : upper[x] # "none" => EnsuredUpper(p)[x] = upper[x]
         /\ \A x \in Paths : upper[x] = "none" /\ EnsuredUpper(p)[x] # "none" =>
                               x \in Parents[p] \cup {Behind(p)}
         /\ ~Exists(upper, p) => EnsuredUpper(p)[Behind(p)] = CopiedUp(p)
<1>1. CASE Exists(upper, p)
  BY <1>1, PathsAssumption DEF EnsuredUpper, TreesOK, Behind
<1>2. CASE ~Exists(upper, p)
  <2>1. CanStore(p) /\ ~IsDevice(p)
    BY <1>2 DEF CanEnsureUpper
  <2>2. CopiedUp(p) \in Stored \ {"none"}
    <3>1. CASE StoredIn(p) = "lower"
      <4>1. Exists(lower, p)
        BY <3>1 DEF StoredIn
      <4> QED BY <3>1, <4>1 DEF CopiedUp, Exists, BelowOK
    <3>2. CASE StoredIn(p) = "host"
      <4>1. HasFallback(p)
        BY <3>2 DEF StoredIn
      <4>2. host[p] \in Node \ {"none", "link", "device"}
        BY <2>1, <3>2, <4>1 DEF HasFallback, IsDevice, BelowOK
      <4> QED BY <3>2, <4>2 DEF CopiedUp, Stored
    <3>3. CASE StoredIn(p) \notin {"lower", "host"}
      BY <3>3 DEF CopiedUp, Stored, Node
    <3> QED BY <3>1, <3>2, <3>3
  <2>3. upper[Behind(p)] = "none"
    BY <1>2, <2>1 DEF CanStore, Behind, Exists, IsFile, TreesOK, Stored, Node
  <2> QED BY <1>2, <2>1, <2>2, <2>3, Put DEF EnsuredUpper
<1> QED BY <1>1, <1>2

LEMMA EnsuredWhites ==
  ASSUME TreesOK, NEW p \in Paths
  PROVE  /\ EnsuredWhite(p) \in [Paths -> Whites]
         /\ \A x \in Paths : Hides(EnsuredWhite(p), x) => Hides(white, x)
         /\ \A x \in Paths : x # p => (Hides(EnsuredWhite(p), x) <=> Hides(white, x))
BY Dropped DEF EnsuredWhite, TreesOK

LEMMA Rewritten ==
  ASSUME NEW tree \in [Paths -> Stored], WellFormed(tree), NEW b \in Paths, IsFile(tree[b])
  PROVE  /\ [tree EXCEPT ![b] = "own"] \in [Paths -> Stored]
         /\ WellFormed([tree EXCEPT ![b] = "own"])
         /\ \A x \in Paths : IsFile(tree[x]) => IsFile([tree EXCEPT ![b] = "own"][x])
         /\ \A x \in Paths : x # b => [tree EXCEPT ![b] = "own"][x] = tree[x]
<1> DEFINE new == [tree EXCEPT ![b] = "own"]
<1>1. new \in [Paths -> Stored] /\ new[b] = "own" /\ \A x \in Paths : x # b => new[x] = tree[x]
  BY DEF Stored, Node
<1>2. ASSUME NEW x \in Paths, new[x] # "none", NEW q \in Parents[x]
      PROVE  new[q] = "dir"
  <2>1. q \in Paths
    BY ParentsArePaths
  <2>2. tree[q] = "dir"
    BY <1>1, <1>2 DEF WellFormed, IsFile
  <2> QED BY <1>1, <2>1, <2>2 DEF IsFile
<1> QED BY <1>1, <1>2 DEF WellFormed, IsFile

-----------------------------------------------------------------------------
(* What a step keeps *)

LEMMA BelowKept ==
  ASSUME BelowOK, UNCHANGED <<roots, host, lower>>
  PROVE  /\ BelowOK'
         /\ \A p : ShownByRoots(p)' <=> ShownByRoots(p)
BY DEF BelowOK, WellFormed, ShownByRoots, HasFallback, InRoot, IsVirtualDir

LEMMA ScanKept == Inv /\ SameScan => ScanOK'
BY DEF Inv, ScanOK, SameScan, NoScan, Dirs

LEMMA AwayKept ==
  ASSUME Inv, UNCHANGED <<roots, host, lower>>, away' \subseteq Paths,
         \A x \in away' :
           \/ Hides(white', x)
           \/ upper'[x] = "none" /\ ~Exists(lower, x) /\ ~ShownByRoots(x)
           \/ /\ x \in away
              /\ Hides(white, x) => Hides(white', x)
              /\ upper[x] = "none" /\ ~Hides(white, x) => upper'[x] = "none"
  PROVE  \A x \in away' : AwayOK(x)'
<1> SUFFICES ASSUME NEW x \in away'
             PROVE  AwayOK(x)'
  OBVIOUS
<1>1. /\ ShownByRoots(x)' <=> ShownByRoots(x)
      /\ Exists(lower, x)' <=> Exists(lower, x)
  BY BelowKept DEF Inv, Exists
<1>2. x \in away => Hides(white, x) \/ (upper[x] = "none" /\ ~Exists(lower, x) /\ ~ShownByRoots(x))
  BY HiddenIsWhiteouted DEF Inv, AwayOK
<1>3. Whiteouted(x)' <=> Hides(white', x)
  BY DEF Whiteouted, Hides
<1>4. AwayOK(x)' <=> \/ Hides(white', x)
                     \/ upper'[x] = "none" /\ ~Exists(lower, x) /\ ~ShownByRoots(x)
  BY <1>1, <1>3 DEF AwayOK
<1> QED BY <1>2, <1>4

LEMMA HandleKept ==
  ASSUME NEW f, NEW up, NEW up2, NEW wh, NEW wh2, NEW ho,
         HandleOK(f, up, wh, ho),
         \A x \in Paths : IsFile(up[x]) => IsFile(up2[x]),
         \A x \in Paths : Hides(wh2, x) => Hides(wh, x)
  PROVE  HandleOK(f, up2, wh2, ho)
<1>1. f \in Handle
  BY DEF HandleOK
<1>2. f.at \in Paths \cup {Gone}
  BY <1>1 DEF Handle
<1>3. f.at \in Paths => Parents[f.at] \subseteq Paths
  BY ParentsArePaths
<1> QED BY <1>1, <1>2, <1>3 DEF HandleOK

LEMMA FilesKept ==
  ASSUME Inv, UNCHANGED <<files, host>>,
         \A x \in Paths : IsFile(upper[x]) => IsFile(upper'[x]),
         \A x \in Paths : Hides(white', x) => Hides(white, x)
  PROVE  FilesOK'
<1>1. ASSUME NEW h \in Handles, files[h] # Closed
      PROVE  HandleOK(files[h], upper', white', host)
  BY <1>1, HandleKept DEF Inv, FilesOK
<1>2. ASSUME NEW h \in Handles, files'[h] # Closed
      PROVE  HandleOK(files'[h], upper', white', host')
  BY <1>1, <1>2
<1>3. DOMAIN files' = Handles
  BY DEF Inv, FilesOK
<1> HIDE DEF HandleOK
<1> QED BY <1>2, <1>3 DEF FilesOK

LEMMA FilesOpened ==
  ASSUME Inv, UNCHANGED host, NEW h \in Handles, NEW f,
         files' = [files EXCEPT ![h] = f],
         HandleOK(f, upper', white', host),
         \A x \in Paths : IsFile(upper[x]) => IsFile(upper'[x]),
         \A x \in Paths : Hides(white', x) => Hides(white, x)
  PROVE  FilesOK'
<1>1. ASSUME NEW g \in Handles, files[g] # Closed
      PROVE  HandleOK(files[g], upper', white', host)
  BY <1>1, HandleKept DEF Inv, FilesOK
<1>2. ASSUME NEW g \in Handles, files'[g] # Closed
      PROVE  HandleOK(files'[g], upper', white', host')
  <2>1. files'[g] = IF g = h THEN f ELSE files[g]
    BY DEF Inv, FilesOK
  <2> QED BY <1>1, <1>2, <2>1
<1>3. DOMAIN files' = Handles
  BY DEF Inv, FilesOK
<1> QED BY <1>2, <1>3 DEF FilesOK

(* A directory above a path that is seen, or free in a directory. *)
LEMMA ParentsAreThere ==
  ASSUME Inv, NEW p \in Paths,
         View[p] # "none" \/ \A q \in Parents[p] : View[q] = "dir"
  PROVE  \A q \in Parents[p] : q \in Paths /\ q \notin away /\ ~Hides(white, q)
<1> SUFFICES ASSUME NEW q \in Parents[p]
             PROVE  q \in Paths /\ q \notin away /\ ~Hides(white, q)
  OBVIOUS
<1>1. q \in Paths /\ View[q] = "dir"
  BY ViewFacts, ParentsArePaths
<1>2. ~Whiteouted(q)
  BY <1>1, ViewFacts, LookupFacts
<1>3. q \notin away
  BY <1>1, AwayIsHidden DEF Inv
<1> QED BY <1>1, <1>2, <1>3, HiddenIsWhiteouted

-----------------------------------------------------------------------------
(* The requests *)

LEMMA SetattrStep ==
  ASSUME Inv, NEW p \in Paths, NEW truncate \in BOOLEAN, Setattr(p, truncate)
  PROVE  Inv'
<1> DEFINE made == EnsuredUpper(p)
           b == Behind(p)
<1>1. /\ CanEnsureUpper(p)
      /\ truncate => IsFile(made[b])
      /\ upper' = IF truncate THEN [made EXCEPT ![b] = "own"] ELSE made
      /\ white' = EnsuredWhite(p)
      /\ away' = away \ ({p, b} \cup {q \in Parents[p] : ~Whiteouted(q)})
      /\ UNCHANGED <<roots, host, lower, files>>
      /\ SameScan
  BY DEF Setattr
<1>2. /\ made \in [Paths -> Stored] /\ WellFormed(made)
      /\ b \in Paths
      /\ \A x \in Paths : upper[x] # "none" => made[x] = upper[x]
      /\ \A x \in Paths : upper[x] = "none" /\ made[x] # "none" => x \in Parents[p] \cup {b}
  BY <1>1, Ensured DEF Inv
<1> HIDE DEF made, b
<1>3. /\ upper' \in [Paths -> Stored] /\ WellFormed(upper')
      /\ \A x \in Paths : IsFile(made[x]) => IsFile(upper'[x])
      /\ \A x \in Paths : x # b => upper'[x] = made[x]
  BY <1>1, <1>2, Rewritten
<1>4. /\ white' \in [Paths -> Whites]
      /\ \A x \in Paths : Hides(white', x) => Hides(white, x)
      /\ \A x \in Paths : x # p => (Hides(white', x) <=> Hides(white, x))
  BY <1>1, EnsuredWhites DEF Inv
<1>5. BelowOK' /\ ScanOK'
  BY <1>1, BelowKept, ScanKept DEF Inv
<1>6. TreesOK'
  BY <1>3, <1>4 DEF TreesOK, WellFormed
<1>7. \A x \in Paths : IsFile(upper[x]) => IsFile(upper'[x])
  BY <1>2, <1>3 DEF IsFile
<1>8. FilesOK'
  BY <1>1, <1>4, <1>7, FilesKept
<1>9. away' \subseteq Paths
  BY <1>1 DEF Inv
<1>10. \A x \in away' : AwayOK(x)'
  <2>1. ASSUME NEW x \in away'
        PROVE  /\ x \in away
               /\ Hides(white, x) => Hides(white', x)
               /\ upper[x] = "none" /\ ~Hides(white, x) => upper'[x] = "none"
    <3>1. x \in Paths /\ x \in away /\ x # p /\ x # b
      BY <1>1, <1>9
    <3>2. x \in Parents[p] => Hides(white, x)
      BY <1>1, HiddenIsWhiteouted
    <3> QED BY <1>2, <1>3, <1>4, <3>1, <3>2
  <2> QED BY <1>1, <1>9, <2>1, AwayKept
<1> QED BY <1>5, <1>6, <1>8, <1>9, <1>10 DEF Inv

(* The directories above a device of the host are the host's too, or lead to *)
(* a root: if one has been removed, it is under a whiteout.                  *)
LEMMA SetattrRefusedStep ==
  ASSUME Inv, NEW p \in Paths, SetattrRefused(p)
  PROVE  Inv'
<1>1. /\ IsDevice(p) /\ CanMakeParents(p)
      /\ upper' = WithParents(upper, p)
      /\ UNCHANGED <<roots, host, lower, white, files, away>>
      /\ SameScan
  BY DEF SetattrRefused
<1>2. /\ upper' \in [Paths -> Stored] /\ WellFormed(upper')
      /\ \A x \in Paths : upper'[x] = IF x \in Parents[p] THEN "dir" ELSE upper[x]
      /\ \A x \in Paths : upper[x] # "none" => upper'[x] = upper[x]
  BY <1>1, ParentsMade DEF Inv
<1>3. BelowOK' /\ ScanOK'
  BY <1>1, BelowKept, ScanKept DEF Inv
<1>4. TreesOK'
  BY <1>1, <1>2 DEF Inv, TreesOK, WellFormed
<1>5. FilesOK'
  BY <1>1, <1>2, FilesKept DEF IsFile
<1>6. ASSUME NEW x \in Parents[p]
      PROVE  ShownByRoots(x)
  <2>1. x \in Paths
    BY ParentsArePaths
  <2>2. HasFallback(p) /\ host[p] = "device"
    BY <1>1 DEF IsDevice, StoredIn
  <2>3. host[x] = "dir"
    BY <2>2, <1>6 DEF Inv, BelowOK, WellFormed
  <2>4. PICK r \in roots : r = p \/ r \in Parents[p]
    BY <2>2, RootsFacts DEF HasFallback, Inv
  <2>5. x = r \/ x \in Parents[r] \/ r \in Parents[x]
    BY <2>4, ParentsAreChain
  <2> QED BY <2>1, <2>3, <2>4, <2>5, RootsFacts DEF ShownByRoots, HasFallback, Inv
<1>7. \A x \in away' : AwayOK(x)'
  <2>1. ASSUME NEW x \in away'
        PROVE  /\ x \in away
               /\ Hides(white, x) => Hides(white', x)
               /\ upper[x] = "none" /\ ~Hides(white, x) => upper'[x] = "none"
    <3>1. x \in away /\ x \in Paths /\ (Hides(white', x) <=> Hides(white, x))
      BY <1>1 DEF Inv, Hides
    <3>2. ~Hides(white, x) => ~ShownByRoots(x)
      BY <3>1, HiddenIsWhiteouted DEF Inv, AwayOK
    <3> QED BY <1>2, <1>6, <3>1, <3>2
  <2> QED BY <1>1, <2>1, AwayKept DEF Inv
<1> QED BY <1>1, <1>3, <1>4, <1>5, <1>7 DEF Inv

LEMMA OpenForReadingStep ==
  ASSUME Inv, NEW h \in Handles, NEW p \in Paths, OpenForReading(h, p)
  PROVE  Inv'
<1> DEFINE f == [ino |-> p, mode |-> "read", tree |-> StoredIn(p), at |-> p]
<1>1. /\ IsFile(View[p]) \/ View[p] = "device"
      /\ files' = [files EXCEPT ![h] = f]
      /\ UNCHANGED <<roots, host, lower, upper, white, scan, away>>
  BY DEF OpenForReading, OpenOn, trees
<1>2. StoredIn(p) \in {"upper", "lower", "host", "nowhere"}
  BY DEF StoredIn
<1>3. f \in Handle
  BY <1>2 DEF Handle
<1>4. f.tree = "upper" => IsFile(upper[p])
  <2>1. View[p] = Lookup(p) /\ View[p] # "none"
    BY <1>1, ViewFacts DEF IsFile
  <2>2. f.tree = "upper" => View[p] = upper[p]
    BY <2>1, LookupFacts
  <2>3. upper[p] # "device"
    BY DEF Inv, TreesOK, Stored
  <2> QED BY <1>1, <2>2, <2>3
<1>5. HandleOK(f, upper, white, host)
  BY <1>3, <1>4 DEF HandleOK
<1> HIDE DEF f
<1>6. HandleOK(f, upper', white', host)
  BY <1>1, <1>5
<1>7. FilesOK'
  BY <1>1, <1>6, FilesOpened
<1> QED BY <1>1, <1>7, BelowKept
     DEF Inv, TreesOK, WellFormed, ScanOK, AwayOK, Whiteouted, Exists

LEMMA OpenForWritingStep ==
  ASSUME Inv, NEW h \in Handles, NEW p \in Paths, NEW truncate \in BOOLEAN,
         OpenForWriting(h, p, truncate)
  PROVE  Inv'
<1>1. /\ IsFile(View[p]) \/ View[p] = "device"
      /\ away' = away \ {p, Behind(p)}
      /\ UNCHANGED <<roots, host, lower>>
      /\ SameScan
  BY DEF OpenForWriting
<1>2. BelowOK' /\ ScanOK' /\ away' \subseteq Paths
  BY <1>1, BelowKept, ScanKept DEF Inv
<1>3. /\ View[p] = Lookup(p) /\ View[p] # "none"
      /\ ~Hides(white, p)
      /\ \A q \in Parents[p] : q \in Paths /\ q \notin away /\ ~Hides(white, q)
  BY <1>1, ViewFacts, LookupFacts, HiddenIsWhiteouted, ParentsAreThere DEF IsFile
<1>4. CASE HasFallback(p) /\ host[p] = "device"
  <2> DEFINE f == [ino |-> p, mode |-> "write", tree |-> "host", at |-> p]
  <2>1. files' = [files EXCEPT ![h] = f] /\ UNCHANGED <<upper, white>>
    BY <1>4 DEF OpenForWriting, OpenOn
  <2>2. HandleOK(f, upper, white, host)
    BY <1>4 DEF HandleOK, Handle
  <2> HIDE DEF f
  <2>3. HandleOK(f, upper', white', host)
    BY <2>1, <2>2
  <2>4. FilesOK'
    BY <1>1, <2>1, <2>3, FilesOpened
  <2>5. \A x \in away' : AwayOK(x)'
    BY <1>1, <1>2, <2>1, AwayKept DEF Hides
  <2> QED BY <1>2, <2>1, <2>4, <2>5 DEF Inv, TreesOK, WellFormed
<1>5. CASE ~(HasFallback(p) /\ host[p] = "device")
  <2> DEFINE made == EnsuredUpper(p)
             b == Behind(p)
             f == [ino |-> p, mode |-> "write", tree |-> "upper", at |-> b]
  <2>1. /\ CanEnsureUpper(p)
        /\ upper' = IF truncate THEN [made EXCEPT ![b] = "own"] ELSE made
        /\ white' = EnsuredWhite(p)
        /\ files' = [files EXCEPT ![h] = f]
    BY <1>5 DEF OpenForWriting, OpenOn
  <2>2. /\ made \in [Paths -> Stored] /\ WellFormed(made)
        /\ b \in Paths
        /\ \A x \in Paths : upper[x] # "none" => made[x] = upper[x]
        /\ \A x \in Paths : upper[x] = "none" /\ made[x] # "none" => x \in Parents[p] \cup {b}
        /\ ~Exists(upper, p) => made[b] = CopiedUp(p)
    BY <2>1, Ensured DEF Inv
  <2>3. IsFile(View[p])
    BY <1>1, <1>3, <1>5, LookupFacts DEF Inv, BelowOK, TreesOK, Stored
  <2>4. IsFile(made[b])
    <3>1. CASE Exists(upper, p)
      <4>1. upper[p] = View[p]
        BY <1>3, <3>1, LookupFacts
      <4>2. b = p
        BY <2>3, <4>1 DEF IsFile, Behind
      <4> QED BY <2>2, <2>3, <4>1, <4>2 DEF IsFile
    <3>2. CASE ~Exists(upper, p)
      <4>1. CASE StoredIn(p) \in {"lower", "host"}
        BY <1>3, <2>2, <2>3, <3>2, <4>1, LookupFacts DEF CopiedUp
      <4>2. CASE StoredIn(p) \notin {"lower", "host"}
        BY <2>2, <3>2, <4>2 DEF CopiedUp, IsFile
      <4> QED BY <4>1, <4>2
    <3> QED BY <3>1, <3>2
  <2>5. b # p => b = LinkTarget
    BY DEF Behind
  <2> HIDE DEF made, b
  <2>6. /\ upper' \in [Paths -> Stored] /\ WellFormed(upper')
        /\ \A x \in Paths : IsFile(made[x]) => IsFile(upper'[x])
        /\ \A x \in Paths : x # b => upper'[x] = made[x]
    BY <2>1, <2>2, <2>4, Rewritten
  <2>7. /\ white' \in [Paths -> Whites]
        /\ \A x \in Paths : Hides(white', x) => Hides(white, x)
        /\ \A x \in Paths : x # p => (Hides(white', x) <=> Hides(white, x))
    BY <2>1, EnsuredWhites DEF Inv
  <2>8. TreesOK'
    BY <2>6, <2>7 DEF TreesOK, WellFormed
  <2>9. \A x \in Paths : IsFile(upper[x]) => IsFile(upper'[x])
    BY <2>2, <2>6 DEF IsFile
  <2>10. HandleOK(f, upper', white', host)
    <3>1. f \in Handle
      BY <2>2 DEF Handle
    <3>2. IsFile(upper'[b])
      BY <2>2, <2>4, <2>6
    <3>3. b # LinkTarget => \A q \in Parents[b] \cup {b} : ~Hides(white', q)
      BY <1>3, <2>5, <2>7
    <3> QED BY <3>1, <3>2, <3>3 DEF HandleOK
  <2>11. FilesOK'
    BY <1>1, <2>1, <2>7, <2>9, <2>10, FilesOpened
  <2>12. \A x \in away' : AwayOK(x)'
    <3>1. ASSUME NEW x \in away'
          PROVE  /\ x \in away
                 /\ Hides(white, x) => Hides(white', x)
                 /\ upper[x] = "none" /\ ~Hides(white, x) => upper'[x] = "none"
      <4>1. x \in Paths /\ x \in away /\ x # p /\ x # b
        BY <1>1, <1>2 DEF b
      <4>2. x \notin Parents[p]
        BY <1>3, <4>1
      <4> QED BY <2>2, <2>6, <2>7, <4>1, <4>2
    <3> QED BY <1>1, <1>2, <3>1, AwayKept
  <2> QED BY <1>2, <2>8, <2>11, <2>12 DEF Inv
<1> QED BY <1>4, <1>5

LEMMA WriteStep ==
  ASSUME Inv, NEW h \in Handles, Write(h)
  PROVE  Inv' /\ UNCHANGED host
<1>1. /\ files[h] # Closed /\ files[h].mode = "write" /\ files[h].at # Gone
      /\ UNCHANGED <<roots, lower, white, files, scan, away>>
  BY DEF Write
<1>2. HandleOK(files[h], upper, white, host) /\ files[h] \in Handle
  BY <1>1 DEF Inv, FilesOK, HandleOK
<1>3. files[h].at \in Paths
  BY <1>1, <1>2 DEF Handle
<1>4. CASE files[h].tree = "upper"
  <2>1. upper' = [upper EXCEPT ![files[h].at] = "own"] /\ UNCHANGED host
    BY <1>4 DEF Write
  <2>2. IsFile(upper[files[h].at])
    BY <1>1, <1>2, <1>4 DEF HandleOK
  <2>3. /\ upper' \in [Paths -> Stored] /\ WellFormed(upper')
        /\ \A x \in Paths : IsFile(upper[x]) => IsFile(upper'[x])
        /\ \A x \in Paths : x # files[h].at => upper'[x] = upper[x]
    BY <1>3, <2>1, <2>2, Rewritten DEF Inv, TreesOK
  <2>4. TreesOK'
    BY <1>1, <2>3 DEF Inv, TreesOK, WellFormed
  <2>5. FilesOK'
    BY <1>1, <2>1, <2>3, FilesKept
  <2>6. BelowOK'
    BY <1>1, <2>1, BelowKept DEF Inv
  <2>7. \A x \in away' : AwayOK(x)'
    <3>1. ASSUME NEW x \in away'
          PROVE  /\ x \in away
                 /\ Hides(white, x) => Hides(white', x)
                 /\ upper[x] = "none" /\ ~Hides(white, x) => upper'[x] = "none"
      BY <1>1, <2>2, <2>3 DEF Inv, IsFile
    <3> QED BY <1>1, <2>1, <3>1, AwayKept DEF Inv
  <2> QED BY <1>1, <2>1, <2>4, <2>5, <2>6, <2>7 DEF Inv, ScanOK
<1>5. CASE files[h].tree # "upper"
  <2>1. host[files[h].at] = "device"
    BY <1>1, <1>2, <1>5 DEF HandleOK
  <2>2. host' = [host EXCEPT ![files[h].at] = "device"] /\ UNCHANGED upper
    BY <1>5, <2>1 DEF Write
  <2>3. UNCHANGED host
    BY <2>1, <2>2 DEF Inv, BelowOK
  <2>4. FilesOK'
    BY <1>1, <2>2, <2>3, FilesKept
  <2> QED BY <1>1, <2>2, <2>3, <2>4, BelowKept
       DEF Inv, TreesOK, WellFormed, ScanOK, AwayOK, Whiteouted, Exists
<1> QED BY <1>4, <1>5

LEMMA ReleaseStep ==
  ASSUME Inv, NEW h \in Handles, Release(h)
  PROVE  Inv'
<1>1. /\ files' = [files EXCEPT ![h] = Closed]
      /\ UNCHANGED <<roots, host, lower, upper, white, scan, away>>
  BY DEF Release, trees
<1>2. ASSUME NEW g \in Handles, files'[g] # Closed
      PROVE  HandleOK(files'[g], upper', white', host')
  <2>1. files'[g] = files[g] /\ HandleOK(files[g], upper, white, host)
    BY <1>1, <1>2 DEF Inv, FilesOK
  <2> QED BY <1>1, <2>1
<1>3. FilesOK'
  BY <1>1, <1>2 DEF Inv, FilesOK
<1> QED BY <1>1, <1>3, BelowKept
     DEF Inv, TreesOK, WellFormed, ScanOK, AwayOK, Whiteouted, Exists

(* What is made at a free name, or through a link that is there. *)
LEMMA Made ==
  ASSUME Inv, NEW p \in Paths, NEW v \in Stored \ {"none"},
         IsFree(p), CanStore(p), IsFile(upper[Behind(p)]) => IsFile(v),
         upper' = [WithParents(upper, p) EXCEPT ![Behind(p)] = v],
         white' = DropWhiteout(p),
         away' = away \ {p, Behind(p)},
         UNCHANGED <<roots, host, lower>>, SameScan
  PROVE  /\ BelowOK' /\ TreesOK' /\ ScanOK'
         /\ away' \subseteq Paths /\ \A x \in away' : AwayOK(x)'
         /\ \A x \in Paths : IsFile(upper[x]) => IsFile(upper'[x])
         /\ \A x \in Paths : Hides(white', x) => Hides(white, x)
         /\ \A q \in Parents[p] \cup {p} : ~Hides(white', q)
         /\ Behind(p) \in Paths /\ upper'[Behind(p)] = v
<1> DEFINE b == Behind(p)
<1>1. /\ upper' \in [Paths -> Stored] /\ WellFormed(upper')
      /\ b \in Paths /\ upper'[b] = v
      /\ \A x \in Paths : x # b /\ upper[x] # "none" => upper'[x] = upper[x]
      /\ \A x \in Paths : upper[x] = "none" /\ upper'[x] # "none" => x \in Parents[p] \cup {b}
  BY Put DEF Inv
<1> HIDE DEF b
<1>2. /\ white' \in [Paths -> Whites]
      /\ ~Hides(white', p)
      /\ \A x \in Paths : Hides(white', x) => Hides(white, x)
      /\ \A x \in Paths : x # p => (Hides(white', x) <=> Hides(white, x))
  BY Dropped DEF Inv
<1>3. \A q \in Parents[p] : q \in Paths /\ q \notin away /\ ~Hides(white, q)
  BY ParentsAreThere DEF IsFree
<1>4. BelowOK' /\ ScanOK' /\ away' \subseteq Paths
  BY BelowKept, ScanKept DEF Inv
<1>5. TreesOK'
  BY <1>1, <1>2 DEF TreesOK, WellFormed
<1>6. \A x \in Paths : IsFile(upper[x]) => IsFile(upper'[x])
  BY <1>1 DEF IsFile, b
<1>7. \A q \in Parents[p] \cup {p} : ~Hides(white', q)
  BY <1>2, <1>3
<1>8. \A x \in away' : AwayOK(x)'
  <2>1. ASSUME NEW x \in away'
        PROVE  /\ x \in away
               /\ Hides(white, x) => Hides(white', x)
               /\ upper[x] = "none" /\ ~Hides(white, x) => upper'[x] = "none"
    <3>1. x \in Paths /\ x \in away /\ x # p /\ x # b
      BY <1>4 DEF b
    <3>2. x \notin Parents[p]
      BY <1>3, <3>1
    <3> QED BY <1>1, <1>2, <3>1, <3>2
  <2> QED BY <1>4, <2>1, AwayKept
<1> QED BY <1>1, <1>2, <1>4, <1>5, <1>6, <1>7, <1>8 DEF b

LEMMA CreateStep ==
  ASSUME Inv, NEW h \in Handles, NEW p \in Paths, NEW truncate \in BOOLEAN,
         Create(h, p, truncate)
  PROVE  Inv'
<1> DEFINE b == Behind(p)
           v == IF upper[b] = "none" \/ truncate THEN "own" ELSE upper[b]
           f == [ino |-> p, mode |-> "write", tree |-> "upper", at |-> b]
<1>1. /\ IsFree(p) /\ CanStore(p)
      /\ upper' = [WithParents(upper, p) EXCEPT ![b] = IF @ = "none" \/ truncate THEN "own" ELSE @]
      /\ white' = DropWhiteout(p)
      /\ away' = away \ {p, b}
      /\ files' = [files EXCEPT ![h] = f]
      /\ UNCHANGED <<roots, host, lower>>
      /\ SameScan
  BY DEF Create, OpenOn
<1>2. /\ b \in Paths
      /\ upper[b] = "none" \/ IsFile(upper[b])
      /\ WithParents(upper, p)[b] = upper[b]
  <2>1. "own" \in Stored \ {"none"}
    BY DEF Stored, Node
  <2> QED BY <1>1, <2>1, Put DEF Inv
<1>3. v \in Stored \ {"none"} /\ IsFile(v)
  BY <1>2 DEF IsFile, Stored, Node
<1>4. upper' = [WithParents(upper, p) EXCEPT ![b] = v]
  BY <1>1, <1>2
<1> HIDE DEF v
<1>5. /\ BelowOK' /\ TreesOK' /\ ScanOK'
      /\ away' \subseteq Paths /\ \A x \in away' : AwayOK(x)'
      /\ \A x \in Paths : IsFile(upper[x]) => IsFile(upper'[x])
      /\ \A x \in Paths : Hides(white', x) => Hides(white, x)
      /\ \A q \in Parents[p] \cup {p} : ~Hides(white', q)
      /\ upper'[b] = v
  BY <1>1, <1>3, <1>4, Made
<1>6. HandleOK(f, upper', white', host)
  <2>1. f \in Handle
    BY <1>2 DEF Handle
  <2>2. b # LinkTarget => b = p
    BY DEF Behind
  <2> HIDE DEF b
  <2> QED BY <1>3, <1>5, <2>1, <2>2 DEF HandleOK
<1>7. FilesOK'
  BY <1>1, <1>5, <1>6, FilesOpened
<1> QED BY <1>5, <1>7 DEF Inv

LEMMA MkdirStep ==
  ASSUME Inv, NEW p \in Paths, Mkdir(p) \/ Symlink(p)
  PROVE  Inv'
<1>1. /\ IsFree(p) /\ CanMakeParents(p) /\ upper[p] = "none"
      /\ white' = DropWhiteout(p)
      /\ away' = away \ {p}
      /\ UNCHANGED <<roots, host, lower, files>>
      /\ SameScan
  BY DEF Mkdir, Symlink
<1>2. PICK v \in {"dir", "link"} : upper' = [WithParents(upper, p) EXCEPT ![p] = v]
  BY DEF Mkdir, Symlink
<1>3. Behind(p) = p /\ CanStore(p) /\ v \in Stored \ {"none"} /\ ~IsFile(upper[p])
  BY <1>1 DEF Behind, CanStore, Stored, Node, IsFile
<1>4. away' = away \ {p, Behind(p)}
  BY <1>1, <1>3
<1>5. /\ BelowOK' /\ TreesOK' /\ ScanOK'
      /\ away' \subseteq Paths /\ \A x \in away' : AwayOK(x)'
      /\ \A x \in Paths : IsFile(upper[x]) => IsFile(upper'[x])
      /\ \A x \in Paths : Hides(white', x) => Hides(white, x)
  BY <1>1, <1>2, <1>3, <1>4, Made
<1>6. FilesOK'
  BY <1>1, <1>5, FilesKept
<1> QED BY <1>5, <1>6 DEF Inv

(* A whiteout at a path where no open file is, nor below it. *)
LEMMA HandleKeptUnder ==
  ASSUME NEW p \in Paths, NEW f, NEW up, NEW up2, NEW wh, NEW wh2, NEW ho,
         HandleOK(f, up, wh, ho),
         f.tree = "upper" /\ f.at # Gone => f.at # p /\ p \notin Parents[f.at] /\ IsFile(up2[f.at]),
         \A x \in Paths : x # p /\ Hides(wh2, x) => Hides(wh, x)
  PROVE  HandleOK(f, up2, wh2, ho)
<1>1. f \in Handle
  BY DEF HandleOK
<1>2. f.at \in Paths \cup {Gone}
  BY <1>1 DEF Handle
<1>3. f.at \in Paths => Parents[f.at] \subseteq Paths
  BY ParentsArePaths
<1> QED BY <1>1, <1>2, <1>3 DEF HandleOK

LEMMA Cleared ==
  ASSUME TreesOK, NEW p \in Paths, \A x \in Paths : p \in Parents[x] => upper[x] = "none"
  PROVE  LET new == [upper EXCEPT ![p] = "none"]
         IN  /\ new \in [Paths -> Stored] /\ WellFormed(new)
             /\ \A x \in Paths : new[x] = IF x = p THEN "none" ELSE upper[x]
<1> DEFINE new == [upper EXCEPT ![p] = "none"]
<1>1. /\ new \in [Paths -> Stored]
      /\ \A x \in Paths : new[x] = IF x = p THEN "none" ELSE upper[x]
  BY DEF TreesOK, Stored, Node
<1>2. ASSUME NEW x \in Paths, new[x] # "none", NEW q \in Parents[x]
      PROVE  new[q] = "dir"
  <2>1. q \in Paths /\ q # p
    BY <1>1, <1>2, ParentsArePaths
  <2>2. upper[q] = "dir"
    BY <1>1, <1>2 DEF TreesOK, WellFormed
  <2> QED BY <1>1, <2>1, <2>2
<1> QED BY <1>1, <1>2 DEF WellFormed

LEMMA RemoveNameStep ==
  ASSUME Inv, NEW p \in Paths, RemoveName(p),
         \A x \in Paths : p \in Parents[x] => upper[x] = "none"
  PROVE  /\ BelowOK' /\ TreesOK' /\ ScanOK' /\ UNCHANGED host
         /\ away' \subseteq Paths /\ \A x \in away' : AwayOK(x)'
         /\ \A x \in Paths : upper'[x] = IF x = p THEN "none" ELSE upper[x]
         /\ \A x \in Paths : x # p /\ Hides(white', x) => Hides(white, x)
<1>1. /\ upper' = [upper EXCEPT ![p] = "none"]
      /\ white' = IF ShouldWhiteout(p) THEN AddWhiteout(p) ELSE DropWhiteout(p)
      /\ away' = away \cup {p}
      /\ UNCHANGED <<roots, host, lower>>
      /\ SameScan
  BY DEF RemoveName
<1>2. BelowOK' /\ ScanOK' /\ away' \subseteq Paths
  BY <1>1, BelowKept, ScanKept DEF Inv
<1>3. /\ upper' \in [Paths -> Stored] /\ WellFormed(upper')
      /\ \A x \in Paths : upper'[x] = IF x = p THEN "none" ELSE upper[x]
  BY <1>1, Cleared DEF Inv
<1>4. /\ white' \in [Paths -> Whites]
      /\ \A x \in Paths : x # p => (Hides(white', x) <=> Hides(white, x))
      /\ ShouldWhiteout(p) => Hides(white', p)
  BY <1>1, Added, Dropped DEF Inv
<1>5. TreesOK'
  BY <1>3, <1>4 DEF TreesOK, WellFormed
<1>6. \A x \in away' : AwayOK(x)'
  <2>1. ~ShouldWhiteout(p) => ~Exists(lower, p) /\ ~ShownByRoots(p)
    BY DEF ShouldWhiteout, Exists
  <2>2. ASSUME NEW x \in away', x # p
        PROVE  /\ x \in away
               /\ Hides(white, x) => Hides(white', x)
               /\ upper[x] = "none" /\ ~Hides(white, x) => upper'[x] = "none"
    BY <1>1, <1>2, <1>3, <1>4, <2>2
  <2> QED BY <1>1, <1>2, <1>3, <1>4, <2>1, <2>2, AwayKept
<1> QED BY <1>1, <1>2, <1>3, <1>4, <1>5, <1>6

(* A path that shows something else than a directory has nothing below it. *)
LEMMA NothingBelow ==
  ASSUME Inv, NEW p \in Paths, View[p] \notin {"none", "dir"}
  PROVE  /\ upper[p] # "dir"
         /\ \A x \in Paths : p \in Parents[x] => upper[x] = "none"
<1>1. View[p] = Lookup(p) /\ ~Whiteouted(p)
  BY ViewFacts, LookupFacts
<1>2. upper[p] # "dir"
  BY <1>1 DEF Lookup, StoredIn, Exists
<1> QED BY <1>2 DEF Inv, TreesOK, WellFormed

LEMMA UnlinkStep ==
  ASSUME Inv, NEW p \in Paths, Unlink(p)
  PROVE  Inv'
<1>1. View[p] \notin {"none", "dir"} /\ files' = Followed(p, Gone) /\ RemoveName(p)
  BY DEF Unlink
<1>2. \A x \in Paths : p \in Parents[x] => upper[x] = "none"
  BY <1>1, NothingBelow
<1>3. /\ BelowOK' /\ TreesOK' /\ ScanOK' /\ UNCHANGED host
      /\ away' \subseteq Paths /\ \A x \in away' : AwayOK(x)'
      /\ \A x \in Paths : upper'[x] = IF x = p THEN "none" ELSE upper[x]
      /\ \A x \in Paths : x # p /\ Hides(white', x) => Hides(white, x)
  BY <1>1, <1>2, RemoveNameStep
<1>4. ASSUME NEW h \in Handles, files'[h] # Closed
      PROVE  HandleOK(files'[h], upper', white', host)
  <2>1. CASE InUpper(h, p)
    <3>1. files'[h] = [files[h] EXCEPT !.at = Gone]
      BY <1>1, <2>1 DEF Followed
    <3>2. files[h] \in Handle /\ files[h].tree = "upper"
      BY <2>1 DEF InUpper, Inv, FilesOK, HandleOK
    <3>3. files'[h] \in Handle /\ files'[h].tree = "upper" /\ files'[h].at = Gone
      BY <3>1, <3>2 DEF Handle
    <3> QED BY <3>3 DEF HandleOK
  <2>2. CASE ~InUpper(h, p)
    <3>1. files'[h] = files[h]
      BY <1>1, <2>2 DEF Followed
    <3>2. HandleOK(files[h], upper, white, host)
      BY <1>4, <3>1 DEF Inv, FilesOK
    <3>3. files[h].tree = "upper" /\ files[h].at # Gone =>
            files[h].at # p /\ p \notin Parents[files[h].at] /\ IsFile(upper'[files[h].at])
      <4> SUFFICES ASSUME files[h].tree = "upper", files[h].at # Gone
                   PROVE  /\ files[h].at # p /\ p \notin Parents[files[h].at]
                          /\ IsFile(upper'[files[h].at])
        OBVIOUS
      <4>1. files[h].at \in Paths /\ IsFile(upper[files[h].at])
        BY <3>2 DEF HandleOK, Handle
      <4>2. files[h].at # p
        BY <1>4, <2>2, <3>1 DEF InUpper
      <4> QED BY <1>2, <1>3, <4>1, <4>2 DEF IsFile
    <3>4. HandleOK(files[h], upper', white', host)
      BY <1>3, <3>2, <3>3, HandleKeptUnder
    <3> QED BY <3>1, <3>4
  <2> QED BY <2>1, <2>2
<1>5. FilesOK'
  <2>1. DOMAIN files' = Handles
    BY <1>1 DEF Followed
  <2> QED BY <1>3, <1>4, <2>1 DEF FilesOK
<1> QED BY <1>3, <1>5 DEF Inv

LEMMA RmdirStep ==
  ASSUME Inv, NEW p \in Paths, Rmdir(p)
  PROVE  Inv'
<1>1. /\ View[p] = "dir" /\ \A c \in Children[p] : upper[c] = "none"
      /\ RemoveName(p) /\ UNCHANGED files
  BY DEF Rmdir
<1>2. ASSUME NEW x \in Paths, p \in Parents[x], upper[x] # "none"
      PROVE  FALSE
  <2>1. PICK c \in Children[p] : c \in Paths /\ (c = x \/ c \in Parents[x])
    BY <1>2, ChildOnTheWay
  <2> QED BY <1>1, <1>2, <2>1 DEF Inv, TreesOK, WellFormed
<1>3. /\ BelowOK' /\ TreesOK' /\ ScanOK' /\ UNCHANGED host
      /\ away' \subseteq Paths /\ \A x \in away' : AwayOK(x)'
      /\ \A x \in Paths : upper'[x] = IF x = p THEN "none" ELSE upper[x]
      /\ \A x \in Paths : x # p /\ Hides(white', x) => Hides(white, x)
  BY <1>1, <1>2, RemoveNameStep
<1>4. ~IsFile(upper[p])
  <2>1. View[p] = Lookup(p) /\ ~Whiteouted(p)
    BY <1>1, ViewFacts, LookupFacts
  <2> QED BY <1>1, <2>1 DEF Lookup, StoredIn, Exists, IsFile
<1>5. ASSUME NEW h \in Handles, files[h] # Closed
      PROVE  HandleOK(files[h], upper', white', host)
  <2>1. HandleOK(files[h], upper, white, host)
    BY <1>5 DEF Inv, FilesOK
  <2>2. files[h].tree = "upper" /\ files[h].at # Gone =>
          files[h].at # p /\ p \notin Parents[files[h].at] /\ IsFile(upper'[files[h].at])
    <3> SUFFICES ASSUME files[h].tree = "upper", files[h].at # Gone
                 PROVE  /\ files[h].at # p /\ p \notin Parents[files[h].at]
                        /\ IsFile(upper'[files[h].at])
      OBVIOUS
    <3>1. files[h].at \in Paths /\ IsFile(upper[files[h].at])
      BY <2>1 DEF HandleOK, Handle
    <3> QED BY <1>2, <1>3, <1>4, <3>1 DEF IsFile
  <2> QED BY <1>3, <2>1, <2>2, HandleKeptUnder
<1>6. FilesOK'
  BY <1>1, <1>3, <1>5 DEF Inv, FilesOK
<1> QED BY <1>3, <1>6 DEF Inv

LEMMA RenameUpperStep ==
  ASSUME Inv, NEW from \in Paths, NEW to \in Paths,
         Rename(from, to), RenameUpper(from, to)
  PROVE  Inv'
<1> DEFINE mid == WithParents(upper, to)
           dropped == DropWhiteout(to)
<1>1. /\ from # to
      /\ View[from] \notin {"none", "dir"}
      /\ View[to] # "dir" /\ \A q \in Parents[to] : View[q] = "dir"
      /\ CanMakeParents(to) /\ upper[to] # "dir"
      /\ Exists(upper, from)
      /\ upper' = [mid EXCEPT ![to] = upper[from], ![from] = "none"]
      /\ white' = IF Exists(lower, from)
                  THEN [AddWhiteout(from) EXCEPT ![to] = dropped[to]] ELSE dropped
      /\ files' = Followed(from, to)
      /\ away' = (away \ {to, Behind(to)}) \cup (IF ShownByRoots(from) THEN {} ELSE {from})
      /\ UNCHANGED <<roots, host, lower>>
      /\ SameScan
  BY DEF Rename, Renames, RenameUpper
<1>2. /\ mid \in [Paths -> Stored] /\ WellFormed(mid)
      /\ \A x \in Paths : mid[x] = IF x \in Parents[to] THEN "dir" ELSE upper[x]
      /\ \A x \in Paths : upper[x] # "none" => mid[x] = upper[x]
  BY <1>1, ParentsMade DEF Inv
<1>3. /\ \A q \in Parents[to] : q \in Paths /\ q \notin away /\ ~Hides(white, q)
      /\ from \notin Parents[to] /\ to \notin Parents[to]
      /\ from \notin away
  BY <1>1, ParentsAreThere, ParentsArePaths, AwayIsHidden DEF Inv
<1>4. /\ upper[from] \in Stored \ {"none", "dir"}
      /\ \A x \in Paths : from \in Parents[x] => upper[x] = "none"
  BY <1>1, NothingBelow DEF Exists, Inv, TreesOK
<1> HIDE DEF mid, dropped
<1>5. /\ upper' \in [Paths -> Stored]
      /\ upper'[to] = upper[from] /\ upper'[from] = "none"
      /\ \A x \in Paths : x # to /\ x # from => upper'[x] = mid[x]
  <2>1. "none" \in Stored
    BY DEF Stored, Node
  <2> QED BY <1>1, <1>2, <1>4, <2>1
<1>6. WellFormed(upper')
  <2> SUFFICES ASSUME NEW x \in Paths, upper'[x] # "none", NEW q \in Parents[x]
               PROVE  upper'[q] = "dir"
    BY DEF WellFormed
  <2>1. q \in Paths /\ mid[to] # "dir" /\ mid[from] # "dir"
    BY <1>1, <1>2, <1>3, <1>4, ParentsArePaths
  <2>2. mid[q] = "dir"
    <3>1. CASE x = to
      BY <1>2, <2>1, <3>1
    <3>2. CASE x # to
      BY <1>2, <1>5, <3>2 DEF WellFormed
    <3> QED BY <3>1, <3>2
  <2> QED BY <1>5, <2>1, <2>2
<1>7. /\ white' \in [Paths -> Whites]
      /\ ~Hides(white', to)
      /\ Exists(lower, from) => Hides(white', from)
      /\ \A x \in Paths : x # from /\ Hides(white', x) => Hides(white, x)
      /\ \A x \in Paths : x # to /\ Hides(white, x) => Hides(white', x)
  <2>1. /\ dropped \in [Paths -> Whites] /\ ~Hides(dropped, to)
        /\ \A x \in Paths : x # to => (Hides(dropped, x) <=> Hides(white, x))
    BY Dropped DEF Inv, dropped
  <2>2. /\ AddWhiteout(from) \in [Paths -> Whites] /\ Hides(AddWhiteout(from), from)
        /\ \A x \in Paths : x # from => (Hides(AddWhiteout(from), x) <=> Hides(white, x))
    BY Added DEF Inv
  <2>3. CASE Exists(lower, from)
    <3>1. /\ white' \in [Paths -> Whites] /\ white'[to] = dropped[to]
          /\ \A x \in Paths : x # to => white'[x] = AddWhiteout(from)[x]
      BY <1>1, <2>1, <2>2, <2>3
    <3> QED BY <1>1, <2>1, <2>2, <3>1 DEF Hides
  <2>4. CASE ~Exists(lower, from)
    BY <1>1, <2>1, <2>4
  <2> QED BY <2>3, <2>4
<1>8. BelowOK' /\ ScanOK' /\ away' \subseteq Paths
  BY <1>1, BelowKept, ScanKept DEF Inv
<1>9. TreesOK'
  BY <1>5, <1>6, <1>7 DEF TreesOK, WellFormed
<1>10. \A x \in away' : AwayOK(x)'
  <2>1. ASSUME NEW x \in away', x # from
        PROVE  /\ x \in away
               /\ Hides(white, x) => Hides(white', x)
               /\ upper[x] = "none" /\ ~Hides(white, x) => upper'[x] = "none"
    <3>1. x \in Paths /\ x \in away /\ x # to
      BY <1>1, <1>8, <2>1
    <3>2. x \notin Parents[to]
      BY <1>3, <3>1
    <3> QED BY <1>2, <1>5, <1>7, <2>1, <3>1, <3>2
  <2>2. from \in away' => ~ShownByRoots(from)
    BY <1>1, <1>3
  <2> QED BY <1>1, <1>5, <1>7, <1>8, <2>1, <2>2, AwayKept
<1>11. ASSUME NEW h \in Handles, files'[h] # Closed
       PROVE  HandleOK(files'[h], upper', white', host)
  <2>1. CASE InUpper(h, from)
    <3>1. files'[h] = [files[h] EXCEPT !.at = to]
      BY <1>1, <2>1 DEF Followed, InUpper
    <3>2. HandleOK(files[h], upper, white, host) /\ files[h].tree = "upper" /\ files[h].at = from
      BY <2>1 DEF InUpper, Inv, FilesOK
    <3>3. files[h] \in Handle /\ IsFile(upper[from])
      BY <3>2, PathsAssumption DEF HandleOK
    <3>4. files'[h] \in Handle /\ files'[h].tree = "upper" /\ files'[h].at = to
      BY <3>1, <3>2, <3>3 DEF Handle
    <3>5. \A q \in Parents[to] \cup {to} : ~Hides(white', q)
      BY <1>3, <1>7
    <3> QED BY <1>5, <3>3, <3>4, <3>5 DEF HandleOK
  <2>2. CASE ~InUpper(h, from) /\ InUpper(h, to)
    <3>1. files'[h] = [files[h] EXCEPT !.at = Gone]
      BY <1>1, <2>2, PathsAssumption DEF Followed
    <3>2. files[h] \in Handle /\ files[h].tree = "upper"
      BY <2>2 DEF InUpper, Inv, FilesOK, HandleOK
    <3>3. files'[h] \in Handle /\ files'[h].tree = "upper" /\ files'[h].at = Gone
      BY <3>1, <3>2 DEF Handle
    <3> QED BY <3>3 DEF HandleOK
  <2>3. CASE ~InUpper(h, from) /\ ~InUpper(h, to)
    <3>1. files'[h] = files[h]
      BY <1>1, <2>3 DEF Followed
    <3>2. HandleOK(files[h], upper, white, host)
      BY <1>11, <3>1 DEF Inv, FilesOK
    <3>3. files[h].tree = "upper" /\ files[h].at # Gone =>
            files[h].at # from /\ from \notin Parents[files[h].at] /\ IsFile(upper'[files[h].at])
      <4> SUFFICES ASSUME files[h].tree = "upper", files[h].at # Gone
                   PROVE  /\ files[h].at # from /\ from \notin Parents[files[h].at]
                          /\ IsFile(upper'[files[h].at])
        OBVIOUS
      <4>1. files[h].at \in Paths /\ IsFile(upper[files[h].at])
        BY <3>2 DEF HandleOK, Handle
      <4>2. files[h].at # from /\ files[h].at # to
        BY <1>11, <2>3, <3>1 DEF InUpper
      <4> QED BY <1>2, <1>4, <1>5, <4>1, <4>2 DEF IsFile
    <3>4. HandleOK(files[h], upper', white', host)
      BY <1>7, <3>2, <3>3, HandleKeptUnder
    <3> QED BY <3>1, <3>4
  <2> QED BY <2>1, <2>2, <2>3
<1>12. FilesOK'
  <2>1. DOMAIN files' = Handles
    BY <1>1 DEF Followed
  <2> QED BY <1>1, <1>11, <2>1 DEF FilesOK
<1> QED BY <1>8, <1>9, <1>10, <1>12 DEF Inv

LEMMA RenameLowerStep ==
  ASSUME Inv, NEW from \in Paths, NEW to \in Paths,
         Rename(from, to), RenameLower(from, to)
  PROVE  Inv'
<1> DEFINE b == Behind(to)
           dropped == DropWhiteout(to)
<1>1. /\ from # to
      /\ View[from] \notin {"none", "dir"}
      /\ \A q \in Parents[to] : View[q] = "dir"
      /\ StoredIn(from) = "lower" /\ CanStore(to)
      /\ lower[from] = "link" => upper[to] = "none"
      /\ upper' = [WithParents(upper, to) EXCEPT ![b] = lower[from]]
      /\ white' = [AddWhiteout(from) EXCEPT ![to] = dropped[to]]
      /\ away' = (away \ {to, b}) \cup (IF ShownByRoots(from) THEN {} ELSE {from})
      /\ UNCHANGED <<roots, host, lower, files>>
      /\ SameScan
  BY DEF Rename, Renames, RenameLower
<1>2. ~Exists(upper, from) /\ Exists(lower, from) /\ lower[from] = View[from]
  BY <1>1, ViewFacts, LookupFacts
<1>3. lower[from] \in Stored \ {"none", "dir"}
  BY <1>1, <1>2 DEF Inv, BelowOK
<1>4. /\ upper' \in [Paths -> Stored] /\ WellFormed(upper')
      /\ b \in Paths /\ upper'[b] = lower[from]
      /\ upper[b] = "none" \/ IsFile(upper[b])
      /\ \A x \in Paths : x # b /\ upper[x] # "none" => upper'[x] = upper[x]
      /\ \A x \in Paths : upper[x] = "none" /\ upper'[x] # "none" => x \in Parents[to] \cup {b}
  BY <1>1, <1>3, Put DEF Inv
<1>5. upper[b] # "none" => IsFile(lower[from])
  <2>1. upper[to] = "none" => b = to
    BY DEF Behind
  <2> QED BY <1>1, <1>3, <2>1 DEF IsFile, Stored, Node
<1>6. \A q \in Parents[to] : q \in Paths /\ q \notin away /\ ~Hides(white, q)
  BY <1>1, ParentsAreThere
<1>7. from \notin away
  BY <1>1, AwayIsHidden DEF Inv
<1> HIDE DEF b, dropped
<1>8. /\ white' \in [Paths -> Whites]
      /\ Hides(white', from)
      /\ \A x \in Paths : x # from /\ Hides(white', x) => Hides(white, x)
      /\ \A x \in Paths : x # to /\ Hides(white, x) => Hides(white', x)
  <2>1. dropped \in [Paths -> Whites] /\ ~Hides(dropped, to)
    BY Dropped DEF Inv, dropped
  <2>2. /\ AddWhiteout(from) \in [Paths -> Whites] /\ Hides(AddWhiteout(from), from)
        /\ \A x \in Paths : x # from => (Hides(AddWhiteout(from), x) <=> Hides(white, x))
    BY Added DEF Inv
  <2>3. /\ white' \in [Paths -> Whites] /\ white'[to] = dropped[to]
        /\ \A x \in Paths : x # to => white'[x] = AddWhiteout(from)[x]
    BY <1>1, <2>1, <2>2
  <2> QED BY <1>1, <2>1, <2>2, <2>3 DEF Hides
<1>9. BelowOK' /\ ScanOK' /\ away' \subseteq Paths
  BY <1>1, BelowKept, ScanKept DEF Inv
<1>10. TreesOK'
  BY <1>4, <1>8 DEF TreesOK, WellFormed
<1>11. \A x \in away' : AwayOK(x)'
  <2>1. ASSUME NEW x \in away', x # from
        PROVE  /\ x \in away
               /\ Hides(white, x) => Hides(white', x)
               /\ upper[x] = "none" /\ ~Hides(white, x) => upper'[x] = "none"
    <3>1. x \in Paths /\ x \in away /\ x # to /\ x # b
      BY <1>1, <1>9, <2>1
    <3>2. x \notin Parents[to]
      BY <1>6, <3>1
    <3> QED BY <1>4, <1>8, <3>1, <3>2
  <2> QED BY <1>1, <1>8, <1>9, <2>1, AwayKept
<1>12. ASSUME NEW h \in Handles, files[h] # Closed
       PROVE  HandleOK(files[h], upper', white', host)
  <2>1. HandleOK(files[h], upper, white, host)
    BY <1>12 DEF Inv, FilesOK
  <2>2. files[h].tree = "upper" /\ files[h].at # Gone =>
          files[h].at # from /\ from \notin Parents[files[h].at] /\ IsFile(upper'[files[h].at])
    <3> SUFFICES ASSUME files[h].tree = "upper", files[h].at # Gone
                 PROVE  /\ files[h].at # from /\ from \notin Parents[files[h].at]
                        /\ IsFile(upper'[files[h].at])
      OBVIOUS
    <3>1. files[h].at \in Paths /\ IsFile(upper[files[h].at])
      BY <2>1 DEF HandleOK, Handle
    <3>2. files[h].at # from
      BY <1>2, <3>1 DEF Exists, IsFile
    <3>3. from \notin Parents[files[h].at]
      BY <1>2, <3>1 DEF Exists, IsFile, Inv, TreesOK, WellFormed
    <3> QED BY <1>4, <1>5, <3>1, <3>2, <3>3 DEF IsFile
  <2> QED BY <1>8, <2>1, <2>2, HandleKeptUnder
<1>13. FilesOK'
  BY <1>1, <1>12 DEF Inv, FilesOK
<1> QED BY <1>9, <1>10, <1>11, <1>13 DEF Inv

LEMMA RenameStep ==
  ASSUME Inv, NEW from \in Paths, NEW to \in Paths, Rename(from, to)
  PROVE  Inv'
BY RenameUpperStep, RenameLowerStep DEF Rename

LEMMA RenameRefusedStep ==
  ASSUME Inv, NEW from \in Paths, NEW to \in Paths, RenameRefused(from, to)
  PROVE  Inv'
<1>1. /\ CanMakeParents(to) /\ \A q \in Parents[to] : View[q] = "dir"
      /\ upper' = WithParents(upper, to)
      /\ UNCHANGED <<roots, host, lower, white, files, away>>
      /\ SameScan
  BY DEF RenameRefused, Renames
<1>2. /\ upper' \in [Paths -> Stored] /\ WellFormed(upper')
      /\ \A x \in Paths : upper'[x] = IF x \in Parents[to] THEN "dir" ELSE upper[x]
      /\ \A x \in Paths : upper[x] # "none" => upper'[x] = upper[x]
  BY <1>1, ParentsMade DEF Inv
<1>3. BelowOK' /\ ScanOK'
  BY <1>1, BelowKept, ScanKept DEF Inv
<1>4. TreesOK'
  BY <1>1, <1>2 DEF Inv, TreesOK, WellFormed
<1>5. FilesOK'
  BY <1>1, <1>2, FilesKept DEF IsFile
<1>6. \A q \in Parents[to] : q \notin away
  BY <1>1, ParentsAreThere
<1>7. \A x \in away' : AwayOK(x)'
  <2>1. ASSUME NEW x \in away'
        PROVE  /\ x \in away
               /\ Hides(white, x) => Hides(white', x)
               /\ upper[x] = "none" /\ ~Hides(white, x) => upper'[x] = "none"
    BY <1>1, <1>2, <1>6 DEF Inv, Hides
  <2> QED BY <1>1, <2>1, AwayKept DEF Inv
<1> QED BY <1>1, <1>3, <1>4, <1>5, <1>7 DEF Inv

LEMMA TreesUntouched ==
  ASSUME Inv, UNCHANGED <<roots, host, lower, upper, white, files, away>>, ScanOK'
  PROVE  Inv'
BY BelowKept DEF Inv, FilesOK, TreesOK, WellFormed, AwayOK, Whiteouted, Exists

LEMMA ListingStep ==
  ASSUME Inv,
         \/ \E d \in Scanned : OpenDir(d)
         \/ \E count \in 1..2 : ReadDir(count)
         \/ CloseDir
  PROVE  Inv'
<1>1. UNCHANGED <<roots, host, lower, upper, white, files, away>>
  BY DEF OpenDir, ReadDir, CloseDir, trees
<1>2. ScanOK'
  <2>1. ASSUME NEW d \in Scanned, OpenDir(d)
        PROVE  ScanOK'
    <3>1. d \in Dirs
      BY PathsAssumption DEF Dirs
    <3>2. Entries(d) \subseteq Children[d]
      BY DEF Entries
    <3>3. scan'.dir = d /\ scan'.owed = Entries(d)
      BY <2>1 DEF OpenDir
    <3> QED BY <3>1, <3>2, <3>3 DEF ScanOK
  <2>2. ASSUME NEW count \in 1..2, ReadDir(count)
        PROVE  ScanOK'
    <3>1. scan'.dir = scan.dir /\ scan'.owed \subseteq scan.owed
      BY <2>2 DEF ReadDir
    <3> QED BY <3>1 DEF Inv, ScanOK
  <2>3. ASSUME CloseDir
        PROVE  ScanOK'
    BY <2>3 DEF CloseDir, NoScan, ScanOK, Dirs
  <2> QED BY <2>1, <2>2, <2>3
<1> QED BY <1>1, <1>2, TreesUntouched

LEMMA InitInv == Init => Inv
<1> SUFFICES ASSUME Init
             PROVE  Inv
  OBVIOUS
<1>1. PICK h \in Hosts : host = h.tree /\ roots = {r \in h.roots : h.tree[r] # "none"}
  BY DEF Init
<1>2. BelowOK
  BY <1>1, PathsAssumption, TreesAssumption DEF Init, BelowOK, Stored
<1>3. TreesOK
  BY DEF Init, TreesOK, WellFormed, Stored, Node, Whites
<1>4. FilesOK
  BY DEF Init, FilesOK
<1>5. ScanOK
  BY DEF Init, ScanOK, NoScan, Dirs
<1> QED BY <1>2, <1>3, <1>4, <1>5 DEF Init, Inv

LEMMA NextInv == Inv /\ [Next]_vars => Inv'
<1> SUFFICES ASSUME Inv, [Next]_vars
             PROVE  Inv'
  OBVIOUS
<1>1. ASSUME NEW p \in Paths, NEW truncate \in BOOLEAN, SetattrByName(p, truncate)
      PROVE  Inv'
  BY <1>1, SetattrStep DEF SetattrByName
<1>2. ASSUME NEW h \in Handles, NEW truncate \in BOOLEAN, SetattrByHandle(h, truncate)
      PROVE  Inv'
  <2>1. files[h].ino \in Paths
    BY <1>2 DEF SetattrByHandle, Inv, FilesOK, HandleOK, Handle
  <2> QED BY <1>2, <2>1, SetattrStep DEF SetattrByHandle
<1>3. ASSUME NEW p \in Paths, NEW h \in Handles, NEW truncate \in BOOLEAN,
             OpenForWriting(h, p, truncate) \/ Create(h, p, truncate)
      PROVE  Inv'
  BY <1>3, OpenForWritingStep, CreateStep
<1>4. ASSUME NEW p \in Paths, NEW h \in Handles, OpenForReading(h, p)
      PROVE  Inv'
  BY <1>4, OpenForReadingStep
<1>5. ASSUME NEW p \in Paths, SetattrRefused(p) \/ Mkdir(p) \/ Unlink(p) \/ Rmdir(p)
      PROVE  Inv'
  BY <1>5, SetattrRefusedStep, MkdirStep, UnlinkStep, RmdirStep
<1>6. ASSUME NEW p \in Paths, NEW to \in Paths, Rename(p, to) \/ RenameRefused(p, to)
      PROVE  Inv'
  BY <1>6, RenameStep, RenameRefusedStep
<1>7. ASSUME NEW h \in Handles, Write(h) \/ Release(h)
      PROVE  Inv'
  BY <1>7, WriteStep, ReleaseStep
<1>8. ASSUME NEW p \in LinkNames, Symlink(p)
      PROVE  Inv'
  BY <1>8, MkdirStep, PathsAssumption
<1>9. CASE \/ \E d \in Scanned : OpenDir(d)
           \/ \E count \in 1..2 : ReadDir(count)
           \/ CloseDir
  BY <1>9, ListingStep
<1>10. CASE UNCHANGED vars
  BY <1>10, TreesUntouched DEF vars, Inv, ScanOK
<1> QED BY <1>1, <1>2, <1>3, <1>4, <1>5, <1>6, <1>7, <1>8, <1>9, <1>10 DEF Next

LEMMA Invariance == Spec => []Inv
BY InitInv, NextInv, PTL DEF Spec

-----------------------------------------------------------------------------
(* The theorems *)

LEMMA TypesFollow == Inv => FilesTypeOK
<1> SUFFICES ASSUME Inv
             PROVE  FilesTypeOK
  OBVIOUS
<1>1. ASSUME NEW h \in Handles, files[h] # Closed
      PROVE  /\ files[h].ino \in Paths /\ files[h].mode \in {"read", "write"}
             /\ files[h].at \in Paths \cup {Gone}
             /\ InUpper(h, files[h].at) /\ files[h].at # Gone => IsFile(upper[files[h].at])
  BY <1>1 DEF Inv, FilesOK, HandleOK, Handle, InUpper
<1> QED BY <1>1 DEF Inv, BelowOK, TreesOK, ScanOK, FilesTypeOK, Stored, Whites, Node

(* Whatever requests come, the trees, the open files and the listing are     *)
(* what the daemon takes them for: what the upper tree stores is in          *)
(* directories, and the file behind an open handle is a file there.          *)
THEOREM FilesTypeCorrect == Spec => []FilesTypeOK
BY Invariance, TypesFollow, PTL

(* No request writes the snapshot or the host's files under the fallback     *)
(* roots: what is open for writing on the host is a device.                  *)
THEOREM HostIsNeverWritten == Spec => HostAndSnapshotUntouched
<1>1. Inv /\ [Next]_vars => [UNCHANGED <<host, lower>>]_vars
  <2> SUFFICES ASSUME Inv, [Next]_vars
               PROVE  UNCHANGED <<host, lower>>
    OBVIOUS
  <2>1. ASSUME NEW h \in Handles, Write(h)
        PROVE  UNCHANGED <<host, lower>>
    BY <2>1, WriteStep DEF Write
  <2>2. CASE ~\E h \in Handles : Write(h)
    BY <2>2 DEF Next, vars, trees, SetattrByName, SetattrByHandle, Setattr, SetattrRefused,
                OpenForWriting, OpenForReading, Create, Mkdir, Symlink, Unlink, Rmdir,
                RemoveName, Rename, RenameRefused, Release, OpenDir, ReadDir, CloseDir
  <2> QED BY <2>1, <2>2
<1> QED BY <1>1, Invariance, PTL DEF Spec, HostAndSnapshotUntouched

(* What has been removed stays away until a request makes it again.          *)
THEOREM RemovedIsNeverShown == Spec => []RemovedStaysAway
<1>1. Inv => RemovedStaysAway
  BY AwayIsHidden DEF Inv, RemovedStaysAway
<1> QED BY <1>1, Invariance, PTL

(* The file a program writes is the one its name shows.                      *)
THEOREM WritersAreSeen == Spec => []OpenFilesAreSeen
<1>1. ASSUME Inv, NEW h \in Handles, files[h] # Closed, files[h].mode = "write",
             files[h].tree = "upper", files[h].at \notin {Gone, LinkTarget}
      PROVE  View[files[h].at] = upper[files[h].at]
  <2>1. HandleOK(files[h], upper, white, host)
    BY <1>1 DEF Inv, FilesOK
  <2>2. files[h].at \in Paths /\ IsFile(upper[files[h].at])
    BY <1>1, <2>1 DEF HandleOK, Handle
  <2>3. \A q \in Parents[files[h].at] \cup {files[h].at} : ~Hides(white, q)
    BY <1>1, <2>1 DEF HandleOK
  <2> QED BY <1>1, <2>2, <2>3, StoredIsSeen DEF Inv
<1>2. Inv => OpenFilesAreSeen
  BY <1>1 DEF OpenFilesAreSeen
<1> QED BY <1>2, Invariance, PTL

LEMMA ListedIsFound ==
  ASSUME BelowOK, NEW d \in Dirs, IsDir(d), NEW q \in Entries(d), ~DeadLink(q)
  PROVE  View[q] # "none"
<1> SUFFICES ASSUME View[q] = "none"
             PROVE  FALSE
  OBVIOUS
<1>1. /\ q \in Children[d] /\ ~Whiteouted(q)
      /\ \/ lower[q] # "none" \/ upper[q] # "none"
         \/ FallbackListed(d) /\ host[q] # "none"
         \/ q \in RootNames(d)
  BY DEF Entries
<1>2. host[q] # "link" /\ lower[q] # "link" /\ upper[q] # "link"
  BY DEF DeadLink
<1>3. q \in Paths /\ \A x \in Parents[q] : Lookup(x) = "dir"
  <2>1. CASE d = Root
    BY <1>1, <2>1, ChildrenOfRoot
  <2>2. CASE d # Root
    <3>1. d \in Paths /\ View[d] = "dir"
      BY <2>2 DEF Dirs, IsDir
    <3>2. Lookup(d) = "dir" /\ \A x \in Parents[d] : x \in Paths /\ View[x] = "dir"
      BY <3>1, ViewFacts, ParentsArePaths
    <3>3. \A x \in Parents[d] : Lookup(x) = "dir"
      BY <3>2, ViewFacts
    <3> QED BY <1>1, <3>1, <3>2, <3>3, ChildrenOfDirectory
  <2> QED BY <2>1, <2>2
<1>4. Lookup(q) = "none"
  BY <1>3 DEF View
<1>5. ~Exists(upper, q) /\ ~Exists(lower, q)
  BY <1>1, <1>4 DEF Lookup, StoredIn, Exists
<1>6. lower[q] = "none" /\ upper[q] = "none"
  BY <1>2, <1>5 DEF Exists
<1>7. ~HasFallback(q) /\ ~IsVirtualDir(q)
  BY <1>1, <1>4, <1>5 DEF Lookup, StoredIn, HasFallback
<1>8. CASE FallbackListed(d) /\ host[q] # "none"
  <2>1. d \in Paths /\ InRoot(d)
    BY <1>8 DEF FallbackListed, HasFallback, Dirs
  <2>2. InRoot(q)
    BY <1>1, <1>3, <2>1, ChildrenOfDirectory, RootsFacts
  <2> QED BY <1>2, <1>7, <1>8, <2>2 DEF HasFallback
<1>9. CASE q \in RootNames(d)
  <2>1. PICK r \in roots : IsPrefix(q, r)
    BY <1>9 DEF RootNames
  <2>2. r \in Paths /\ host[r] # "none"
    BY DEF BelowOK
  <2>3. r = q \/ q \in Parents[r]
    BY <1>3, <2>1, <2>2, ParentElements
  <2> QED BY <1>2, <1>3, <1>7, <2>2, <2>3, RootsFacts DEF HasFallback
<1> QED BY <1>1, <1>6, <1>8, <1>9

LEMMA FoundIsListed ==
  ASSUME BelowOK, NEW d \in Dirs, NEW q \in Children[d], View[q] # "none"
  PROVE  q \in Entries(d)
<1>1. q \in Paths
  BY DEF Children
<1>2. View[q] = Lookup(q) /\ Lookup(q) # "none" /\ ~Whiteouted(q)
  BY <1>1, ViewFacts, LookupFacts
<1>3. \/ Exists(upper, q) \/ Exists(lower, q)
      \/ HasFallback(q) \/ IsVirtualDir(q)
  BY <1>1, <1>2, LookupFacts
<1>4. CASE Exists(upper, q) \/ Exists(lower, q)
  BY <1>2, <1>4 DEF Entries, Exists
<1>5. CASE IsVirtualDir(q)
  BY <1>2, <1>5 DEF Entries, RootNames, IsVirtualDir, IsStrictPrefix
<1>6. CASE HasFallback(q)
  <2>1. PICK r \in roots : r = q \/ r \in Parents[q]
    BY <1>1, <1>6, RootsFacts DEF HasFallback
  <2>2. r \in Paths
    BY DEF BelowOK
  <2>3. CASE r = q
    <3>1. IsPrefix(q, r)
      BY <1>1, <2>2, <2>3, ParentElements
    <3> QED BY <1>2, <3>1 DEF Entries, RootNames
  <2>4. CASE r \in Parents[q]
    <3>1. d # Root /\ d \in Paths
      BY <2>4, ChildrenOfRoot DEF Dirs
    <3>2. Parents[q] = Parents[d] \cup {d}
      BY <3>1, ChildrenOfDirectory
    <3>3. InRoot(d)
      BY <2>4, <3>1, <3>2, RootsFacts
    <3>4. host[q] # "none" /\ host[d] = "dir"
      BY <1>1, <1>6, <3>2 DEF HasFallback, BelowOK, WellFormed
    <3>5. FallbackListed(d)
      BY <3>1, <3>3, <3>4 DEF FallbackListed, HasFallback
    <3> QED BY <1>2, <3>4, <3>5 DEF Entries
  <2> QED BY <2>1, <2>3, <2>4
<1> QED BY <1>3, <1>4, <1>5, <1>6

(* readdir and lookup agree, of every directory and in every state.          *)
THEOREM ListingsAgree == Spec => []ListingIsLookup
<1>1. ASSUME Inv, NEW d \in Dirs, IsDir(d)
      PROVE  {q \in Entries(d) : ~DeadLink(q)} = {q \in Children[d] : View[q] # "none"}
  <2>1. Entries(d) \subseteq Children[d]
    BY DEF Entries
  <2>2. \A q \in Entries(d) : ~DeadLink(q) => View[q] # "none"
    BY <1>1, ListedIsFound DEF Inv
  <2>3. \A q \in Children[d] : View[q] # "none" => q \in Entries(d) /\ ~DeadLink(q)
    BY <1>1, FoundIsListed DEF Inv, DeadLink
  <2> QED BY <2>1, <2>2, <2>3
<1>2. Inv => ListingIsLookup
  BY <1>1 DEF ListingIsLookup
<1> QED BY <1>2, Invariance, PTL

-----------------------------------------------------------------------------
(* A listing read page by page *)

(* What is still owed is there, and after what has been read. *)
ScanInv ==
  /\ scan.offset \in Nat
  /\ \A q \in scan.owed : q \in Entries(scan.dir) /\ Position(scan.dir, q) > scan.offset

UpTo(S, q) == {r \in S : Rank[r] <= Rank[q]}

LEMMA UpToFacts ==
  ASSUME NEW S \in SUBSET Paths, NEW q \in S
  PROVE  /\ IsFiniteSet(UpTo(S, q))
         /\ Cardinality(S) \in Nat
         /\ Cardinality(UpTo(S, q)) \in 1..Cardinality(S)
<1>1. IsFiniteSet(S)
  BY FS_Subset, PathsAssumption
<1>2. UpTo(S, q) \in SUBSET S
  BY DEF UpTo
<1>3. IsFiniteSet(UpTo(S, q)) /\ Cardinality(UpTo(S, q)) <= Cardinality(S)
  BY <1>1, <1>2, FS_Subset
<1>4. q \in UpTo(S, q)
  BY PathsAssumption DEF UpTo
<1>5. Cardinality(S) \in Nat /\ Cardinality(UpTo(S, q)) \in Nat
  BY <1>1, <1>3, FS_CardinalityType
<1>6. Cardinality(UpTo(S, q)) # 0
  BY <1>3, <1>4, FS_EmptySet
<1> QED BY <1>3, <1>5, <1>6

LEMMA UpToGrows ==
  ASSUME NEW S, NEW T \in SUBSET Paths, S \subseteq T, NEW q \in S
  PROVE  Cardinality(UpTo(S, q)) <= Cardinality(UpTo(T, q))
<1>1. IsFiniteSet(UpTo(T, q))
  BY UpToFacts
<1>2. UpTo(S, q) \in SUBSET UpTo(T, q)
  BY DEF UpTo
<1> QED BY <1>1, <1>2, FS_Subset

LEMMA EntriesArePaths == \A d \in Dirs : Entries(d) \subseteq Paths
BY DEF Entries, Children

(* Where the entries of the directory that is read only become more, so do   *)
(* those before each of them.                                                *)
LEMMA ScanGoesOn ==
  ASSUME Inv, ScanInv, UNCHANGED scan, Entries(scan.dir) \subseteq Entries(scan.dir)'
  PROVE  ScanInv'
<1> DEFINE d == scan.dir
<1>1. d \in Dirs /\ scan' = scan
  BY DEF Inv, ScanOK
<1>2. Entries(d)' \in SUBSET Paths
  BY <1>1 DEF Entries, Children
<1>3. ASSUME NEW q \in scan.owed
      PROVE  q \in Entries(d)' /\ Cardinality(UpTo(Entries(d)', q)) > scan.offset
  <2>1. q \in Entries(d) /\ Cardinality(UpTo(Entries(d), q)) > scan.offset
    BY <1>1 DEF ScanInv, Position, UpTo
  <2>2. Cardinality(UpTo(Entries(d), q)) <= Cardinality(UpTo(Entries(d)', q))
    BY <1>2, <2>1, UpToGrows
  <2>3. Entries(d) \in SUBSET Paths /\ q \in Entries(d)'
    BY <1>1, <2>1, EntriesArePaths
  <2>4. Cardinality(UpTo(Entries(d), q)) \in Nat /\ Cardinality(UpTo(Entries(d)', q)) \in Nat
    BY <1>2, <2>1, <2>3, UpToFacts
  <2>5. scan.offset \in Nat
    BY DEF ScanInv
  <2> QED BY <2>1, <2>2, <2>3, <2>4, <2>5
<1>4. scan'.offset \in Nat
  BY <1>1 DEF ScanInv
<1>5. \A q : Cardinality(UpTo(Entries(d)', q)) = Position(d, q)'
  BY DEF Position, UpTo
<1> QED BY <1>1, <1>3, <1>4, <1>5 DEF ScanInv

LEMMA NothingOwed == scan' = NoScan => ScanInv'
BY DEF ScanInv, NoScan

LEMMA SameScanOn == Inv /\ ScanInv /\ SameScan => ScanInv'
<1> SUFFICES ASSUME Inv, ScanInv, SameScan
             PROVE  ScanInv'
  OBVIOUS
<1>1. PICK d \in {scan.dir} : \E before \in {Entries(d)} :
        scan' = IF before \subseteq Entries(d)' THEN scan ELSE NoScan
  BY DEF SameScan
<1>2. CASE scan' = NoScan
  BY <1>2, NothingOwed
<1>3. CASE scan' = scan /\ Entries(d) \subseteq Entries(d)'
  <2>1. d = scan.dir /\ d = scan'.dir
    BY <1>3
  <2>2. Entries(d)' = Entries(scan.dir)'
    BY <2>1 DEF Entries, Whiteouted, FallbackListed, HasFallback, InRoot, RootNames
  <2> QED BY <1>3, <2>1, <2>2, ScanGoesOn
<1> QED BY <1>1, <1>2, <1>3

(* Requests that leave the trees as they are, but for the data of a file or  *)
(* the time of a device.                                                     *)
LEMMA SameEntries ==
  ASSUME Inv, ScanInv, UNCHANGED <<roots, host, lower, white, scan>>,
         \A q \in Paths : upper[q] = "none" <=> upper'[q] = "none"
  PROVE  ScanInv'
<1>1. ASSUME NEW d \in Dirs, NEW q \in Entries(d)
      PROVE  q \in Entries(d)'
  BY <1>1 DEF Entries, Children, Whiteouted, FallbackListed, HasFallback, InRoot, RootNames
<1>2. scan.dir \in Dirs /\ scan'.dir = scan.dir
  BY DEF Inv, ScanOK
<1>3. Entries(scan.dir) \subseteq Entries(scan.dir)'
  BY <1>1, <1>2
<1> QED BY <1>3, ScanGoesOn

LEMMA WriteGoesOn ==
  ASSUME Inv, ScanInv, NEW h \in Handles, Write(h)
  PROVE  ScanInv'
<1>1. UNCHANGED <<roots, host, lower, white, scan>>
  BY WriteStep DEF Write
<1>2. HandleOK(files[h], upper, white, host) /\ files[h].mode = "write" /\ files[h].at # Gone
  BY DEF Write, Inv, FilesOK
<1>3. CASE files[h].tree = "upper"
  <2>1. upper' = [upper EXCEPT ![files[h].at] = "own"]
    BY <1>3 DEF Write
  <2>2. upper[files[h].at] # "none"
    BY <1>2, <1>3 DEF HandleOK, IsFile
  <2>3. \A q \in Paths : upper[q] = "none" <=> upper'[q] = "none"
    BY <2>1, <2>2 DEF Inv, TreesOK
  <2> QED BY <1>1, <2>3, SameEntries
<1>4. CASE files[h].tree # "upper"
  <2>1. upper' = upper
    BY <1>4 DEF Write
  <2> QED BY <1>1, <2>1, SameEntries
<1> QED BY <1>3, <1>4

LEMMA OpenDirStarts ==
  ASSUME NEW d \in Dirs, OpenDir(d)
  PROVE  ScanInv'
<1>1. scan' = [dir |-> d, offset |-> 0, owed |-> Entries(d)]
      /\ UNCHANGED <<roots, host, lower, upper, white>>
  BY DEF OpenDir, trees
<1>2. Entries(d)' = Entries(d)
  BY <1>1 DEF Entries, Whiteouted, FallbackListed, HasFallback, InRoot, RootNames
<1>3. Entries(d) \in SUBSET Paths
  BY EntriesArePaths
<1>4. ASSUME NEW q \in Entries(d)
      PROVE  Position(d, q)' > 0
  <2>1. /\ Cardinality(Entries(d)) \in Nat
        /\ Cardinality(UpTo(Entries(d), q)) \in 1..Cardinality(Entries(d))
    BY <1>3, UpToFacts
  <2>2. Position(d, q)' = Cardinality(UpTo(Entries(d), q))
    BY <1>2 DEF Position, UpTo
  <2> QED BY <2>1, <2>2
<1>5. scan'.dir = d /\ scan'.offset = 0 /\ scan'.owed = Entries(d)
  BY <1>1
<1> QED BY <1>2, <1>4, <1>5 DEF ScanInv

LEMMA ReadDirGoesOn ==
  ASSUME Inv, ScanInv, NEW count \in 1..2, ReadDir(count)
  PROVE  ScanInv'
<1> DEFINE d == scan.dir
           end == PageEnd(count)
<1>1. d \in Dirs /\ scan.offset \in Nat
  BY DEF Inv, ScanOK, ScanInv
<1>2. /\ scan' = [dir |-> d, offset |-> end, owed |-> scan.owed \ Page(d, scan.offset, end)]
      /\ UNCHANGED <<roots, host, lower, upper, white>>
  BY DEF ReadDir, trees
<1>3. Entries(d) \in SUBSET Paths
  BY <1>1, EntriesArePaths
<1>4. Cardinality(Entries(d)) \in Nat
  BY <1>3, FS_Subset, FS_CardinalityType, PathsAssumption
<1>5. end \in Nat
  BY <1>1, <1>4 DEF PageEnd
<1>6. Entries(d)' = Entries(d)
  <2>1. d' = d
    BY <1>2
  <2> QED BY <1>2, <2>1
          DEF Entries, Whiteouted, FallbackListed, HasFallback, InRoot, RootNames
<1> HIDE DEF end
<1>7. ASSUME NEW q \in scan.owed, q \notin Page(d, scan.offset, end)
      PROVE  q \in Entries(d) /\ Cardinality(UpTo(Entries(d), q)) > end
  <2>1. q \in Entries(d) /\ Position(d, q) > scan.offset
    BY DEF ScanInv
  <2>2. Position(d, q) = Cardinality(UpTo(Entries(d), q))
    BY DEF Position, UpTo
  <2>3. Position(d, q) \in Nat
    BY <1>3, <1>4, <2>1, <2>2, UpToFacts
  <2>4. ~(Position(d, q) <= end)
    BY <1>1, <1>7, <2>1, <2>3 DEF Page
  <2> QED BY <1>5, <2>1, <2>2, <2>3, <2>4
<1>8. scan'.dir = d /\ scan'.offset = end /\ scan'.owed = scan.owed \ Page(d, scan.offset, end)
  BY <1>2
<1>9. \A q : Position(scan.dir, q)' = Cardinality(UpTo(Entries(d), q))
  BY <1>6 DEF Position, UpTo
<1> QED BY <1>5, <1>6, <1>7, <1>8, <1>9 DEF ScanInv

LEMMA ScanNext == Inv /\ ScanInv /\ [Next]_vars => ScanInv'
<1> SUFFICES ASSUME Inv, ScanInv, [Next]_vars
             PROVE  ScanInv'
  OBVIOUS
<1>1. ASSUME NEW p \in Paths, NEW truncate \in BOOLEAN, SetattrByName(p, truncate)
      PROVE  ScanInv'
  BY <1>1, SameScanOn DEF SetattrByName, Setattr
<1>2. ASSUME NEW h \in Handles, NEW truncate \in BOOLEAN, SetattrByHandle(h, truncate)
      PROVE  ScanInv'
  BY <1>2, SameScanOn DEF SetattrByHandle, Setattr
<1>3. ASSUME NEW p \in Paths, NEW h \in Handles, NEW truncate \in BOOLEAN,
             OpenForWriting(h, p, truncate) \/ Create(h, p, truncate)
      PROVE  ScanInv'
  BY <1>3, SameScanOn DEF OpenForWriting, Create
<1>4. ASSUME NEW p \in Paths, NEW h \in Handles, OpenForReading(h, p)
      PROVE  ScanInv'
  BY <1>4, SameEntries DEF OpenForReading, trees
<1>5. ASSUME NEW p \in Paths, SetattrRefused(p) \/ Mkdir(p) \/ Unlink(p) \/ Rmdir(p)
      PROVE  ScanInv'
  BY <1>5, SameScanOn DEF SetattrRefused, Mkdir, Unlink, Rmdir, RemoveName
<1>6. ASSUME NEW p \in Paths, NEW to \in Paths, Rename(p, to) \/ RenameRefused(p, to)
      PROVE  ScanInv'
  BY <1>6, SameScanOn DEF Rename, RenameRefused
<1>7. ASSUME NEW h \in Handles, Write(h) \/ Release(h)
      PROVE  ScanInv'
  <2>1. CASE Release(h)
    BY <2>1, SameEntries DEF Release, trees
  <2> QED BY <1>7, <2>1, WriteGoesOn
<1>8. ASSUME NEW p \in LinkNames, Symlink(p)
      PROVE  ScanInv'
  BY <1>8, SameScanOn DEF Symlink
<1>9. ASSUME NEW d \in Scanned, OpenDir(d)
      PROVE  ScanInv'
  BY <1>9, OpenDirStarts, PathsAssumption DEF Dirs
<1>10. ASSUME NEW count \in 1..2, ReadDir(count)
       PROVE  ScanInv'
  BY <1>10, ReadDirGoesOn
<1>11. CASE CloseDir
  BY <1>11, NothingOwed DEF CloseDir
<1>12. CASE UNCHANGED vars
  BY <1>12, SameEntries DEF vars
<1> QED BY <1>1, <1>2, <1>3, <1>4, <1>5, <1>6, <1>7, <1>8, <1>9, <1>10, <1>11, <1>12 DEF Next

(* Of a directory read to its end, nothing is owed any more: what is owed is *)
(* always after what has been read, also where entries are added meanwhile,  *)
(* and the listing is over where one is removed.                             *)
THEOREM ScansMissNothing == Spec => []ScanMissesNothing
<1>1. Init => ScanInv
  BY DEF Init, NoScan, ScanInv
<1>2. Inv /\ ScanInv => ScanMissesNothing
  <2> SUFFICES ASSUME Inv, ScanInv, NEW q \in scan.owed,
                      scan.offset >= Cardinality(Entries(scan.dir))
               PROVE  FALSE
    BY DEF ScanMissesNothing
  <2>1. Entries(scan.dir) \in SUBSET Paths
    BY EntriesArePaths DEF Inv, ScanOK
  <2>2. q \in Entries(scan.dir) /\ Cardinality(UpTo(Entries(scan.dir), q)) > scan.offset
    BY DEF ScanInv, Position, UpTo
  <2>3. /\ Cardinality(Entries(scan.dir)) \in Nat
        /\ Cardinality(UpTo(Entries(scan.dir), q)) \in 1..Cardinality(Entries(scan.dir))
    BY <2>1, <2>2, UpToFacts
  <2>4. scan.offset \in Nat
    BY DEF ScanInv
  <2> QED BY <2>2, <2>3, <2>4
<1> QED BY <1>1, <1>2, InitInv, NextInv, ScanNext, PTL DEF Spec

===============================================================================
