---------------------------- MODULE ApplyProofs ----------------------------
(***************************************************************************)
(* Proofs about Apply: an apply shows the environment the same files all   *)
(* the time, spares what the host's user has changed, and delivers or      *)
(* refuses as it reports, whatever programs rename.                        *)
(*                                                                         *)
(* The invariant AInv follows the entries of an apply.  They are settled   *)
(* parents first; of the entry in progress it says what the operations     *)
(* before `now' have left in the host's and in the lower tree.  Those two  *)
(* differ only where the user's edits or a write-back cut off explain it,  *)
(* and an entry of the upper tree, or a whiteout, covers every path where  *)
(* the lower tree changes: this is why nothing of it is seen.              *)
(***************************************************************************)
EXTENDS Apply, PathOverlayProofs

-----------------------------------------------------------------------------
(* Operations on a tree *)

LEMMA OneSteps ==
  ASSUME NEW a
  PROVE  /\ <<a>> # <<>> /\ Head(<<a>>) = a
         /\ Tail(<<a>>) = <<>> /\ Last(<<a>>) = a
BY DEF Last

LEMMA TwoSteps ==
  ASSUME NEW a, NEW b
  PROVE  /\ <<a, b>> # <<>> /\ Head(<<a, b>>) = a
         /\ Tail(<<a, b>>) = <<b>> /\ Last(<<a, b>>) = b
BY DEF Last

LEMMA ThreeSteps ==
  ASSUME NEW a, NEW b, NEW c
  PROVE  /\ <<a, b, c>> # <<>> /\ Head(<<a, b, c>>) = a
         /\ Tail(<<a, b, c>>) = <<b, c>> /\ Last(<<a, b, c>>) = c
BY DEF Last

LEMMA FourSteps ==
  ASSUME NEW a, NEW b, NEW c, NEW d
  PROVE  /\ <<a, b, c, d>> # <<>> /\ Head(<<a, b, c, d>>) = a
         /\ Tail(<<a, b, c, d>>) = <<b, c, d>> /\ Last(<<a, b, c, d>>) = d
BY DEF Last

LEMMA FiveSteps ==
  ASSUME NEW a, NEW b, NEW c, NEW d, NEW e
  PROVE  /\ <<a, b, c, d, e>> # <<>> /\ Head(<<a, b, c, d, e>>) = a
         /\ Tail(<<a, b, c, d, e>>) = <<b, c, d, e>> /\ Last(<<a, b, c, d, e>>) = e
BY DEF Last

LEMMA SixSteps ==
  ASSUME NEW a, NEW b, NEW c, NEW d, NEW e, NEW f
  PROVE  /\ <<a, b, c, d, e, f>> # <<>> /\ Head(<<a, b, c, d, e, f>>) = a
         /\ Tail(<<a, b, c, d, e, f>>) = <<b, c, d, e, f>> /\ Last(<<a, b, c, d, e, f>>) = f
BY DEF Last

LEMMA PairsJoined ==
  ASSUME NEW a, NEW b, NEW c, NEW d
  PROVE  <<a, b>> \o <<c, d>> = <<a, b, c, d>>
<1> DEFINE S == {a, b, c, d}
<1>1. ASSUME NEW s \in Seq(S), NEW t \in Seq(S)
      PROVE  /\ s \o t \in Seq(S) /\ Len(s \o t) = Len(s) + Len(t)
             /\ \A i \in 1..Len(s) : (s \o t)[i] = s[i]
             /\ \A i \in 1..Len(t) : (s \o t)[Len(s) + i] = t[i]
  BY ConcatFacts
<1>2. <<a, b>> \in Seq(S) /\ <<c, d>> \in Seq(S)
  OBVIOUS
<1>3. PICK u \in Seq(S) : u = <<a, b>> \o <<c, d>>
  BY <1>1, <1>2
<1>4. Len(u) = 4 /\ u[1] = a /\ u[2] = b /\ u[3] = c /\ u[4] = d
  BY <1>1, <1>2, <1>3
<1>5. u = <<a, b, c, d>>
  BY <1>4
<1> QED BY <1>3, <1>5

LEMMA TriplesJoined ==
  ASSUME NEW a, NEW b, NEW c, NEW d, NEW e, NEW f
  PROVE  <<a, b, c>> \o <<d, e, f>> = <<a, b, c, d, e, f>>
<1> DEFINE S == {a, b, c, d, e, f}
<1>1. ASSUME NEW s \in Seq(S), NEW t \in Seq(S)
      PROVE  /\ s \o t \in Seq(S) /\ Len(s \o t) = Len(s) + Len(t)
             /\ \A i \in 1..Len(s) : (s \o t)[i] = s[i]
             /\ \A i \in 1..Len(t) : (s \o t)[Len(s) + i] = t[i]
  BY ConcatFacts
<1>2. <<a, b, c>> \in Seq(S) /\ <<d, e, f>> \in Seq(S)
  OBVIOUS
<1>3. PICK u \in Seq(S) : u = <<a, b, c>> \o <<d, e, f>>
  BY <1>1, <1>2
<1>4. Len(u) = 6 /\ u[1] = a /\ u[2] = b /\ u[3] = c /\ u[4] = d /\ u[5] = e /\ u[6] = f
  BY <1>1, <1>2, <1>3
<1>5. u = <<a, b, c, d, e, f>>
  BY <1>4
<1> QED BY <1>3, <1>5

(* remove_dir_all takes what has nothing below it. *)
LEMMA LeafRemoved ==
  ASSUME NEW N, "none" \in N, NEW t \in [Paths -> N], WellFormed(t), NEW p \in Paths,
         NEW q \in Below[p], \A r \in Below[p] : t[r] # "none" => Len(r) <= Len(q),
         NEW u, u = [t EXCEPT ![q] = "none"]
  PROVE  /\ u \in [Paths -> N] /\ WellFormed(u)
         /\ u[q] = "none" /\ \A r \in Paths \ {q} : u[r] = t[r]
<1>1. q \in Paths
  BY ParentsArePaths
<1>2. u \in [Paths -> N] /\ u[q] = "none" /\ \A r \in Paths \ {q} : u[r] = t[r]
  BY <1>1
<1>3. \A r \in Paths : q \in Parents[r] => t[r] = "none"
  <2> SUFFICES ASSUME NEW r \in Paths, q \in Parents[r]
               PROVE  t[r] = "none"
    OBVIOUS
  <2>1. r \in Below[p]
    BY <1>1, BelowIsParents, ParentsOrder
  <2>2. Len(q) < Len(r) /\ Len(q) \in Nat /\ Len(r) \in Nat
    BY <1>1, ParentElements, PathsAreSequences
  <2> QED BY <1>1, <2>1, <2>2
<1>4. WellFormed(u)
  <2> SUFFICES ASSUME NEW r \in Paths, u[r] # "none", NEW s \in Parents[r]
               PROVE  u[s] = "dir"
    BY DEF WellFormed
  <2>1. s \in Paths /\ t[r] # "none" /\ s # q
    BY <1>1, <1>2, <1>3, ParentsArePaths
  <2> QED BY <1>2, <2>1 DEF WellFormed
<1> QED BY <1>1, <1>2, <1>4

LEMMA FileTaken ==
  ASSUME NEW N, "none" \in N, NEW t \in [Paths -> N], WellFormed(t), NEW p \in Paths,
         NEW u, u = IF IsFile(t[p]) THEN [t EXCEPT ![p] = "none"] ELSE t
  PROVE  /\ u \in [Paths -> N] /\ WellFormed(u)
         /\ u[p] \in {"none", "dir"} /\ (t[p] = "dir" => u[p] = "dir")
         /\ \A r \in Paths \ {p} : u[r] = t[r]
<1>1. CASE IsFile(t[p])
  <2>1. /\ u \in [Paths -> N] /\ u[p] = "none" /\ \A r \in Paths \ {p} : u[r] = t[r]
    BY <1>1
  <2>2. WellFormed(u)
    <3> SUFFICES ASSUME NEW r \in Paths, u[r] # "none", NEW s \in Parents[r]
                 PROVE  u[s] = "dir"
      BY DEF WellFormed
    <3>1. s \in Paths /\ t[r] # "none" /\ t[s] = "dir"
      BY <2>1, ParentsArePaths DEF WellFormed
    <3> QED BY <1>1, <2>1, <3>1 DEF IsFile
  <2> QED BY <1>1, <2>1, <2>2 DEF IsFile
<1>2. CASE ~IsFile(t[p])
  BY <1>2 DEF IsFile
<1> QED BY <1>1, <1>2

LEMMA NodePlaced ==
  ASSUME NEW N, "dir" \in N, NEW t \in [Paths -> N], WellFormed(t), NEW p \in Paths,
         NEW v \in N \ {"none"}, ~BelowFile(t, p), t[p] # "none" => (t[p] = "dir" <=> v = "dir"),
         NEW u, u = Placed(t, p, v)
  PROVE  /\ u \in [Paths -> N] /\ WellFormed(u)
         /\ u[p] = v /\ \A r \in Parents[p] : u[r] = "dir"
         /\ \A r \in Paths \ {p} : r \notin Parents[p] => u[r] = t[r]
         /\ \A r \in Parents[p] : t[r] = "dir" => u[r] = t[r]
<1>1. \A r \in Paths : u[r] = IF r = p THEN v
                              ELSE IF r \in Parents[p] /\ t[r] = "none" THEN "dir" ELSE t[r]
  BY DEF Placed, Exists
<1>2. u \in [Paths -> N]
  BY DEF Placed
<1>3. \A r \in Parents[p] : r \in Paths /\ r # p /\ u[r] = "dir"
  BY <1>1, ParentsArePaths, ParentsOrder DEF BelowFile, IsFile
<1>4. WellFormed(u)
  <2> SUFFICES ASSUME NEW r \in Paths, u[r] # "none", NEW s \in Parents[r]
               PROVE  u[s] = "dir"
    BY DEF WellFormed
  <2>1. s \in Paths
    BY ParentsArePaths
  <2>2. CASE r = p \/ r \in Parents[p]
    BY <1>3, <2>2, ParentsOrder
  <2>3. CASE r # p /\ r \notin Parents[p]
    <3>1. t[r] # "none" /\ t[s] = "dir"
      BY <1>1, <2>3 DEF WellFormed
    <3> QED BY <1>1, <2>1, <3>1
  <2> QED BY <2>2, <2>3
<1> QED BY <1>1, <1>2, <1>3, <1>4

-----------------------------------------------------------------------------
(* The inductive invariant *)

(* The operations of an entry. *)
Erase(tree, p) == Step("remove", tree, p, "none")
Unfile(tree, p) == Step("unfile", tree, p, "none")
MakeDir(tree, p) == Step("mkdir", tree, p, "dir")
PutFile(tree, p, v) == Step("put", tree, p, v)

(* What the entry in progress replaces. *)
Current == IF job.now = <<>> THEN {} ELSE Replaced(Last(job.now))

Explained(q) == host[q] # lower[q] => q \in theirs \cup halfway

(* What the host's user has edited differs, and nothing else that was not    *)
(* cut off, or is in progress.                                               *)
HostOK ==
  /\ host \in [Paths -> Node \cup {Theirs}] /\ WellFormed(host)
  /\ \A p \in Paths \ Inside : host[p] = "none" /\ lower[p] = "none"
  /\ theirs \subseteq Inside /\ theirs \cap Current = {}
  /\ \A p \in theirs : host[p] # lower[p] /\ \A q \in Parents[p] : host[q] = "dir"
  /\ \A q \in Paths \ Current : Explained(q)

(* What the operations before those in `now' have done at p. *)
DirWritten(p, now) ==
  \/ now = <<Unfile("host", p), MakeDir("host", p), Unfile("lower", p), MakeDir("lower", p)>>
  \/ /\ now = <<MakeDir("host", p), Unfile("lower", p), MakeDir("lower", p)>>
     /\ host[p] \in {"none", "dir"}
  \/ /\ now = <<Unfile("lower", p), MakeDir("lower", p)>>
     /\ host[p] = "dir"
  \/ /\ now = <<MakeDir("lower", p)>>
     /\ host[p] = "dir" /\ lower[p] \in {"none", "dir"}

FileWritten(p, v, now) ==
  \/ now = <<Erase("host", p), PutFile("host", p, "torn"), PutFile("host", p, v),
             Erase("lower", p), PutFile("lower", p, "torn"), PutFile("lower", p, v)>>
  \/ /\ now = <<PutFile("host", p, "torn"), PutFile("host", p, v),
                Erase("lower", p), PutFile("lower", p, "torn"), PutFile("lower", p, v)>>
     /\ host[p] = "none"
  \/ /\ now = <<PutFile("host", p, v),
                Erase("lower", p), PutFile("lower", p, "torn"), PutFile("lower", p, v)>>
     /\ host[p] = "torn"
  \/ /\ now = <<Erase("lower", p), PutFile("lower", p, "torn"), PutFile("lower", p, v)>>
     /\ host[p] = v
  \/ /\ now = <<PutFile("lower", p, "torn"), PutFile("lower", p, v)>>
     /\ host[p] = v /\ lower[p] = "none"
  \/ /\ now = <<PutFile("lower", p, v)>>
     /\ host[p] = v /\ lower[p] = "torn"

Deleted(p, now) ==
  \/ /\ now = <<Erase("host", p), Erase("lower", p)>>
     /\ BelowFile(host, p) => \A q \in Paths : Explained(q)
  \/ /\ now = <<Erase("lower", p)>>
     /\ host[p] = "none"

Written(p) == host[p] = upper[p] /\ lower[p] = upper[p]

(* The entries are settled parents first. *)
UpperOK ==
  LET settled == job.done \ job.left
  IN  /\ job.done = UpperEntries /\ job.left \subseteq job.done
      /\ \A p \in settled : Parents[p] \cap job.left = {}
      /\ \/ job.now = <<>> /\ \A p \in settled : Written(p)
         \/ \E p \in settled :
              /\ IF upper[p] = "dir" THEN DirWritten(p, job.now)
                 ELSE FileWritten(p, upper[p], job.now)
              /\ \A q \in settled \ {p} : p \notin Parents[q] /\ Written(q)

ClearUpperOK ==
  /\ job.now = <<>> /\ job.left \subseteq Inside
  /\ UpperEntries \subseteq job.left
  /\ \A p \in UpperEntries : lower[p] = upper[p]

WhiteOK ==
  LET settled == job.done \ job.left
  IN  /\ UpperEntries = {}
      /\ job.done = WhiteEntries /\ job.left \subseteq job.done
      /\ \/ job.now = <<>> /\ \A p \in settled : lower[p] = "none"
         \/ \E p \in settled : /\ Deleted(p, job.now)
                               /\ \A q \in settled \ {p} : lower[q] = "none"

ClearWhiteOK ==
  /\ UpperEntries = {}
  /\ job.now = <<>> /\ job.left = WhiteEntries
  /\ \A p \in job.left : lower[p] = "none"

JobRecord == job = [phase |-> job.phase, force |-> job.force, left |-> job.left,
                    done |-> job.done, now |-> job.now]

JobOK ==
  /\ JobRecord /\ job.force \in BOOLEAN
  /\ job = NoJob \/ Applying \/ Replied
  /\ Replied => job.now = <<>>
  /\ job # NoJob => Idle /\ \A h \in Handles : open[h] = Closed
  /\ job.phase = "upper" => UpperOK
  /\ job.phase = "clearUpper" => ClearUpperOK
  /\ job.phase = "white" => WhiteOK
  /\ job.phase = "clearWhite" => ClearWhiteOK
  /\ job.phase = "refused" => theirs \cup halfway # {}
  /\ job.phase = "done" => \A p \in Inside : upper[p] = "none" /\ white[p] = "none"

AInv == StorageInv /\ HostOK /\ JobOK

-----------------------------------------------------------------------------
(* What is seen while an apply runs *)

(* What no longer resolves was not seen anyway. *)
Covered(q) ==
  \/ Resolve(q)' = Resolve(q)
  \/ /\ Resolve(q)' = "none"
     /\ \E p \in Parents[q] : Resolve(p) # "dir" /\ Resolve(p)' # "dir"

LEMMA SeenAsBefore ==
  ASSUME TreesOK, \A q \in Paths : Covered(q)
  PROVE  /\ View' = View
         /\ \A q \in Paths : Resolve(q)' \in {Resolve(q), View[q]}
<1>1. ASSUME NEW q \in Paths
      PROVE  Rooted(q)' <=> Rooted(q)
  <2>1. ASSUME Rooted(q), NEW r \in Parents[q]
        PROVE  Resolve(r)' = "dir"
    <3>1. r \in Paths /\ Resolve(r) = "dir" /\ \A s \in Parents[r] : Resolve(s) = "dir"
      BY <2>1, ParentsArePaths, ParentsOrder DEF Rooted
    <3> QED BY <3>1 DEF Covered
  <2>2. ASSUME Rooted(q)', NEW r \in Parents[q]
        PROVE  Resolve(r) = "dir"
    <3>1. r \in Paths /\ Resolve(r)' = "dir"
      BY <2>2, ParentsArePaths DEF Rooted
    <3> QED BY <3>1 DEF Covered
  <2> QED BY <2>1, <2>2 DEF Rooted
<1>2. ASSUME NEW q \in Paths, Rooted(q)
      PROVE  Resolve(q)' = Resolve(q)
  BY <1>2 DEF Covered, Rooted
<1>3. \A q \in Paths : View[q] = IF Rooted(q) THEN Resolve(q) ELSE "none"
  BY DEF View, Rooted
<1>4. \A q \in Paths : View'[q] = IF Rooted(q)' THEN Resolve(q)' ELSE "none"
  BY DEF View, Rooted
<1>5. View' = [q \in Paths |-> View'[q]] /\ View = [q \in Paths |-> View[q]]
  BY DEF View
<1>6. \A q \in Paths : View'[q] = View[q]
  BY <1>1, <1>2, <1>3, <1>4
<1>7. ASSUME NEW q \in Paths
      PROVE  Resolve(q)' \in {Resolve(q), View[q]}
  <2>1. CASE \E p \in Parents[q] : Resolve(p) # "dir"
    BY <1>3, <2>1 DEF Covered, Rooted
  <2>2. CASE ~\E p \in Parents[q] : Resolve(p) # "dir"
    BY <2>2 DEF Covered
  <2> QED BY <2>1, <2>2
<1> QED BY <1>5, <1>6, <1>7

(* The trees change while no request is in progress, and nothing of it is seen. *)
LEMMA UnseenStep ==
  ASSUME StorageInv, Idle, TreesOK', UNCHANGED <<plan, req, dirty, cuts>>, seen' = View',
         \A q \in Paths : Covered(q)
  PROVE  StorageInv' /\ seen' = seen
<1>1. TreesOK /\ seen = View /\ dirty \subseteq Paths /\ cuts \in 0..MaxCuts
  BY DEF StorageInv
<1>2. StorageInv'
  BY <1>1, QuietKeeps
<1>3. View' = View
  BY <1>1, SeenAsBefore
<1> QED BY <1>1, <1>2, <1>3

(* The lower tree changes where the upper tree or a whiteout covers it. *)
LEMMA LowerCovered ==
  ASSUME StorageInv, NEW p \in Paths, upper[p] # "none" \/ Whiteouted(p),
         lower' \in [Paths -> Node], WellFormed(lower'),
         UNCHANGED <<upper, white, open>>,
         NEW R, \A q \in Paths \ R : lower'[q] = lower[q],
         \/ R = {p}
         \/ /\ R = Below[p] /\ Resolve(p) # "dir"
            /\ \A q \in Below[p] \ {p} : lower'[q] \in {lower[q], "none"}
  PROVE  TreesOK' /\ \A q \in Paths : Covered(q)
<1>1. TreesOK'
  <2>1. WellFormed(upper)' /\ WellFormed(lower)'
    BY DEF StorageInv, TreesOK, WellFormed
  <2> QED BY <2>1 DEF StorageInv, TreesOK
<1>2. \A q \in Paths : Whiteouted(q)' <=> Whiteouted(q)
  BY DEF Whiteouted
<1>3. \A q \in Paths : lower'[q] = lower[q] => Resolve(q)' = Resolve(q)
  BY <1>2 DEF Resolve
<1>4. Resolve(p)' = Resolve(p)
  BY <1>2 DEF Resolve
<1>5. ASSUME NEW q \in Below[p] \ {p}, R = Below[p], Resolve(p) # "dir",
             lower'[q] \in {lower[q], "none"}
      PROVE  Covered(q)
  <2>1. q \in Paths /\ p \in Parents[q]
    BY BelowIsParents, ParentsArePaths
  <2>2. Resolve(q)' = Resolve(q) \/ Resolve(q)' = "none"
    BY <1>2, <1>5, <2>1 DEF Resolve
  <2> QED BY <1>4, <1>5, <2>1, <2>2 DEF Covered
<1>6. \A q \in Paths : Covered(q)
  BY <1>3, <1>4, <1>5 DEF Covered
<1> QED BY <1>1, <1>2, <1>6

-----------------------------------------------------------------------------
(* One operation *)

TreeOf(tree) == IF tree = "host" THEN host ELSE lower
Kinds(tree) == IF tree = "host" THEN Node \cup {Theirs} ELSE Node

Good(t, N) ==
  /\ t \in [Paths -> N] /\ WellFormed(t)
  /\ \A q \in Paths \ Inside : t[q] = "none"

(* The other tree is as it was. *)
Becomes(tree) ==
  /\ Good(host', Kinds("host")) /\ Good(lower', Kinds("lower"))
  /\ IF tree = "host" THEN lower' = lower ELSE host' = host

LEMMA GoodTrees ==
  ASSUME AInv
  PROVE  Good(host, Kinds("host")) /\ Good(lower, Kinds("lower"))
BY DEF AInv, HostOK, StorageInv, TreesOK, Good, Kinds

LEMMA OperateFrame ==
  ASSUME AInv, Operate
  PROVE  /\ UNCHANGED <<upper, white, open, plan, req, dirty, cuts, theirs, edits>>
         /\ seen' = View' /\ job.now # <<>> /\ Idle
BY DEF Operate, AInv, JobOK, NoJob

LEMMA OperateFails ==
  ASSUME Operate, NEW tree \in {"host", "lower"}, NEW p, Head(job.now).at = p,
         Head(job.now).tree = tree, BelowFile(TreeOf(tree), p)
  PROVE  job' = Reply("failed") /\ UNCHANGED <<lower, host, halfway>>
BY DEF Operate, TreeOf

LEMMA Operated ==
  ASSUME Operate, NEW tree \in {"host", "lower"}, NEW p, Head(job.now).at = p,
         Head(job.now).tree = tree, NEW s, s = Head(job.now),
         NEW t, t = TreeOf(tree), ~BelowFile(t, p)
  PROVE  /\ s.call = "remove" => RemoveStep(s, t)
         /\ s.call = "unfile" =>
              /\ Become(tree, IF IsFile(t[p]) THEN [t EXCEPT ![p] = "none"] ELSE t)
              /\ Settle(s)
         /\ s.call \in {"mkdir", "put"} => Become(tree, Placed(t, p, s.value)) /\ Settle(s)
BY DEF Operate, TreeOf

LEMMA BecomeFacts ==
  ASSUME AInv, NEW tree \in {"host", "lower"}, NEW u, Become(tree, u), Good(u, Kinds(tree))
  PROVE  Becomes(tree) /\ TreeOf(tree)' = u
<1>1. Good(host, Kinds("host")) /\ Good(lower, Kinds("lower"))
  BY GoodTrees
<1>2. CASE tree = "host"
  <2>1. host' = u /\ lower' = lower
    BY <1>2 DEF Become
  <2> QED BY <1>1, <1>2, <2>1 DEF Becomes, TreeOf
<1>3. CASE tree = "lower"
  <2>1. lower' = u /\ host' = host
    BY <1>3 DEF Become
  <2> QED BY <1>1, <1>3, <2>1 DEF Becomes, TreeOf
<1> QED BY <1>2, <1>3

LEMMA StepFields ==
  ASSUME NEW tree, NEW p
  PROVE  /\ Erase(tree, p).call = "remove" /\ Erase(tree, p).tree = tree /\ Erase(tree, p).at = p
         /\ Unfile(tree, p).call = "unfile" /\ Unfile(tree, p).tree = tree /\ Unfile(tree, p).at = p
         /\ MakeDir(tree, p).call = "mkdir" /\ MakeDir(tree, p).tree = tree
         /\ MakeDir(tree, p).at = p /\ MakeDir(tree, p).value = "dir"
         /\ Replaced(Erase(tree, p)) = Below[p] /\ Replaced(Unfile(tree, p)) = Below[p]
         /\ Replaced(MakeDir(tree, p)) = {p}
BY DEF Erase, Unfile, MakeDir, Step, Replaced

LEMMA PutFields ==
  ASSUME NEW tree, NEW p, NEW v
  PROVE  /\ PutFile(tree, p, v).call = "put" /\ PutFile(tree, p, v).tree = tree
         /\ PutFile(tree, p, v).at = p /\ PutFile(tree, p, v).value = v
         /\ Replaced(PutFile(tree, p, v)) = Below[p]
BY DEF PutFile, Step, Replaced

LEMMA RemoveDone ==
  ASSUME AInv, Operate, NEW tree \in {"host", "lower"}, NEW p \in Inside,
         Head(job.now) = Erase(tree, p), ~BelowFile(TreeOf(tree), p)
  PROVE  /\ Becomes(tree)
         /\ \A q \in Paths : \/ TreeOf(tree)'[q] = TreeOf(tree)[q]
                             \/ q \in Below[p] /\ TreeOf(tree)'[q] = "none"
         /\ \/ UNCHANGED <<job, halfway>>
            \/ Settle(Erase(tree, p)) /\ \A q \in Below[p] : TreeOf(tree)'[q] = "none"
<1> DEFINE t == TreeOf(tree)
           there == {q \in Below[p] : Exists(t, q)}
<1>1. p \in Paths /\ "none" \in Kinds(tree)
  BY InsideAssumption DEF Kinds, Node
<1>2. Good(t, Kinds(tree))
  BY GoodTrees DEF TreeOf
<1>3. RemoveStep(Erase(tree, p), t) /\ Erase(tree, p).at = p /\ Erase(tree, p).tree = tree
  <2>1. PICK s : s = Erase(tree, p) /\ s.call = "remove" /\ s.at = p /\ s.tree = tree
    BY StepFields
  <2> HIDE DEF t
  <2>2. t = TreeOf(tree) /\ ~BelowFile(t, p)
    BY DEF t
  <2> QED BY <2>1, <2>2, Operated
<1>4. CASE there = {}
  <2>1. Become(tree, t) /\ Settle(Erase(tree, p))
    BY <1>3, <1>4 DEF RemoveStep
  <2>2. \A q \in Below[p] : t[q] = "none"
    BY <1>4 DEF Exists
  <2>3. Becomes(tree) /\ TreeOf(tree)' = t
    BY <1>2, <2>1, BecomeFacts
  <2> QED BY <2>1, <2>2, <2>3
<1>5. CASE there # {}
  <2>1. PICK q \in Deepest(there) :
          /\ Become(tree, [t EXCEPT ![q] = "none"])
          /\ IF q = p THEN Settle(Erase(tree, p)) ELSE Stay
    BY <1>3, <1>5 DEF RemoveStep
  <2> DEFINE u == [t EXCEPT ![q] = "none"]
  <2>2. t \in [Paths -> Kinds(tree)] /\ WellFormed(t)
    BY <1>2 DEF Good
  <2>0. q \in Below[p] /\ \A r \in Below[p] : t[r] # "none" => Len(r) <= Len(q)
    BY <2>1 DEF Deepest, Exists
  <2>3. /\ u \in [Paths -> Kinds(tree)] /\ WellFormed(u)
        /\ q \in Below[p] /\ u[q] = "none" /\ \A r \in Paths \ {q} : u[r] = t[r]
        /\ \A r \in Below[p] : q = p => u[r] = "none"
    <3> HIDE DEF t
    <3>1. PICK w : w = [t EXCEPT ![q] = "none"]
      OBVIOUS
    <3>2. /\ w \in [Paths -> Kinds(tree)] /\ WellFormed(w)
          /\ w[q] = "none" /\ \A r \in Paths \ {q} : w[r] = t[r]
          /\ \A r \in Below[p] : q = p => w[r] = "none"
      <4>1. PICK N : N = Kinds(tree)
        OBVIOUS
      <4>2. "none" \in N /\ t \in [Paths -> N] /\ WellFormed(t)
        BY <1>1, <2>2, <4>1
      <4>3. w \in [Paths -> N] /\ WellFormed(w)
        BY <1>1, <2>0, <3>1, <4>2, LeafRemoved
      <4>4. w[q] = "none" /\ \A r \in Paths \ {q} : w[r] = t[r]
        BY <1>1, <2>0, <3>1, <4>2, LeafRemoved
      <4>5. ASSUME NEW r \in Below[p], q = p
            PROVE  w[r] = "none"
        <5>1. r \in Paths /\ (r = p \/ p \in Parents[r])
          BY <1>1, BelowIsParents, ParentsArePaths
        <5>2. r # p => Len(p) < Len(r) /\ Len(p) \in Nat /\ Len(r) \in Nat
          BY <1>1, <5>1, ParentElements, PathsAreSequences
        <5> QED BY <2>0, <4>4, <4>5, <5>1, <5>2
      <4> QED BY <4>1, <4>3, <4>4, <4>5
    <3> QED BY <2>0, <3>1, <3>2
  <2>4. Good(u, Kinds(tree))
    BY <1>2, <2>3 DEF Good
  <2> HIDE DEF u
  <2>5. Becomes(tree) /\ TreeOf(tree)' = u
    BY <2>1, <2>4, BecomeFacts DEF u
  <2> QED BY <2>1, <2>3, <2>5 DEF Stay
<1> QED BY <1>4, <1>5

LEMMA UnfileDone ==
  ASSUME AInv, Operate, NEW tree \in {"host", "lower"}, NEW p \in Inside,
         Head(job.now) = Unfile(tree, p), ~BelowFile(TreeOf(tree), p)
  PROVE  /\ Becomes(tree) /\ Settle(Unfile(tree, p))
         /\ \A q \in Paths \ {p} : TreeOf(tree)'[q] = TreeOf(tree)[q]
         /\ TreeOf(tree)'[p] \in {"none", "dir"}
         /\ TreeOf(tree)[p] = "dir" => TreeOf(tree)'[p] = "dir"
<1> DEFINE t == TreeOf(tree)
           u == IF IsFile(t[p]) THEN [t EXCEPT ![p] = "none"] ELSE t
<1>1. p \in Paths /\ "none" \in Kinds(tree)
  BY InsideAssumption DEF Kinds, Node
<1>2. Good(t, Kinds(tree))
  BY GoodTrees DEF TreeOf
<1>3. Become(tree, u) /\ Settle(Unfile(tree, p))
  <2>1. PICK s : s = Unfile(tree, p) /\ s.call = "unfile" /\ s.at = p /\ s.tree = tree
    BY StepFields
  <2> HIDE DEF t
  <2>2. t = TreeOf(tree) /\ ~BelowFile(t, p)
    BY DEF t
  <2> QED BY <2>1, <2>2, Operated
<1>4. /\ u \in [Paths -> Kinds(tree)] /\ WellFormed(u)
      /\ u[p] \in {"none", "dir"} /\ (t[p] = "dir" => u[p] = "dir")
      /\ \A r \in Paths \ {p} : u[r] = t[r]
  <2>1. t \in [Paths -> Kinds(tree)] /\ WellFormed(t)
    BY <1>2 DEF Good
  <2> HIDE DEF t
  <2> QED BY <1>1, <2>1, FileTaken, ZenonT(30)
<1>5. Good(u, Kinds(tree))
  BY <1>2, <1>4 DEF Good
<1> HIDE DEF u
<1>6. Becomes(tree) /\ TreeOf(tree)' = u
  BY <1>3, <1>5, BecomeFacts
<1> QED BY <1>3, <1>4, <1>6

LEMMA PlaceDone ==
  ASSUME AInv, Operate, NEW tree \in {"host", "lower"}, NEW p \in Inside, NEW v \in Node \ {"none"},
         NEW s, Head(job.now) = s, (s = MakeDir(tree, p) /\ v = "dir") \/ s = PutFile(tree, p, v),
         \A q \in Parents[p] : TreeOf(tree)[q] = "dir",
         TreeOf(tree)[p] # "none" => (TreeOf(tree)[p] = "dir" <=> v = "dir")
  PROVE  /\ Becomes(tree) /\ Settle(s)
         /\ \A q \in Paths \ {p} : TreeOf(tree)'[q] = TreeOf(tree)[q]
         /\ TreeOf(tree)'[p] = v
<1> DEFINE t == TreeOf(tree)
           u == Placed(t, p, v)
<1>1. p \in Paths /\ "dir" \in Kinds(tree) /\ v \in Kinds(tree) \ {"none"}
  BY InsideAssumption DEF Kinds, Node
<1>2. Good(t, Kinds(tree)) /\ ~BelowFile(t, p)
  BY GoodTrees DEF TreeOf, BelowFile, IsFile
<1>3. Become(tree, u) /\ Settle(s)
  <2>1. s.call \in {"mkdir", "put"} /\ s.at = p /\ s.tree = tree /\ s.value = v
    BY StepFields, PutFields
  <2> HIDE DEF t
  <2>2. t = TreeOf(tree) /\ ~BelowFile(t, p)
    BY <1>2 DEF t
  <2> QED BY <2>1, <2>2, Operated
<1>4. /\ u \in [Paths -> Kinds(tree)] /\ WellFormed(u)
      /\ u[p] = v /\ \A r \in Paths \ {p} : u[r] = t[r]
  <2>1. t \in [Paths -> Kinds(tree)] /\ WellFormed(t)
    BY <1>2 DEF Good
  <2>2. /\ \A r \in Parents[p] : t[r] = "dir"
        /\ t[p] # "none" => (t[p] = "dir" <=> v = "dir")
    OBVIOUS
  <2> HIDE DEF t
  <2> QED BY <1>1, <1>2, <2>1, <2>2, NodePlaced
<1>5. Good(u, Kinds(tree))
  BY <1>2, <1>4 DEF Good
<1> HIDE DEF u
<1>6. Becomes(tree) /\ TreeOf(tree)' = u
  BY <1>3, <1>5, BecomeFacts
<1> QED BY <1>3, <1>4, <1>6

-----------------------------------------------------------------------------
(* The entry in progress *)

LEMMA SettleFacts ==
  ASSUME JobRecord, NEW s, Settle(s)
  PROVE  /\ JobRecord' /\ job'.phase = job.phase /\ job'.force = job.force
         /\ job'.left = job.left /\ job'.done = job.done /\ job'.now = Tail(job.now)
         /\ halfway' = IF job'.now = <<>> THEN halfway \ Replaced(s) ELSE halfway
BY DEF JobRecord, Settle

(* The host and the lower tree change where the entry replaces them. *)
LEMMA HostStep ==
  ASSUME AInv, NEW p \in Inside, NEW R, R = {p} \/ R = Below[p], Current = R,
         Good(host', Kinds("host")), Good(lower', Kinds("lower")),
         \A q \in Paths \ R : host'[q] = host[q] /\ lower'[q] = lower[q],
         R # Below[p] => (host[p] = "dir" => host'[p] = "dir"),
         theirs' = theirs,
         \/ halfway' = halfway /\ Current' = R
         \/ halfway' = halfway \ R /\ Current' = {} /\ \A q \in R : host'[q] = lower'[q]
  PROVE  HostOK' /\ \A q \in theirs : host'[q] = host[q]
<1>1. p \in Paths /\ R \subseteq Paths
  BY InsideAssumption, ParentsArePaths
<1>2. HostOK /\ theirs \subseteq Paths /\ theirs \cap R = {}
  BY InsideAssumption DEF AInv, HostOK
<1>3. \A q \in theirs : host'[q] = host[q] /\ lower'[q] = lower[q]
  BY <1>2
<1>4. ASSUME NEW q \in theirs, NEW r \in Parents[q]
      PROVE  host'[r] = "dir"
  <2>1. r \in Paths /\ host[r] = "dir"
    BY <1>2, <1>4, ParentsArePaths DEF HostOK
  <2>2. CASE r \notin R
    BY <2>1, <2>2
  <2>3. CASE r \in R
    <3>1. ASSUME R = Below[p]
          PROVE  FALSE
      <4>1. q \in Below[p]
        BY <1>1, <1>2, <2>1, <2>3, <3>1, BelowIsParents, ParentsOrder
      <4> QED BY <1>2, <3>1, <4>1
    <3> QED BY <2>1, <2>3, <3>1
  <2> QED BY <2>2, <2>3
<1>5. ASSUME NEW q \in Paths \ Current'
      PROVE  host'[q] # lower'[q] => q \in theirs \cup halfway'
  <2>1. CASE q \notin R
    BY <1>2, <2>1 DEF HostOK, Explained
  <2>2. CASE q \in R
    BY <1>5, <2>2
  <2> QED BY <2>1, <2>2
<1>6. theirs' \cap Current' = {}
  BY <1>2
<1>7. \A q \in Paths \ Current' : Explained(q)'
  BY <1>5 DEF Explained
<1>8. /\ host' \in [Paths -> Node \cup {Theirs}] /\ WellFormed(host)'
      /\ \A q \in Paths \ Inside : host'[q] = "none" /\ lower'[q] = "none"
  BY DEF Good, Kinds, WellFormed
<1>9. theirs' \subseteq Inside
        /\ \A q \in theirs' : host'[q] # lower'[q] /\ \A r \in Parents[q] : host'[r] = "dir"
  BY <1>2, <1>3, <1>4 DEF HostOK
<1> QED BY <1>3, <1>6, <1>7, <1>8, <1>9 DEF HostOK

LEMMA UpperParents ==
  ASSUME AInv, job.phase = "upper", NEW p \in job.done \ job.left,
         \A q \in (job.done \ job.left) \ {p} : Written(q)
  PROVE  /\ p \in Inside /\ p \in Paths /\ upper[p] \in Node \ {"none"}
         /\ \A q \in Parents[p] : host[q] = "dir" /\ lower[q] = "dir"
<1>1. job.done = UpperEntries /\ Parents[p] \cap job.left = {}
  BY DEF AInv, JobOK, UpperOK
<1>2. p \in Inside /\ p \in Paths /\ upper[p] \in Node \ {"none"}
  BY <1>1, InsideAssumption DEF UpperEntries, AInv, StorageInv, TreesOK
<1>3. ASSUME NEW q \in Parents[p]
      PROVE  host[q] = "dir" /\ lower[q] = "dir"
  <2>1. q \in Paths /\ q \in Inside /\ q # p
    BY <1>2, InsideAssumption, ParentsArePaths, ParentsOrder
  <2>2. upper[q] = "dir"
    BY <1>2 DEF AInv, StorageInv, TreesOK, WellFormed
  <2>3. q \in (job.done \ job.left) \ {p}
    BY <1>1, <2>1, <2>2 DEF UpperEntries
  <2> QED BY <2>2, <2>3 DEF Written
<1> QED BY <1>2, <1>3

LEMMA UpperGoesOn ==
  ASSUME AInv, job.phase = "upper", JobRecord',
         job'.phase = "upper", job'.force = job.force, job'.left = job.left, job'.done = job.done,
         UNCHANGED <<upper, white, open, plan, theirs>>,
         NEW p \in job.done \ job.left,
         \A q \in (job.done \ job.left) \ {p} : p \notin Parents[q] /\ Written(q),
         NEW R, R = {p} \/ R = Below[p],
         \A q \in Paths \ R : host'[q] = host[q] /\ lower'[q] = lower[q],
         \/ job'.now = <<>> /\ Written(p)'
         \/ upper[p] = "dir" /\ DirWritten(p, job.now)'
         \/ upper[p] # "dir" /\ FileWritten(p, upper[p], job.now)'
  PROVE  JobOK'
<1>1. UpperOK
  BY DEF AInv, JobOK
<1>2. job.done = UpperEntries /\ UpperEntries' = UpperEntries /\ UpperEntries \subseteq Paths
  BY <1>1, InsideAssumption DEF UpperOK, UpperEntries
<1>3. ASSUME NEW q \in (job.done \ job.left) \ {p}
      PROVE  p \notin Parents[q] /\ Written(q)'
  <2>1. q \in Paths /\ p \in Paths /\ q # p /\ p \notin Parents[q] /\ Written(q)
    BY <1>2
  <2>2. q \notin R
    BY <2>1, BelowIsParents
  <2> QED BY <2>1, <2>2 DEF Written
<1>4. \/ job'.now = <<>> /\ \A q \in job.done \ job.left : Written(q)'
      \/ IF upper[p] = "dir" THEN DirWritten(p, job.now)'
         ELSE FileWritten(p, upper[p], job.now)'
  BY <1>3
<1>5. UpperOK'
  BY <1>1, <1>2, <1>3, <1>4 DEF UpperOK
<1>6. /\ job' # NoJob /\ job # NoJob /\ ~Replied' /\ Applying'
  BY DEF NoJob, Replied, Applying
<1> QED BY <1>5, <1>6 DEF AInv, JobOK, Idle

(* The entry in progress is one of the upper tree. *)
LEMMA UpperStep ==
  ASSUME AInv, Operate, job.phase = "upper", NEW p \in job.done \ job.left,
         \A q \in (job.done \ job.left) \ {p} : p \notin Parents[q] /\ Written(q),
         NEW R, R = IF upper[p] = "dir" THEN {p} ELSE Below[p], Current = R,
         NEW tree \in {"host", "lower"}, Becomes(tree),
         \A q \in Paths \ R : TreeOf(tree)'[q] = TreeOf(tree)[q],
         R # Below[p] => (TreeOf(tree)[p] = "dir" => TreeOf(tree)'[p] = "dir"),
         R # {p} => \A q \in Below[p] \ {p} : TreeOf(tree)'[q] \in {TreeOf(tree)[q], "none"},
         NEW s, UNCHANGED <<job, halfway>> \/ Settle(s), job'.now = <<>> => Replaced(s) = R,
         \/ job'.now = <<>> /\ Written(p)'
         \/ /\ job'.now # <<>> /\ Current' = R
            /\ IF upper[p] = "dir" THEN DirWritten(p, job.now)'
               ELSE FileWritten(p, upper[p], job.now)'
  PROVE  AInv' /\ seen' = seen /\ \A q \in theirs : host'[q] = host[q]
<1>1. /\ UNCHANGED <<upper, white, open, plan, req, dirty, cuts, theirs, edits>>
      /\ seen' = View' /\ job.now # <<>> /\ Idle
  BY OperateFrame
<1>2. p \in Inside /\ p \in Paths /\ upper[p] \in Node \ {"none"}
  BY UpperParents
<1>3. /\ JobRecord' /\ job'.phase = "upper" /\ job'.force = job.force
      /\ job'.left = job.left /\ job'.done = job.done
      /\ halfway' = IF job'.now = <<>> THEN halfway \ R ELSE halfway
  <2>1. JobRecord
    BY DEF AInv, JobOK
  <2>2. CASE UNCHANGED <<job, halfway>>
    BY <1>1, <2>1, <2>2 DEF JobRecord
  <2>3. CASE Settle(s)
    BY <2>1, <2>3, SettleFacts
  <2> QED BY <2>2, <2>3
<1>4. \A q \in Paths \ R : host'[q] = host[q] /\ lower'[q] = lower[q]
  BY DEF Becomes, TreeOf
<1>5. Good(host', Kinds("host")) /\ Good(lower', Kinds("lower"))
  BY DEF Becomes
<1>6. R # Below[p] => (host[p] = "dir" => host'[p] = "dir")
  BY DEF Becomes, TreeOf
<1>7. ASSUME Written(p)'
      PROVE  \A q \in R : host'[q] = lower'[q]
  <2>1. host'[p] = upper[p] /\ lower'[p] = upper[p]
    BY <1>1, <1>7 DEF Written
  <2>2. ASSUME upper[p] # "dir", NEW q \in Below[p], q # p
        PROVE  host'[q] = "none" /\ lower'[q] = "none"
    <3>1. q \in Paths /\ p \in Parents[q]
      BY <1>2, <2>2, BelowIsParents, ParentsArePaths
    <3> QED BY <1>5, <2>1, <2>2, <3>1 DEF Good, WellFormed
  <2> QED BY <2>1, <2>2
<1>8. R = {p} \/ R = Below[p]
  OBVIOUS
<1>9. HostOK' /\ \A q \in theirs : host'[q] = host[q]
  <2>1. job'.now = <<>> => Current' = {}
    BY DEF Current
  <2>2. \/ halfway' = halfway /\ Current' = R
        \/ halfway' = halfway \ R /\ Current' = {} /\ \A q \in R : host'[q] = lower'[q]
    BY <1>3, <1>7, <2>1
  <2>3. theirs' = theirs
    BY <1>1
  <2> QED BY <1>2, <1>4, <1>5, <1>6, <1>8, <2>2, <2>3, HostStep
<1>10. JobOK'
  <2>1. UNCHANGED <<upper, white, open, plan, theirs>>
    BY <1>1
  <2> QED BY <1>3, <1>4, <1>8, <2>1, UpperGoesOn, ZenonT(30)
<1>11. StorageInv' /\ seen' = seen
  <2>1. lower' \in [Paths -> Node] /\ WellFormed(lower')
    BY <1>5 DEF Good, Kinds
  <2>2. \/ R = {p}
        \/ /\ R = Below[p] /\ Resolve(p) # "dir"
           /\ \A q \in Below[p] \ {p} : lower'[q] \in {lower[q], "none"}
    <3>1. upper[p] # "dir" => Resolve(p) # "dir"
      BY <1>2 DEF Resolve
    <3>2. R # {p} => \A q \in Below[p] \ {p} : lower'[q] \in {lower[q], "none"}
      BY DEF Becomes, TreeOf
    <3> QED BY <1>8, <3>1, <3>2
  <2>3. StorageInv /\ upper[p] # "none" /\ \A q \in Paths \ R : lower'[q] = lower[q]
    BY <1>2, <1>4 DEF AInv
  <2>4. TreesOK' /\ \A q \in Paths : Covered(q)
    BY <1>1, <1>2, <2>1, <2>2, <2>3, LowerCovered
  <2> QED BY <1>1, <2>3, <2>4, UnseenStep
<1> QED BY <1>9, <1>10, <1>11 DEF AInv

(* Its operations on a directory. *)
LEMMA DirOperate ==
  ASSUME AInv, Operate, job.phase = "upper", NEW p \in job.done \ job.left,
         \A q \in (job.done \ job.left) \ {p} : p \notin Parents[q] /\ Written(q),
         upper[p] = "dir", DirWritten(p, job.now)
  PROVE  AInv' /\ seen' = seen /\ \A q \in theirs : host'[q] = host[q]
<1>1. /\ p \in Inside /\ p \in Paths
      /\ \A q \in Parents[p] : host[q] = "dir" /\ lower[q] = "dir"
  BY UpperParents
<1>2. /\ ~BelowFile(TreeOf("host"), p) /\ ~BelowFile(TreeOf("lower"), p)
      /\ TreeOf("host") = host /\ TreeOf("lower") = lower
      /\ TreeOf("host")' = host' /\ TreeOf("lower")' = lower'
      /\ "dir" \in Node \ {"none"}
  BY <1>1 DEF BelowFile, IsFile, TreeOf, Node
<1>3. UNCHANGED upper
  BY OperateFrame
<1>4. ASSUME NEW s, Settle(s)
      PROVE  job'.now = Tail(job.now)
  BY <1>4, SettleFacts DEF AInv, JobOK
<1>5. PICK a, b, c, d : /\ a = Unfile("host", p) /\ b = MakeDir("host", p)
                        /\ c = Unfile("lower", p) /\ d = MakeDir("lower", p)
                        /\ Replaced(d) = {p} /\ Replaced(b) = {p}
  BY StepFields
<1>6. ASSUME NEW tree \in {"host", "lower"}, Becomes(tree),
             \A q \in Paths \ {p} : TreeOf(tree)'[q] = TreeOf(tree)[q],
             TreeOf(tree)[p] = "dir" => TreeOf(tree)'[p] = "dir",
             Current = {p}, NEW s, Settle(s),
             \/ job'.now = <<>> /\ Replaced(s) = {p} /\ host'[p] = "dir" /\ lower'[p] = "dir"
             \/ job'.now # <<>> /\ Last(job'.now) = d /\ DirWritten(p, job.now)'
      PROVE  AInv' /\ seen' = seen /\ \A q \in theirs : host'[q] = host[q]
  <2>1. job'.now = <<>> => Replaced(s) = {p} /\ Written(p)'
    BY <1>3, <1>6 DEF Written
  <2>2. job'.now # <<>> => Current' = {p} /\ DirWritten(p, job.now)'
    BY <1>5, <1>6 DEF Current
  <2>3. PICK R : R = {p} /\ R = IF upper[p] = "dir" THEN {p} ELSE Below[p]
    OBVIOUS
  <2>4. upper[p]' = "dir"
    BY <1>3
  <2> QED BY <1>6, <2>1, <2>2, <2>3, <2>4, UpperStep
<1>7. CASE job.now = <<a, b, c, d>>
  <2>1. Head(job.now) = a /\ Tail(job.now) = <<b, c, d>> /\ Last(job.now) = d /\ job.now # <<>>
    BY <1>7, FourSteps
  <2>2. <<b, c, d>> # <<>> /\ Last(<<b, c, d>>) = d
    BY ThreeSteps
  <2>3. /\ Becomes("host") /\ Settle(a)
        /\ \A q \in Paths \ {p} : host'[q] = host[q]
        /\ host'[p] \in {"none", "dir"} /\ (host[p] = "dir" => host'[p] = "dir")
    <3>1. Head(job.now) = Unfile("host", p) /\ p \in Inside
      BY <1>1, <1>5, <2>1
    <3>2. /\ Becomes("host") /\ Settle(Unfile("host", p))
          /\ \A q \in Paths \ {p} : TreeOf("host")'[q] = TreeOf("host")[q]
          /\ TreeOf("host")'[p] \in {"none", "dir"}
          /\ TreeOf("host")[p] = "dir" => TreeOf("host")'[p] = "dir"
      BY <1>2, <3>1, UnfileDone
    <3> QED BY <1>2, <1>5, <3>2
  <2>4. job'.now = <<b, c, d>>
    BY <1>4, <2>1, <2>3
  <2>5. DirWritten(p, job.now)'
    BY <1>5, <2>3, <2>4 DEF DirWritten
  <2> QED BY <1>2, <1>5, <1>6, <2>1, <2>2, <2>3, <2>4, <2>5 DEF Current
<1>8. CASE job.now = <<b, c, d>> /\ host[p] \in {"none", "dir"}
  <2>1. Head(job.now) = b /\ Tail(job.now) = <<c, d>> /\ Last(job.now) = d /\ job.now # <<>>
    BY <1>8, ThreeSteps
  <2>2. <<c, d>> # <<>> /\ Last(<<c, d>>) = d
    BY TwoSteps
  <2>3. /\ Becomes("host") /\ Settle(b)
        /\ \A q \in Paths \ {p} : host'[q] = host[q]
        /\ host'[p] = "dir"
    <3>1. Head(job.now) = b /\ b = MakeDir("host", p) /\ p \in Inside
      BY <1>1, <1>5, <2>1
    <3>2. /\ \A q \in Parents[p] : TreeOf("host")[q] = "dir"
          /\ TreeOf("host")[p] \in {"none", "dir"}
      BY <1>1, <1>2, <1>8
    <3>3. /\ Becomes("host") /\ Settle(b)
          /\ \A q \in Paths \ {p} : TreeOf("host")'[q] = TreeOf("host")[q]
          /\ TreeOf("host")'[p] = "dir"
      BY <1>2, <3>1, <3>2, PlaceDone
    <3> QED BY <1>2, <3>3
  <2>4. job'.now = <<c, d>>
    BY <1>4, <2>1, <2>3
  <2>5. DirWritten(p, job.now)'
    BY <1>5, <2>3, <2>4 DEF DirWritten
  <2> QED BY <1>2, <1>5, <1>6, <2>1, <2>2, <2>3, <2>4, <2>5 DEF Current
<1>9. CASE job.now = <<c, d>> /\ host[p] = "dir"
  <2>1. Head(job.now) = c /\ Tail(job.now) = <<d>> /\ Last(job.now) = d /\ job.now # <<>>
    BY <1>9, TwoSteps
  <2>2. <<d>> # <<>> /\ Last(<<d>>) = d
    BY OneSteps
  <2>3. /\ Becomes("lower") /\ Settle(c)
        /\ \A q \in Paths \ {p} : lower'[q] = lower[q]
        /\ lower'[p] \in {"none", "dir"} /\ (lower[p] = "dir" => lower'[p] = "dir")
    <3>1. Head(job.now) = Unfile("lower", p) /\ p \in Inside
      BY <1>1, <1>5, <2>1
    <3>2. /\ Becomes("lower") /\ Settle(Unfile("lower", p))
          /\ \A q \in Paths \ {p} : TreeOf("lower")'[q] = TreeOf("lower")[q]
          /\ TreeOf("lower")'[p] \in {"none", "dir"}
          /\ TreeOf("lower")[p] = "dir" => TreeOf("lower")'[p] = "dir"
      BY <1>2, <3>1, UnfileDone
    <3> QED BY <1>2, <1>5, <3>2
  <2>4. job'.now = <<d>> /\ host' = host
    BY <1>4, <2>1, <2>3 DEF Becomes
  <2>5. DirWritten(p, job.now)'
    BY <1>5, <1>9, <2>3, <2>4 DEF DirWritten
  <2> QED BY <1>2, <1>5, <1>6, <2>1, <2>2, <2>3, <2>4, <2>5 DEF Current
<1>10. CASE job.now = <<d>> /\ host[p] = "dir" /\ lower[p] \in {"none", "dir"}
  <2>1. Head(job.now) = d /\ Tail(job.now) = <<>> /\ Last(job.now) = d /\ job.now # <<>>
    BY <1>10, OneSteps
  <2>2. /\ Becomes("lower") /\ Settle(d)
        /\ \A q \in Paths \ {p} : lower'[q] = lower[q]
        /\ lower'[p] = "dir"
    <3>1. Head(job.now) = d /\ d = MakeDir("lower", p) /\ p \in Inside
      BY <1>1, <1>5, <2>1
    <3>2. /\ \A q \in Parents[p] : TreeOf("lower")[q] = "dir"
          /\ TreeOf("lower")[p] \in {"none", "dir"}
      BY <1>1, <1>2, <1>10
    <3>3. /\ Becomes("lower") /\ Settle(d)
          /\ \A q \in Paths \ {p} : TreeOf("lower")'[q] = TreeOf("lower")[q]
          /\ TreeOf("lower")'[p] = "dir"
      BY <1>2, <3>1, <3>2, PlaceDone
    <3> QED BY <1>2, <3>3
  <2>3. job'.now = <<>> /\ host' = host
    BY <1>4, <2>1, <2>2 DEF Becomes
  <2> QED BY <1>2, <1>5, <1>6, <1>10, <2>1, <2>2, <2>3 DEF Current
<1> QED BY <1>5, <1>7, <1>8, <1>9, <1>10 DEF DirWritten

(* Its operations on a file. *)
LEMMA FileOperate ==
  ASSUME AInv, Operate, job.phase = "upper", NEW p \in job.done \ job.left,
         \A q \in (job.done \ job.left) \ {p} : p \notin Parents[q] /\ Written(q),
         upper[p] # "dir", FileWritten(p, upper[p], job.now)
  PROVE  AInv' /\ seen' = seen /\ \A q \in theirs : host'[q] = host[q]
<1>1. /\ p \in Inside /\ p \in Paths
      /\ \A q \in Parents[p] : host[q] = "dir" /\ lower[q] = "dir"
  BY UpperParents
<1>2. PICK v : v = upper[p] /\ v \in Node \ {"none", "dir"}
  BY UpperParents
<1>3. /\ ~BelowFile(TreeOf("host"), p) /\ ~BelowFile(TreeOf("lower"), p)
      /\ TreeOf("host") = host /\ TreeOf("lower") = lower
      /\ TreeOf("host")' = host' /\ TreeOf("lower")' = lower'
      /\ "torn" \in Node \ {"none"} /\ "torn" # "dir" /\ v # "dir"
  BY <1>1, <1>2 DEF BelowFile, IsFile, TreeOf, Node
<1>4. UNCHANGED upper
  BY OperateFrame
<1>5. ASSUME NEW s, Settle(s)
      PROVE  job'.now = Tail(job.now)
  BY <1>5, SettleFacts DEF AInv, JobOK
<1>6. PICK a, b, c, d, e, f :
        /\ a = Erase("host", p) /\ b = PutFile("host", p, "torn") /\ c = PutFile("host", p, v)
        /\ d = Erase("lower", p) /\ e = PutFile("lower", p, "torn") /\ f = PutFile("lower", p, v)
        /\ Replaced(f) = Below[p]
  BY PutFields
<1>7. ASSUME NEW tree \in {"host", "lower"}, Becomes(tree),
             \A q \in Paths \ Below[p] : TreeOf(tree)'[q] = TreeOf(tree)[q],
             \A q \in Below[p] \ {p} : TreeOf(tree)'[q] \in {TreeOf(tree)[q], "none"},
             Current = Below[p], NEW s, UNCHANGED <<job, halfway>> \/ Settle(s),
             \/ job'.now = <<>> /\ Replaced(s) = Below[p] /\ host'[p] = v /\ lower'[p] = v
             \/ job'.now # <<>> /\ Last(job'.now) = f /\ FileWritten(p, v, job.now)'
      PROVE  AInv' /\ seen' = seen /\ \A q \in theirs : host'[q] = host[q]
  <2>1. job'.now = <<>> => Replaced(s) = Below[p] /\ Written(p)'
    BY <1>2, <1>4, <1>7 DEF Written
  <2>2. job'.now # <<>> => Current' = Below[p] /\ FileWritten(p, v, job.now)'
    BY <1>6, <1>7 DEF Current
  <2>3. PICK R : R = Below[p] /\ R = IF upper[p] = "dir" THEN {p} ELSE Below[p]
    OBVIOUS
  <2>4. upper[p]' = v /\ FileWritten(p, v, job.now)' = FileWritten(p, upper[p], job.now)'
    BY <1>2, <1>4
  <2>5. \/ job'.now = <<>> /\ Written(p)'
        \/ /\ job'.now # <<>> /\ Current' = R
           /\ IF upper[p] = "dir" THEN DirWritten(p, job.now)'
              ELSE FileWritten(p, upper[p], job.now)'
    BY <1>2, <1>7, <2>1, <2>2, <2>3, <2>4
  <2> QED BY <1>7, <2>1, <2>3, <2>5, UpperStep
<1>8. CASE job.now = <<a, b, c, d, e, f>>
  <2>1. /\ Head(job.now) = a /\ Tail(job.now) = <<b, c, d, e, f>>
        /\ Last(job.now) = f /\ job.now # <<>>
    BY <1>8, SixSteps
  <2>2. <<b, c, d, e, f>> # <<>> /\ Last(<<b, c, d, e, f>>) = f
    BY DEF Last
  <2>3. /\ Becomes("host")
        /\ \A q \in Paths : host'[q] = host[q] \/ (q \in Below[p] /\ host'[q] = "none")
        /\ \/ UNCHANGED <<job, halfway>>
           \/ Settle(a) /\ host'[p] = "none"
    <3>1. Head(job.now) = Erase("host", p) /\ p \in Inside
      BY <1>1, <1>6, <2>1
    <3>2. /\ Becomes("host")
          /\ \A q \in Paths : \/ TreeOf("host")'[q] = TreeOf("host")[q]
                              \/ q \in Below[p] /\ TreeOf("host")'[q] = "none"
          /\ \/ UNCHANGED <<job, halfway>>
             \/ Settle(Erase("host", p)) /\ \A q \in Below[p] : TreeOf("host")'[q] = "none"
      BY <1>3, <3>1, RemoveDone
    <3>3. p \in Below[p]
      BY <1>1, BelowIsParents
    <3> QED BY <1>3, <1>6, <3>2, <3>3
  <2>4. ASSUME Settle(a), host'[p] = "none"
        PROVE  job'.now = <<b, c, d, e, f>> /\ FileWritten(p, v, job.now)'
    <3>1. job'.now = <<b, c, d, e, f>>
      BY <1>5, <2>1, <2>4
    <3> QED BY <1>6, <1>8, <2>4, <3>1 DEF FileWritten
  <2>6. /\ Current = Below[p]
        /\ \A q \in Paths \ Below[p] : TreeOf("host")'[q] = TreeOf("host")[q]
        /\ \A q \in Below[p] \ {p} : TreeOf("host")'[q] \in {TreeOf("host")[q], "none"}
    BY <1>1, <1>3, <1>6, <2>1, <2>3, ParentsArePaths DEF Current
  <2>5. CASE Settle(a) /\ host'[p] = "none"
    BY <1>3, <1>7, <2>1, <2>2, <2>3, <2>4, <2>5, <2>6
  <2>7. CASE UNCHANGED <<job, halfway>>
    <3>1. job'.now = <<a, b, c, d, e, f>> /\ FileWritten(p, v, job.now)'
      BY <1>6, <1>8, <2>7 DEF FileWritten
    <3> QED BY <1>3, <1>7, <2>1, <2>3, <2>6, <2>7, <3>1
  <2> QED BY <2>3, <2>5, <2>7
<1>9. CASE job.now = <<b, c, d, e, f>> /\ host[p] = "none"
  <2>1. Head(job.now) = b /\ Tail(job.now) = <<c, d, e, f>> /\ Last(job.now) = f /\ job.now # <<>>
    BY <1>9, FiveSteps
  <2>2. <<c, d, e, f>> # <<>> /\ Last(<<c, d, e, f>>) = f
    BY DEF Last
  <2>3. /\ Becomes("host") /\ Settle(b)
        /\ \A q \in Paths \ {p} : host'[q] = host[q]
        /\ host'[p] = "torn"
    <3>1. Head(job.now) = b /\ b = PutFile("host", p, "torn") /\ p \in Inside
      BY <1>1, <1>6, <2>1
    <3>2. /\ \A q \in Parents[p] : TreeOf("host")[q] = "dir"
          /\ TreeOf("host")[p] \in {"none", "torn"}
      BY <1>1, <1>3, <1>9
    <3>3. /\ Becomes("host") /\ Settle(b)
          /\ \A q \in Paths \ {p} : TreeOf("host")'[q] = TreeOf("host")[q]
          /\ TreeOf("host")'[p] = "torn"
      BY <1>2, <1>3, <3>1, <3>2, PlaceDone
    <3> QED BY <1>3, <3>3
  <2>4. job'.now = <<c, d, e, f>>
    BY <1>5, <2>1, <2>3
  <2>5. FileWritten(p, v, job.now)'
    BY <1>6, <1>9, <2>3, <2>4 DEF FileWritten
  <2>6. /\ Current = Below[p]
        /\ \A q \in Paths \ Below[p] : TreeOf("host")'[q] = TreeOf("host")[q]
        /\ \A q \in Below[p] \ {p} : TreeOf("host")'[q] \in {TreeOf("host")[q], "none"}
    <3>1. p \in Below[p]
      BY <1>1, BelowIsParents
    <3> QED BY <1>1, <1>3, <1>6, <2>1, <2>3, <3>1, ParentsArePaths DEF Current
  <2> QED BY <1>3, <1>6, <1>7, <2>2, <2>5, <2>3, <2>4, <2>6
<1>10. CASE job.now = <<c, d, e, f>> /\ host[p] = "torn"
  <2>1. Head(job.now) = c /\ Tail(job.now) = <<d, e, f>> /\ Last(job.now) = f /\ job.now # <<>>
    BY <1>10, FourSteps
  <2>2. <<d, e, f>> # <<>> /\ Last(<<d, e, f>>) = f
    BY DEF Last
  <2>3. /\ Becomes("host") /\ Settle(c)
        /\ \A q \in Paths \ {p} : host'[q] = host[q]
        /\ host'[p] = v
    <3>1. Head(job.now) = c /\ c = PutFile("host", p, v) /\ p \in Inside
      BY <1>1, <1>6, <2>1
    <3>2. /\ \A q \in Parents[p] : TreeOf("host")[q] = "dir"
          /\ TreeOf("host")[p] \in {"none", "torn"}
      BY <1>1, <1>3, <1>10
    <3>3. /\ Becomes("host") /\ Settle(c)
          /\ \A q \in Paths \ {p} : TreeOf("host")'[q] = TreeOf("host")[q]
          /\ TreeOf("host")'[p] = v
      BY <1>2, <1>3, <3>1, <3>2, PlaceDone
    <3> QED BY <1>3, <3>3
  <2>4. job'.now = <<d, e, f>>
    BY <1>5, <2>1, <2>3
  <2>5. FileWritten(p, v, job.now)'
    BY <1>6, <1>10, <2>3, <2>4 DEF FileWritten
  <2>6. /\ Current = Below[p]
        /\ \A q \in Paths \ Below[p] : TreeOf("host")'[q] = TreeOf("host")[q]
        /\ \A q \in Below[p] \ {p} : TreeOf("host")'[q] \in {TreeOf("host")[q], "none"}
    <3>1. p \in Below[p]
      BY <1>1, BelowIsParents
    <3> QED BY <1>1, <1>3, <1>6, <2>1, <2>3, <3>1, ParentsArePaths DEF Current
  <2> QED BY <1>3, <1>6, <1>7, <2>2, <2>5, <2>3, <2>4, <2>6
<1>11. CASE job.now = <<d, e, f>> /\ host[p] = v
  <2>1. Head(job.now) = d /\ Tail(job.now) = <<e, f>> /\ Last(job.now) = f /\ job.now # <<>>
    BY <1>11, ThreeSteps
  <2>2. <<e, f>> # <<>> /\ Last(<<e, f>>) = f
    BY DEF Last
  <2>3. /\ Becomes("lower")
        /\ \A q \in Paths : lower'[q] = lower[q] \/ (q \in Below[p] /\ lower'[q] = "none")
        /\ \/ UNCHANGED <<job, halfway>>
           \/ Settle(d) /\ lower'[p] = "none"
    <3>1. Head(job.now) = Erase("lower", p) /\ p \in Inside
      BY <1>1, <1>6, <2>1
    <3>2. /\ Becomes("lower")
          /\ \A q \in Paths : \/ TreeOf("lower")'[q] = TreeOf("lower")[q]
                              \/ q \in Below[p] /\ TreeOf("lower")'[q] = "none"
          /\ \/ UNCHANGED <<job, halfway>>
             \/ Settle(Erase("lower", p)) /\ \A q \in Below[p] : TreeOf("lower")'[q] = "none"
      BY <1>3, <3>1, RemoveDone
    <3>3. p \in Below[p]
      BY <1>1, BelowIsParents
    <3> QED BY <1>3, <1>6, <3>2, <3>3
  <2>4. ASSUME Settle(d), lower'[p] = "none"
        PROVE  job'.now = <<e, f>> /\ FileWritten(p, v, job.now)'
    <3>1. job'.now = <<e, f>>
      BY <1>5, <2>1, <2>4
    <3>2. host' = host
      BY <2>3 DEF Becomes
    <3> QED BY <1>6, <1>11, <2>4, <3>1, <3>2 DEF FileWritten
  <2>6. /\ Current = Below[p]
        /\ \A q \in Paths \ Below[p] : TreeOf("lower")'[q] = TreeOf("lower")[q]
        /\ \A q \in Below[p] \ {p} : TreeOf("lower")'[q] \in {TreeOf("lower")[q], "none"}
    BY <1>1, <1>3, <1>6, <2>1, <2>3, ParentsArePaths DEF Current
  <2>5. CASE Settle(d) /\ lower'[p] = "none"
    BY <1>3, <1>7, <2>1, <2>2, <2>3, <2>4, <2>5, <2>6
  <2>7. CASE UNCHANGED <<job, halfway>>
    <3>1. job'.now = <<d, e, f>> /\ FileWritten(p, v, job.now)'
      <4>1. host' = host
        BY <2>3 DEF Becomes
      <4> QED BY <1>6, <1>11, <2>7, <4>1 DEF FileWritten
    <3> QED BY <1>3, <1>7, <2>1, <2>3, <2>6, <2>7, <3>1
  <2> QED BY <2>3, <2>5, <2>7
<1>12. CASE job.now = <<e, f>> /\ host[p] = v /\ lower[p] = "none"
  <2>1. Head(job.now) = e /\ Tail(job.now) = <<f>> /\ Last(job.now) = f /\ job.now # <<>>
    BY <1>12, TwoSteps
  <2>2. <<f>> # <<>> /\ Last(<<f>>) = f
    BY DEF Last
  <2>3. /\ Becomes("lower") /\ Settle(e)
        /\ \A q \in Paths \ {p} : lower'[q] = lower[q]
        /\ lower'[p] = "torn"
    <3>1. Head(job.now) = e /\ e = PutFile("lower", p, "torn") /\ p \in Inside
      BY <1>1, <1>6, <2>1
    <3>2. /\ \A q \in Parents[p] : TreeOf("lower")[q] = "dir"
          /\ TreeOf("lower")[p] \in {"none", "torn"}
      BY <1>1, <1>3, <1>12
    <3>3. /\ Becomes("lower") /\ Settle(e)
          /\ \A q \in Paths \ {p} : TreeOf("lower")'[q] = TreeOf("lower")[q]
          /\ TreeOf("lower")'[p] = "torn"
      BY <1>2, <1>3, <3>1, <3>2, PlaceDone
    <3> QED BY <1>3, <3>3
  <2>4. job'.now = <<f>> /\ host' = host
    BY <1>5, <2>1, <2>3 DEF Becomes
  <2>5. FileWritten(p, v, job.now)'
    BY <1>6, <1>12, <2>3, <2>4 DEF FileWritten
  <2>6. /\ Current = Below[p]
        /\ \A q \in Paths \ Below[p] : TreeOf("lower")'[q] = TreeOf("lower")[q]
        /\ \A q \in Below[p] \ {p} : TreeOf("lower")'[q] \in {TreeOf("lower")[q], "none"}
    <3>1. p \in Below[p]
      BY <1>1, BelowIsParents
    <3> QED BY <1>1, <1>3, <1>6, <2>1, <2>3, <3>1, ParentsArePaths DEF Current
  <2> QED BY <1>3, <1>6, <1>7, <2>2, <2>5, <2>3, <2>4, <2>6
<1>13. CASE job.now = <<f>> /\ host[p] = v /\ lower[p] = "torn"
  <2>1. Head(job.now) = f /\ Tail(job.now) = <<>> /\ Last(job.now) = f /\ job.now # <<>>
    BY <1>13, OneSteps
  <2>3. /\ Becomes("lower") /\ Settle(f)
        /\ \A q \in Paths \ {p} : lower'[q] = lower[q]
        /\ lower'[p] = v
    <3>1. Head(job.now) = f /\ f = PutFile("lower", p, v) /\ p \in Inside
      BY <1>1, <1>6, <2>1
    <3>2. /\ \A q \in Parents[p] : TreeOf("lower")[q] = "dir"
          /\ TreeOf("lower")[p] \in {"none", "torn"}
      BY <1>1, <1>3, <1>13
    <3>3. /\ Becomes("lower") /\ Settle(f)
          /\ \A q \in Paths \ {p} : TreeOf("lower")'[q] = TreeOf("lower")[q]
          /\ TreeOf("lower")'[p] = v
      BY <1>2, <1>3, <3>1, <3>2, PlaceDone
    <3> QED BY <1>3, <3>3
  <2>4. job'.now = <<>> /\ host' = host
    BY <1>5, <2>1, <2>3 DEF Becomes
  <2>6. /\ Current = Below[p]
        /\ \A q \in Paths \ Below[p] : TreeOf("lower")'[q] = TreeOf("lower")[q]
        /\ \A q \in Below[p] \ {p} : TreeOf("lower")'[q] \in {TreeOf("lower")[q], "none"}
    <3>1. p \in Below[p]
      BY <1>1, BelowIsParents
    <3> QED BY <1>1, <1>3, <1>6, <2>1, <2>3, <3>1, ParentsArePaths DEF Current
  <2> QED BY <1>3, <1>6, <1>7, <1>13, <2>3, <2>4, <2>6
<1> QED BY <1>2, <1>6, <1>8, <1>9, <1>10, <1>11, <1>12, <1>13 DEF FileWritten

LEMMA TreesKept == ASSUME StorageInv, UNCHANGED vars PROVE StorageInv'
BY StorageStep

(* The entry in progress is a whiteouted path. *)
LEMMA WhiteStep ==
  ASSUME AInv, Operate, job.phase = "white", NEW p \in job.done \ job.left,
         \A q \in (job.done \ job.left) \ {p} : lower[q] = "none",
         Current = Below[p], NEW tree \in {"host", "lower"}, Becomes(tree),
         \A q \in Paths : \/ TreeOf(tree)'[q] = TreeOf(tree)[q]
                          \/ q \in Below[p] /\ TreeOf(tree)'[q] = "none",
         NEW s, UNCHANGED <<job, halfway>> \/ Settle(s), job'.now = <<>> => Replaced(s) = Below[p],
         \/ job'.now = <<>> /\ host'[p] = "none" /\ lower'[p] = "none"
         \/ job'.now # <<>> /\ Current' = Below[p] /\ Deleted(p, job.now)'
  PROVE  AInv' /\ seen' = seen /\ \A q \in theirs : host'[q] = host[q]
<1>1. /\ UNCHANGED <<upper, white, open, plan, req, dirty, cuts, theirs, edits>>
      /\ seen' = View' /\ job.now # <<>> /\ Idle
  BY OperateFrame
<1>2. /\ p \in Inside /\ p \in Paths /\ Whiteouted(p)
      /\ job.done = WhiteEntries /\ WhiteEntries' = WhiteEntries
  BY <1>1, InsideAssumption DEF AInv, JobOK, WhiteOK, WhiteEntries, Whiteouted
<1>3. /\ JobRecord' /\ job'.phase = "white" /\ job'.force = job.force
      /\ job'.left = job.left /\ job'.done = job.done
      /\ halfway' = IF job'.now = <<>> THEN halfway \ Below[p] ELSE halfway
  <2>1. JobRecord
    BY DEF AInv, JobOK
  <2>2. CASE UNCHANGED <<job, halfway>>
    BY <1>1, <2>1, <2>2 DEF JobRecord
  <2>3. CASE Settle(s)
    BY <2>1, <2>3, SettleFacts
  <2> QED BY <2>2, <2>3
<1>4. Good(host', Kinds("host")) /\ Good(lower', Kinds("lower"))
  BY DEF Becomes
<1>5. /\ \A q \in Paths \ Below[p] : host'[q] = host[q] /\ lower'[q] = lower[q]
      /\ \A q \in Paths : lower'[q] \in {lower[q], "none"}
  BY DEF Becomes, TreeOf
<1>6. HostOK' /\ \A q \in theirs : host'[q] = host[q]
  <2>1. job'.now = <<>> => Current' = {}
    BY DEF Current
  <2>2. ASSUME job'.now = <<>>, NEW q \in Below[p]
        PROVE  host'[q] = lower'[q]
    <3>1. q \in Paths /\ (q = p \/ p \in Parents[q])
      BY <1>2, BelowIsParents, ParentsArePaths
    <3> QED BY <1>4, <2>2, <3>1 DEF Good, WellFormed
  <2>3. PICK R : R = Below[p]
    OBVIOUS
  <2>4. /\ \/ halfway' = halfway /\ Current' = R
           \/ halfway' = halfway \ R /\ Current' = {} /\ \A q \in R : host'[q] = lower'[q]
        /\ theirs' = theirs /\ Current = R
        /\ \A q \in Paths \ R : host'[q] = host[q] /\ lower'[q] = lower[q]
    BY <1>1, <1>3, <1>5, <2>1, <2>2, <2>3
  <2> QED BY <1>2, <1>4, <2>3, <2>4, HostStep
<1>7. JobOK'
  <2>1. WhiteOK
    BY DEF AInv, JobOK
  <2>2. UpperEntries' = UpperEntries
    BY <1>1 DEF UpperEntries
  <2>3. \A q \in (job.done \ job.left) \ {p} : lower'[q] = "none"
    BY <1>2, <1>5, InsideAssumption DEF WhiteEntries
  <2>4. WhiteOK'
    BY <1>2, <1>3, <2>1, <2>2, <2>3 DEF WhiteOK
  <2>5. job # NoJob /\ ~Replied' /\ Applying'
    BY <1>3 DEF NoJob, Replied, Applying
  <2> QED BY <1>1, <1>3, <2>4, <2>5 DEF AInv, JobOK, Idle
<1>8. StorageInv' /\ seen' = seen
  <2>1. lower' \in [Paths -> Node] /\ WellFormed(lower')
    BY <1>4 DEF Good, Kinds
  <2>2. PICK R : R = Below[p]
    OBVIOUS
  <2>3. Resolve(p) # "dir" /\ \A q \in Below[p] \ {p} : lower'[q] \in {lower[q], "none"}
    BY <1>2, <1>5, ParentsArePaths DEF Resolve
  <2>4. StorageInv /\ \A q \in Paths \ R : lower'[q] = lower[q]
    BY <1>5, <2>2 DEF AInv
  <2>5. TreesOK' /\ \A q \in Paths : Covered(q)
    BY <1>1, <1>2, <2>1, <2>2, <2>3, <2>4, LowerCovered
  <2> QED BY <1>1, <2>4, <2>5, UnseenStep
<1> QED BY <1>6, <1>7, <1>8 DEF AInv

(* The apply ends, and what its last entry has left is accounted for. *)
LEMMA GivesUp ==
  ASSUME AInv, NEW phase \in {"failed", "refused"}, job' = Reply(phase), job # NoJob,
         UNCHANGED vars, UNCHANGED <<host, halfway>>, theirs' \subseteq theirs,
         phase = "refused" => theirs' \cup halfway # {},
         \A q \in Paths : host[q] # lower[q] => q \in theirs' \cup halfway
  PROVE  AInv'
<1>1. StorageInv'
  BY TreesKept DEF AInv
<1>2. job'.now = <<>> /\ job'.phase = phase /\ job'.force = FALSE /\ JobRecord' /\ Current' = {}
  BY DEF Reply, NoJob, JobRecord, Current
<1>3. HostOK'
  <2>1. \A q \in Paths : Explained(q)'
    BY DEF Explained, vars
  <2>2. WellFormed(host)' /\ UNCHANGED <<host, lower>>
    BY DEF AInv, HostOK, WellFormed, vars
  <2> QED BY <1>2, <2>1, <2>2 DEF AInv, HostOK
<1>4. JobOK'
  <2>1. Idle' /\ \A h \in Handles : open'[h] = Closed
    BY DEF AInv, JobOK, Idle, vars
  <2> QED BY <1>2, <2>1 DEF JobOK, Replied, Applying
<1> QED BY <1>1, <1>3, <1>4 DEF AInv

LEMMA WhiteOperate ==
  ASSUME AInv, Operate, job.phase = "white"
  PROVE  AInv' /\ seen' = seen /\ \A q \in theirs : host'[q] = host[q]
<1>1. /\ UNCHANGED <<upper, white, open, plan, req, dirty, cuts, theirs, edits>>
      /\ seen' = View' /\ job.now # <<>> /\ Idle
  BY OperateFrame
<1>2. PICK p \in job.done \ job.left :
        /\ Deleted(p, job.now)
        /\ \A q \in (job.done \ job.left) \ {p} : lower[q] = "none"
  BY <1>1 DEF AInv, JobOK, WhiteOK
<1>3. p \in Inside /\ p \in Paths /\ Whiteouted(p) /\ p \in Below[p]
  <2>1. p \in Inside /\ p \in Paths /\ Whiteouted(p)
    BY <1>2, InsideAssumption DEF AInv, JobOK, WhiteOK, WhiteEntries
  <2> QED BY <2>1, BelowIsParents
<1>4. /\ TreeOf("host") = host /\ TreeOf("lower") = lower
      /\ TreeOf("host")' = host' /\ TreeOf("lower")' = lower'
  BY DEF TreeOf
<1>5. ASSUME NEW s, Settle(s)
      PROVE  job'.now = Tail(job.now)
  BY <1>5, SettleFacts DEF AInv, JobOK
<1>6. PICK a, b : /\ a = Erase("host", p) /\ b = Erase("lower", p)
                  /\ Replaced(a) = Below[p] /\ Replaced(b) = Below[p]
                  /\ a.at = p /\ a.tree = "host" /\ b.at = p /\ b.tree = "lower"
  BY StepFields
<1>7. ASSUME NEW tree \in {"host", "lower"}, BelowFile(TreeOf(tree), p),
             Head(job.now) = Erase(tree, p),
             \A q \in Paths : Explained(q)
      PROVE  AInv' /\ seen' = seen /\ \A q \in theirs : host'[q] = host[q]
  <2>1. job' = Reply("failed") /\ UNCHANGED <<lower, host, halfway>>
    <3>1. Head(job.now).at = p /\ Head(job.now).tree = tree
      BY <1>7, StepFields
    <3> QED BY <1>7, <3>1, OperateFails
  <2>2. seen' = seen
    BY <1>1, <2>1 DEF View, Resolve, Whiteouted, AInv, StorageInv
  <2>3. UNCHANGED vars
    BY <1>1, <2>1, <2>2 DEF vars
  <2>4. job # NoJob
    BY DEF NoJob
  <2> QED BY <1>1, <1>7, <2>1, <2>2, <2>3, <2>4, GivesUp DEF Explained
<1>8. CASE /\ job.now = <<a, b>>
           /\ BelowFile(host, p) => \A q \in Paths : Explained(q)
  <2>1. Head(job.now) = a /\ Tail(job.now) = <<b>> /\ Last(job.now) = b
    BY <1>8, TwoSteps
  <2>2. CASE BelowFile(host, p)
    BY <1>4, <1>6, <1>7, <1>8, <2>1, <2>2
  <2>3. CASE ~BelowFile(host, p)
    <3>1. Head(job.now) = Erase("host", p)
      BY <1>6, <2>1
    <3>2. /\ Becomes("host")
          /\ \A q \in Paths : \/ TreeOf("host")'[q] = TreeOf("host")[q]
                              \/ q \in Below[p] /\ TreeOf("host")'[q] = "none"
          /\ \/ UNCHANGED <<job, halfway>>
             \/ Settle(Erase("host", p)) /\ \A q \in Below[p] : TreeOf("host")'[q] = "none"
      BY <1>3, <1>4, <2>3, <3>1, RemoveDone
    <3>3. Current = Below[p]
      BY <1>1, <1>6, <2>1 DEF Current
    <3>4. CASE UNCHANGED <<job, halfway>>
      <4>1. ~BelowFile(host, p)'
        <5>1. \A q \in Parents[p] : q \in Paths /\ q \notin Below[p]
          BY <1>3, BelowIsParents, ParentsArePaths, ParentsOrder
        <5> QED BY <1>4, <2>3, <3>2, <5>1 DEF BelowFile
      <4>2. job'.now # <<>> /\ Current' = Below[p] /\ Deleted(p, job.now)'
        BY <1>1, <1>6, <1>8, <3>3, <3>4, <4>1 DEF Deleted, Current
      <4> QED BY <1>2, <3>2, <3>3, <3>4, <4>2, WhiteStep
    <3>5. CASE Settle(a) /\ host'[p] = "none"
      <4>1. job'.now = <<b>> /\ <<b>> # <<>> /\ Last(<<b>>) = b
        BY <1>5, <2>1, <3>5, OneSteps
      <4>2. job'.now # <<>> /\ Current' = Below[p] /\ Deleted(p, job.now)'
        BY <1>6, <3>5, <4>1 DEF Deleted, Current
      <4> QED BY <1>2, <3>2, <3>3, <3>5, <4>2, WhiteStep
    <3> QED BY <1>3, <1>4, <1>6, <3>2, <3>4, <3>5
  <2> QED BY <2>2, <2>3
<1>9. CASE job.now = <<b>> /\ host[p] = "none"
  <2>1. Head(job.now) = b /\ Tail(job.now) = <<>> /\ Last(job.now) = b
    BY <1>9, OneSteps
  <2>2. Current = Below[p]
    BY <1>1, <1>6, <2>1 DEF Current
  <2>3. CASE BelowFile(lower, p)
    <3>1. ASSUME NEW q \in Below[p]
          PROVE  host[q] = "none" /\ lower[q] = "none"
      <4>1. q \in Paths /\ (q = p \/ p \in Parents[q])
        BY <1>3, BelowIsParents, ParentsArePaths
      <4>2. WellFormed(host) /\ WellFormed(lower)
        BY DEF AInv, HostOK, StorageInv, TreesOK
      <4>3. host[q] = "none"
        BY <1>9, <4>1, <4>2 DEF WellFormed
      <4>4. PICK r \in Parents[p] : IsFile(lower[r])
        BY <2>3 DEF BelowFile
      <4>5. r \in Parents[q] /\ r \in Paths
        BY <1>3, <4>1, ParentsOrder, ParentsArePaths
      <4> QED BY <4>1, <4>2, <4>3, <4>4, <4>5 DEF WellFormed, IsFile
    <3>2. \A q \in Paths : Explained(q)
      BY <2>2, <3>1 DEF AInv, HostOK, Explained
    <3> QED BY <1>4, <1>6, <1>7, <2>1, <2>3, <3>2
  <2>4. CASE ~BelowFile(lower, p)
    <3>1. Head(job.now) = Erase("lower", p)
      BY <1>6, <2>1
    <3>2. /\ Becomes("lower")
          /\ \A q \in Paths : \/ TreeOf("lower")'[q] = TreeOf("lower")[q]
                              \/ q \in Below[p] /\ TreeOf("lower")'[q] = "none"
          /\ \/ UNCHANGED <<job, halfway>>
             \/ Settle(Erase("lower", p)) /\ \A q \in Below[p] : TreeOf("lower")'[q] = "none"
      BY <1>3, <1>4, <2>4, <3>1, RemoveDone
    <3>3. host' = host
      BY <3>2 DEF Becomes
    <3>4. CASE UNCHANGED <<job, halfway>>
      <4>1. job'.now # <<>> /\ Current' = Below[p] /\ Deleted(p, job.now)'
        BY <1>1, <1>6, <1>9, <2>2, <3>3, <3>4 DEF Deleted, Current
      <4> QED BY <1>2, <2>2, <3>2, <3>4, <4>1, WhiteStep
    <3>5. CASE Settle(b) /\ lower'[p] = "none"
      <4>1. job'.now = <<>>
        BY <1>5, <2>1, <3>5
      <4> QED BY <1>2, <1>6, <1>9, <2>2, <3>2, <3>3, <3>5, <4>1, WhiteStep
    <3> QED BY <1>3, <1>4, <1>6, <3>2, <3>4, <3>5
  <2> QED BY <2>3, <2>4
<1> QED BY <1>2, <1>6, <1>8, <1>9 DEF Deleted

LEMMA OperateKeeps ==
  ASSUME AInv, Operate
  PROVE  AInv' /\ seen' = seen /\ \A q \in theirs : host'[q] = host[q]
<1>1. job.now # <<>>
  BY OperateFrame
<1>2. job.phase \in {"upper", "white"}
  BY <1>1 DEF AInv, JobOK, NoJob, Applying, ClearUpperOK, ClearWhiteOK
<1>3. CASE job.phase = "upper"
  <2>1. PICK p \in job.done \ job.left :
          /\ IF upper[p] = "dir" THEN DirWritten(p, job.now)
             ELSE FileWritten(p, upper[p], job.now)
          /\ \A q \in (job.done \ job.left) \ {p} : p \notin Parents[q] /\ Written(q)
    BY <1>1, <1>3 DEF AInv, JobOK, UpperOK
  <2>2. CASE upper[p] = "dir"
    BY <1>3, <2>1, <2>2, DirOperate
  <2>3. CASE upper[p] # "dir"
    BY <1>3, <2>1, <2>3, FileOperate
  <2> QED BY <2>2, <2>3
<1>4. CASE job.phase = "white"
  BY <1>4, WhiteOperate
<1> QED BY <1>2, <1>3, <1>4

-----------------------------------------------------------------------------
(* The steps that no tree sees *)

LEMMA NoneCurrent == job.now = <<>> => Current = {}
BY DEF Current

(* The host's tree and what is known of it stay, but for `halfway'. *)
LEMMA HostKept ==
  ASSUME HostOK, UNCHANGED <<host, lower, theirs>>, Current' = {},
         halfway \cup Current \subseteq halfway'
  PROVE  HostOK'
<1>1. \A q \in Paths : Explained(q)'
  BY DEF HostOK, Explained
<1>2. WellFormed(host)'
  BY DEF HostOK, WellFormed
<1> QED BY <1>1, <1>2 DEF HostOK

LEMMA ApplyBegins ==
  ASSUME AInv, NEW force \in BOOLEAN, Apply(force)
  PROVE  AInv'
<1>1. /\ Idle /\ job = NoJob /\ UNCHANGED <<vars, host, theirs, halfway, edits>>
      /\ \A h \in Handles : open[h] = Closed
  BY DEF Apply
<1>2. /\ job'.phase = "upper" /\ job'.force = force /\ job'.left = UpperEntries
      /\ job'.done = UpperEntries /\ job'.now = <<>> /\ JobRecord'
  BY DEF Apply, NoJob, JobRecord
<1>3. StorageInv'
  BY <1>1, TreesKept DEF AInv
<1>4. HostOK'
  <2>1. Current = {} /\ Current' = {}
    BY <1>1, <1>2 DEF Current, NoJob
  <2> QED BY <1>1, <2>1, HostKept DEF AInv, vars
<1>5. UpperOK'
  BY <1>1, <1>2 DEF UpperOK, UpperEntries, vars
<1>6. JobOK'
  BY <1>1, <1>2, <1>5 DEF JobOK, Applying, Replied, Idle, vars
<1> QED BY <1>3, <1>4, <1>6 DEF AInv

LEMMA TurnKeeps ==
  ASSUME AInv, Turn
  PROVE  AInv'
<1>1. /\ UNCHANGED <<vars, host, theirs, halfway, edits>>
      /\ job.left = {} /\ job.now = <<>> /\ job.phase \in {"upper", "white"}
  BY DEF Turn
<1>2. /\ job'.phase = IF job.phase = "upper" THEN "clearUpper" ELSE "clearWhite"
      /\ job'.force = job.force /\ job'.left = job.done
      /\ job'.done = job.done /\ job'.now = <<>> /\ JobRecord'
  <2>1. JobRecord
    BY DEF AInv, JobOK
  <2>2. PICK phase : phase = IF job.phase = "upper" THEN "clearUpper" ELSE "clearWhite"
    OBVIOUS
  <2>3. job' = [[job EXCEPT !.phase = phase] EXCEPT !.left = job.done]
    BY <1>1, <2>1, <2>2 DEF Turn, Enter, JobRecord
  <2> QED BY <1>1, <2>1, <2>2, <2>3 DEF JobRecord
<1>3. StorageInv'
  BY <1>1, TreesKept DEF AInv
<1>4. HostOK'
  <2>1. Current = {} /\ Current' = {}
    BY <1>1, <1>2 DEF Current
  <2> QED BY <1>1, <2>1, HostKept DEF AInv, vars
<1>5. Idle /\ \A h \in Handles : open[h] = Closed
  BY <1>1 DEF AInv, JobOK, NoJob
<1>6. ASSUME job.phase = "upper"
      PROVE  ClearUpperOK'
  <2>1. UpperOK
    BY <1>6 DEF AInv, JobOK
  <2>2. job.done = UpperEntries /\ \A p \in UpperEntries : lower[p] = upper[p]
    BY <1>1, <2>1 DEF UpperOK, DirWritten, FileWritten, Written
  <2> QED BY <1>1, <1>2, <2>2 DEF ClearUpperOK, UpperEntries, vars
<1>7. ASSUME job.phase = "white"
      PROVE  ClearWhiteOK'
  <2>1. WhiteOK
    BY <1>7 DEF AInv, JobOK
  <2>2. job.done = WhiteEntries /\ UpperEntries = {} /\ \A p \in WhiteEntries : lower[p] = "none"
    BY <1>1, <2>1 DEF WhiteOK, Deleted
  <2> QED BY <1>1, <1>2, <2>2 DEF ClearWhiteOK, UpperEntries, WhiteEntries, Whiteouted, vars
<1>8. JobOK'
  BY <1>1, <1>2, <1>5, <1>6, <1>7 DEF AInv, JobOK, Applying, Replied, Idle, vars
<1> QED BY <1>3, <1>4, <1>8 DEF AInv

LEMMA AnswerKeeps ==
  ASSUME AInv, Answer
  PROVE  AInv'
<1>1. UNCHANGED <<vars, host, theirs, halfway, edits>> /\ job' = NoJob /\ job.now = <<>>
  BY DEF Answer, AInv, JobOK
<1>2. StorageInv'
  BY <1>1, TreesKept DEF AInv
<1>3. HostOK'
  <2>1. Current = {} /\ Current' = {}
    BY <1>1 DEF Current, NoJob
  <2> QED BY <1>1, <2>1, HostKept DEF AInv, vars
<1>4. JobOK'
  BY <1>1 DEF JobOK, NoJob, Applying, Replied, JobRecord
<1> QED BY <1>2, <1>3, <1>4 DEF AInv

LEMMA HeadOfEntry ==
  ASSUME AInv, job.now # <<>>
  PROVE  Current \subseteq Below[Head(job.now).at]
<1>1. job.phase \in {"upper", "white"}
  BY DEF AInv, JobOK, NoJob, Applying, ClearUpperOK, ClearWhiteOK
<1>2. ASSUME NEW p \in Inside, NEW a, NEW f, a.at = p, Replaced(f) \in {{p}, Below[p]},
             Head(job.now) = a, Last(job.now) = f
      PROVE  Current \subseteq Below[Head(job.now).at]
  <2>1. p \in Below[p]
    BY <1>2, InsideAssumption, BelowIsParents
  <2> QED BY <1>2, <2>1 DEF Current
<1>3. CASE job.phase = "upper"
  <2>1. UpperOK
    BY <1>3 DEF AInv, JobOK
  <2>2. PICK p \in job.done \ job.left :
          IF upper[p] = "dir" THEN DirWritten(p, job.now)
          ELSE FileWritten(p, upper[p], job.now)
    BY <2>1 DEF UpperOK
  <2>3. p \in Inside
    BY <2>1 DEF UpperOK, UpperEntries
  <2>4. PICK a, b, c, d : /\ a = Unfile("host", p) /\ b = MakeDir("host", p)
                          /\ c = Unfile("lower", p) /\ d = MakeDir("lower", p)
                          /\ a.at = p /\ b.at = p /\ c.at = p /\ d.at = p
                          /\ Replaced(d) = {p}
    BY StepFields
  <2>5. PICK v : v = upper[p]
    OBVIOUS
  <2>6. PICK r, s, t, x, y, z :
          /\ r = Erase("host", p) /\ s = PutFile("host", p, "torn") /\ t = PutFile("host", p, v)
          /\ x = Erase("lower", p) /\ y = PutFile("lower", p, "torn") /\ z = PutFile("lower", p, v)
          /\ r.at = p /\ s.at = p /\ t.at = p /\ x.at = p /\ y.at = p /\ z.at = p
          /\ Replaced(z) = Below[p]
    BY StepFields, PutFields
  <2>7. CASE DirWritten(p, job.now)
    <3>1. \/ job.now = <<a, b, c, d>> \/ job.now = <<b, c, d>>
          \/ job.now = <<c, d>> \/ job.now = <<d>>
      BY <2>4, <2>7 DEF DirWritten
    <3>2. Last(job.now) = d /\ Head(job.now) \in {a, b, c, d}
      <4>1. CASE job.now = <<a, b, c, d>>
        <5>1. /\ job.now # <<>> /\ Head(job.now) = a
              /\ Tail(job.now) = <<b, c, d>> /\ Last(job.now) = d
          BY <4>1, FourSteps
        <5> QED BY <5>1
      <4>2. CASE job.now = <<b, c, d>>
        <5>1. job.now # <<>> /\ Head(job.now) = b /\ Tail(job.now) = <<c, d>> /\ Last(job.now) = d
          BY <4>2, ThreeSteps
        <5> QED BY <5>1
      <4>3. CASE job.now = <<c, d>>
        <5>1. job.now # <<>> /\ Head(job.now) = c /\ Tail(job.now) = <<d>> /\ Last(job.now) = d
          BY <4>3, TwoSteps
        <5> QED BY <5>1
      <4>4. CASE job.now = <<d>>
        <5>1. job.now # <<>> /\ Head(job.now) = d /\ Tail(job.now) = <<>> /\ Last(job.now) = d
          BY <4>4, OneSteps
        <5> QED BY <5>1
      <4> QED BY <3>1, <4>1, <4>2, <4>3, <4>4
    <3> QED BY <1>2, <2>3, <2>4, <3>2
  <2>8. CASE FileWritten(p, v, job.now)
    <3>1. \/ job.now = <<r, s, t, x, y, z>> \/ job.now = <<s, t, x, y, z>>
          \/ job.now = <<t, x, y, z>> \/ job.now = <<x, y, z>>
          \/ job.now = <<y, z>> \/ job.now = <<z>>
      BY <2>6, <2>8 DEF FileWritten
    <3>2. Last(job.now) = z /\ Head(job.now) \in {r, s, t, x, y, z}
      <4>1. CASE job.now = <<r, s, t, x, y, z>>
        <5>1. /\ job.now # <<>> /\ Head(job.now) = r
              /\ Tail(job.now) = <<s, t, x, y, z>> /\ Last(job.now) = z
          BY <4>1, SixSteps
        <5> QED BY <5>1
      <4>2. CASE job.now = <<s, t, x, y, z>>
        <5>1. /\ job.now # <<>> /\ Head(job.now) = s
              /\ Tail(job.now) = <<t, x, y, z>> /\ Last(job.now) = z
          BY <4>2, FiveSteps
        <5> QED BY <5>1
      <4>3. CASE job.now = <<t, x, y, z>>
        <5>1. /\ job.now # <<>> /\ Head(job.now) = t
              /\ Tail(job.now) = <<x, y, z>> /\ Last(job.now) = z
          BY <4>3, FourSteps
        <5> QED BY <5>1
      <4>4. CASE job.now = <<x, y, z>>
        <5>1. job.now # <<>> /\ Head(job.now) = x /\ Tail(job.now) = <<y, z>> /\ Last(job.now) = z
          BY <4>4, ThreeSteps
        <5> QED BY <5>1
      <4>5. CASE job.now = <<y, z>>
        <5>1. job.now # <<>> /\ Head(job.now) = y /\ Tail(job.now) = <<z>> /\ Last(job.now) = z
          BY <4>5, TwoSteps
        <5> QED BY <5>1
      <4>6. CASE job.now = <<z>>
        <5>1. job.now # <<>> /\ Head(job.now) = z /\ Tail(job.now) = <<>> /\ Last(job.now) = z
          BY <4>6, OneSteps
        <5> QED BY <5>1
      <4> QED BY <3>1, <4>1, <4>2, <4>3, <4>4, <4>5, <4>6
    <3> QED BY <1>2, <2>3, <2>6, <3>2
  <2> QED BY <2>2, <2>5, <2>7, <2>8
<1>4. CASE job.phase = "white"
  <2>1. WhiteOK
    BY <1>4 DEF AInv, JobOK
  <2>2. PICK p \in job.done \ job.left : Deleted(p, job.now)
    BY <2>1 DEF WhiteOK
  <2>3. p \in Inside
    BY <2>1 DEF WhiteOK, WhiteEntries
  <2>4. PICK a, b : /\ a = Erase("host", p) /\ b = Erase("lower", p)
                    /\ a.at = p /\ b.at = p /\ Replaced(b) = Below[p]
    BY StepFields
  <2>5. job.now = <<a, b>> \/ job.now = <<b>>
    BY <2>2, <2>4 DEF Deleted
  <2>6. Last(job.now) = b /\ Head(job.now) \in {a, b}
    <3>1. CASE job.now = <<a, b>>
      <4>1. job.now # <<>> /\ Head(job.now) = a /\ Tail(job.now) = <<b>> /\ Last(job.now) = b
        BY <3>1, TwoSteps
      <4> QED BY <4>1
    <3>2. CASE job.now = <<b>>
      <4>1. job.now # <<>> /\ Head(job.now) = b /\ Tail(job.now) = <<>> /\ Last(job.now) = b
        BY <3>2, OneSteps
      <4> QED BY <4>1
    <3> QED BY <2>5, <3>1, <3>2
  <2> QED BY <1>2, <2>3, <2>4, <2>6
<1> QED BY <1>1, <1>3, <1>4

LEMMA CutKeeps ==
  ASSUME AInv, CutApply
  PROVE  AInv'
<1>1. /\ UNCHANGED <<lower, upper, white, open, plan, req, seen, dirty, host, theirs, edits>>
      /\ job' = NoJob /\ cuts < MaxCuts /\ cuts' = cuts + 1
      /\ halfway' = IF job.now = <<>> THEN halfway ELSE halfway \cup Below[Head(job.now).at]
  BY DEF CutApply
<1>2. StorageInv'
  <2>1. StorageInv /\ Idle
    BY DEF CutApply, AInv, JobOK, NoJob, Applying
  <2>2. TreesOK'
    BY <1>1, <2>1 DEF StorageInv, TreesOK, WellFormed
  <2>3. View' = View
    BY <1>1 DEF View, Resolve, Whiteouted
  <2>4. cuts \in 0..MaxCuts /\ MaxCuts \in Nat
    BY <2>1, BoundsAssumption DEF StorageInv
  <2>5. cuts' \in 0..MaxCuts
    BY <1>1, <2>4
  <2>6. seen' = View' /\ dirty' \subseteq Paths
    BY <1>1, <2>1, <2>3 DEF StorageInv
  <2> QED BY <1>1, <2>1, <2>2, <2>5, <2>6, QuietKeeps
<1>3. HostOK'
  <2>1. Current' = {}
    BY <1>1 DEF Current, NoJob
  <2>2. halfway \cup Current \subseteq halfway'
    BY <1>1, HeadOfEntry, NoneCurrent
  <2> QED BY <1>1, <2>1, <2>2, HostKept DEF AInv
<1>4. JobOK'
  BY <1>1 DEF JobOK, NoJob, Applying, Replied, JobRecord
<1> QED BY <1>2, <1>3, <1>4 DEF AInv

LEMMA EnvKeeps ==
  ASSUME AInv, EnvStep
  PROVE  AInv'
<1>1. job = NoJob /\ Next /\ UNCHANGED <<host, job, theirs, halfway, edits>>
  BY DEF EnvStep
<1>2. StorageInv' /\ lower' = lower
  BY <1>1, StorageStep, LowerKept DEF AInv
<1>3. HostOK'
  <2>1. Current = {} /\ Current' = {}
    BY <1>1 DEF Current, NoJob
  <2> QED BY <1>1, <1>2, <2>1, HostKept DEF AInv
<1>4. JobOK'
  BY <1>1 DEF JobOK, NoJob, Applying, Replied, JobRecord
<1> QED BY <1>2, <1>3, <1>4 DEF AInv

LEMMA HostEditKeeps ==
  ASSUME AInv, NEW p \in Inside, NEW v \in {Theirs, "none"}, HostEdit(p, v)
  PROVE  AInv'
<1>1. /\ UNCHANGED <<vars, job, halfway>> /\ job = NoJob
      /\ host[p] # "dir" /\ \A q \in Parents[p] : host[q] = "dir"
      /\ host' = [host EXCEPT ![p] = v]
      /\ theirs' = IF v = lower[p] THEN theirs \ {p} ELSE theirs \cup {p}
  BY DEF HostEdit
<1>2. p \in Paths /\ HostOK /\ theirs \subseteq Inside /\ Inside \subseteq Paths
  BY InsideAssumption DEF AInv, HostOK
<1>3. StorageInv'
  BY <1>1, TreesKept DEF AInv
<1>4. Current = {} /\ Current' = {}
  BY <1>1 DEF Current, NoJob
<1>5. host'[p] = v /\ \A q \in Paths \ {p} : host'[q] = host[q]
  BY <1>1, <1>2 DEF HostOK
<1>6. host' \in [Paths -> Node \cup {Theirs}]
  BY <1>1, <1>2 DEF HostOK, Node
<1>7. WellFormed(host)'
  <2> SUFFICES ASSUME NEW r \in Paths, host'[r] # "none", NEW q \in Parents[r]
               PROVE  host'[q] = "dir"
    BY DEF WellFormed
  <2>1. q \in Paths
    BY ParentsArePaths
  <2>2. CASE r = p
    BY <1>1, <1>5, <2>1, <2>2, ParentsOrder
  <2>3. CASE r # p
    <3>1. host[r] # "none" /\ host[q] = "dir" /\ q # p
      BY <1>1, <1>2, <1>5, <2>3 DEF HostOK, WellFormed
    <3> QED BY <1>5, <2>1, <3>1
  <2> QED BY <2>2, <2>3
<1>8. \A q \in Paths \ Inside : host'[q] = "none" /\ lower'[q] = "none"
  BY <1>1, <1>2, <1>5 DEF HostOK, vars
<1>9. ASSUME NEW q \in theirs'
      PROVE  q \in Inside /\ host'[q] # lower'[q] /\ \A r \in Parents[q] : host'[r] = "dir"
  <2>1. q \in Inside /\ q \in Paths
    BY <1>1, <1>2, <1>9
  <2>2. host'[q] # lower'[q]
    BY <1>1, <1>2, <1>5, <1>9, <2>1 DEF HostOK, vars
  <2>3. ASSUME NEW r \in Parents[q]
        PROVE  host'[r] = "dir"
    <3>1. r \in Paths /\ host[r] = "dir"
      BY <1>1, <1>2, <1>9, <2>1, ParentsArePaths DEF HostOK
    <3> QED BY <1>1, <1>5, <3>1
  <2> QED BY <2>1, <2>2, <2>3
<1>10. \A q \in Paths : Explained(q)'
  <2> SUFFICES ASSUME NEW q \in Paths, host'[q] # lower'[q]
               PROVE  q \in theirs' \cup halfway'
    BY DEF Explained
  <2>1. CASE q = p
    BY <1>1, <1>5, <2>1 DEF vars
  <2>2. CASE q # p
    BY <1>1, <1>2, <1>4, <1>5, <2>2 DEF HostOK, Explained, vars
  <2> QED BY <2>1, <2>2
<1>11. HostOK'
  BY <1>4, <1>6, <1>7, <1>8, <1>9, <1>10 DEF HostOK
<1>12. JobOK'
  BY <1>1 DEF JobOK, NoJob, Applying, Replied, JobRecord
<1> QED BY <1>3, <1>11, <1>12 DEF AInv

-----------------------------------------------------------------------------
(* The next entry *)

LEMMA WritePlans ==
  ASSUME NEW p
  PROVE  /\ upper[p] = "dir" =>
              /\ WriteBack(p) = <<Unfile("host", p), MakeDir("host", p),
                                  Unfile("lower", p), MakeDir("lower", p)>>
              /\ Replaced(Last(WriteBack(p))) = {p} /\ WriteBack(p) # <<>>
         /\ upper[p] # "dir" =>
              /\ WriteBack(p) = <<Erase("host", p), PutFile("host", p, "torn"),
                                  PutFile("host", p, upper[p]), Erase("lower", p),
                                  PutFile("lower", p, "torn"), PutFile("lower", p, upper[p])>>
              /\ Replaced(Last(WriteBack(p))) = Below[p] /\ WriteBack(p) # <<>>
<1>1. CASE upper[p] = "dir"
  <2>1. PICK a, b, c, d : /\ a = Unfile("host", p) /\ b = MakeDir("host", p)
                          /\ c = Unfile("lower", p) /\ d = MakeDir("lower", p)
                          /\ Replaced(d) = {p}
    BY StepFields
  <2>2. WritePath("host", p) = <<a, b>> /\ WritePath("lower", p) = <<c, d>>
    BY <1>1, <2>1 DEF WritePath, Unfile, MakeDir
  <2>3. <<a, b>> \o <<c, d>> = <<a, b, c, d>>
    BY PairsJoined
  <2>4. WriteBack(p) = <<a, b, c, d>>
    BY <2>2, <2>3 DEF WriteBack
  <2>5. Last(<<a, b, c, d>>) = d /\ <<a, b, c, d>> # <<>>
    BY DEF Last
  <2> QED BY <1>1, <2>1, <2>4, <2>5
<1>2. CASE upper[p] # "dir"
  <2>1. PICK v : v = upper[p]
    OBVIOUS
  <2>2. PICK a, b, c, d, e, f :
          /\ a = Erase("host", p) /\ b = PutFile("host", p, "torn") /\ c = PutFile("host", p, v)
          /\ d = Erase("lower", p) /\ e = PutFile("lower", p, "torn") /\ f = PutFile("lower", p, v)
          /\ Replaced(f) = Below[p]
    BY PutFields
  <2>3. WritePath("host", p) = <<a, b, c>> /\ WritePath("lower", p) = <<d, e, f>>
    BY <1>2, <2>1, <2>2 DEF WritePath, Erase, PutFile
  <2>4. <<a, b, c>> \o <<d, e, f>> = <<a, b, c, d, e, f>>
    BY TriplesJoined
  <2>5. WriteBack(p) = <<a, b, c, d, e, f>>
    BY <2>3, <2>4 DEF WriteBack
  <2>6. Last(<<a, b, c, d, e, f>>) = f /\ <<a, b, c, d, e, f>> # <<>>
    BY DEF Last
  <2> QED BY <1>2, <2>1, <2>2, <2>5, <2>6
<1> QED BY <1>1, <1>2

LEMMA DeletePlan ==
  ASSUME NEW p
  PROVE  /\ DeleteBoth(p) = <<Erase("host", p), Erase("lower", p)>>
         /\ Replaced(Last(DeleteBoth(p))) = Below[p]
<1>1. PICK a, b : a = Erase("host", p) /\ b = Erase("lower", p) /\ Replaced(b) = Below[p]
  BY StepFields
<1>2. DeleteBoth(p) = <<a, b>>
  BY <1>1 DEF DeleteBoth, Erase
<1>3. Last(<<a, b>>) = b
  BY TwoSteps, Zenon
<1> QED BY <1>1, <1>2, <1>3

(* Refused: what differs is explained.  Taken up: what the host's user has    *)
(* written there is given up.                                                 *)
LEMMA Considered ==
  ASSUME AInv, job # NoJob, job.now = <<>>, NEW p \in Paths, NEW steps, Consider(p, steps),
         NEW R, R = Replaced(Last(steps)), R \subseteq Below[p], steps # <<>>
  PROVE  \/ AInv' /\ job'.phase = "refused"
         \/ /\ StorageInv' /\ HostOK' /\ JobRecord'
            /\ job'.phase = job.phase /\ job'.force = job.force /\ job'.left = job.left \ {p}
            /\ job'.done = job.done /\ job'.now = steps
            /\ ~job.force => theirs' = theirs
            /\ job.force => theirs' = theirs \ R
<1>1. /\ UNCHANGED <<vars, host, halfway, edits>>
      /\ theirs' = IF job.force THEN theirs \ R ELSE theirs
      /\ job' = IF NoConflict(p, job.force)
                THEN [job EXCEPT !.left = @ \ {p}, !.now = steps] ELSE Reply("refused")
  BY DEF Consider
<1>2. Current = {} /\ \A q \in Paths : Explained(q)
  BY NoneCurrent DEF AInv, HostOK
<1>3. CASE ~NoConflict(p, job.force)
  <2>1. PICK q \in Below[p] : lower[q] # host[q] /\ ~job.force
    BY <1>3 DEF NoConflict, Equivalent
  <2>2. q \in Paths
    BY ParentsArePaths
  <2>3. theirs' = theirs /\ theirs \cup halfway # {}
    BY <1>1, <1>2, <2>1, <2>2 DEF Explained
  <2>4. job' = Reply("refused") /\ UNCHANGED vars /\ UNCHANGED <<host, halfway>>
    BY <1>1, <1>3
  <2>5. AInv'
    BY <1>2, <2>3, <2>4, GivesUp DEF Explained
  <2> QED BY <2>4, <2>5 DEF Reply, NoJob
<1>4. CASE NoConflict(p, job.force)
  <2>1. /\ JobRecord' /\ job'.phase = job.phase /\ job'.force = job.force
        /\ job'.left = job.left \ {p} /\ job'.done = job.done /\ job'.now = steps
    <3>1. JobRecord
      BY DEF AInv, JobOK
    <3> QED BY <1>1, <1>4, <3>1 DEF JobRecord
  <2>2. StorageInv'
    BY <1>1, TreesKept DEF AInv
  <2>3. Current' = R
    BY <2>1 DEF Current
  <2>4. HostOK'
    <3>1. theirs' \cap R = {}
      <4>1. CASE job.force
        BY <1>1, <4>1
      <4>2. CASE ~job.force
        <5>1. \A q \in Below[p] : lower[q] = host[q]
          BY <1>4, <4>2 DEF NoConflict, Equivalent
        <5> QED BY <1>1, <4>2, <5>1 DEF AInv, HostOK
      <4> QED BY <4>1, <4>2
    <3>2. \A q \in Paths \ R : Explained(q)'
      BY <1>1, <1>2 DEF Explained, vars
    <3>3. WellFormed(host)' /\ UNCHANGED <<host, lower>>
      BY <1>1 DEF AInv, HostOK, WellFormed, vars
    <3>4. theirs' \subseteq theirs
      BY <1>1
    <3> QED BY <2>3, <3>1, <3>2, <3>3, <3>4 DEF AInv, HostOK
  <2> QED BY <1>1, <2>1, <2>2, <2>4
<1> QED BY <1>3, <1>4

LEMMA ConsiderUpperKeeps ==
  ASSUME AInv, NEW p \in Paths, ConsiderUpper(p)
  PROVE  AInv'
<1>1. /\ job.phase = "upper" /\ job.now = <<>> /\ p \in Shallowest(job.left)
      /\ Consider(p, WriteBack(p)) /\ job # NoJob
  BY DEF ConsiderUpper, NoJob
<1>2. p \in job.left /\ \A q \in job.left : Len(p) <= Len(q)
  BY <1>1 DEF Shallowest
<1>3. UpperOK
  BY <1>1 DEF AInv, JobOK
<1>4. p \in UpperEntries /\ p \in Inside /\ p \in job.done
  BY <1>2, <1>3 DEF UpperOK, UpperEntries
<1>5. PICK R, steps : R = Replaced(Last(steps)) /\ steps = WriteBack(p)
  OBVIOUS
<1>6. /\ R = IF upper[p] = "dir" THEN {p} ELSE Below[p]
      /\ steps # <<>>
      /\ IF upper[p] = "dir"
         THEN steps = <<Unfile("host", p), MakeDir("host", p),
                        Unfile("lower", p), MakeDir("lower", p)>>
         ELSE steps = <<Erase("host", p), PutFile("host", p, "torn"),
                        PutFile("host", p, upper[p]), Erase("lower", p),
                        PutFile("lower", p, "torn"), PutFile("lower", p, upper[p])>>
  BY <1>5, WritePlans
<1>7. R \subseteq Below[p] /\ steps # <<>>
  <2>1. p \in Below[p]
    BY BelowIsParents
  <2> QED BY <1>6, <2>1
<1>8. CASE AInv'
  BY <1>8
<1>9. CASE /\ StorageInv' /\ HostOK' /\ JobRecord'
           /\ job'.phase = job.phase /\ job'.force = job.force /\ job'.left = job.left \ {p}
           /\ job'.done = job.done /\ job'.now = steps
  <2>1. UNCHANGED <<vars, host>>
    BY <1>1 DEF Consider
  <2>2. \A q \in job.done \ job.left : Written(q) /\ p \notin Parents[q]
    BY <1>1, <1>2, <1>3 DEF UpperOK, DirWritten, FileWritten
  <2>3. Parents[p] \cap job.left = {}
    <3> SUFFICES ASSUME NEW r \in Parents[p], r \in job.left
                 PROVE  FALSE
      OBVIOUS
    <3>1. r \in Paths
      BY ParentsArePaths
    <3>2. Len(r) < Len(p) /\ Len(p) <= Len(r) /\ Len(r) \in Nat /\ Len(p) \in Nat
      BY <1>2, <3>1, ParentElements, PathsAreSequences
    <3> QED BY <3>2
  <2>4. /\ job'.done \ job'.left = (job.done \ job.left) \cup {p}
        /\ UpperEntries' = UpperEntries /\ UNCHANGED <<upper, lower, host>>
    BY <1>2, <1>3, <1>9, <2>1 DEF UpperOK, UpperEntries, vars
  <2>5. IF upper'[p] = "dir" THEN DirWritten(p, job.now)' ELSE FileWritten(p, upper[p], job.now)'
    BY <1>6, <1>9, <2>4 DEF DirWritten, FileWritten
  <2>6. \A q \in (job'.done \ job'.left) \ {p} : p \notin Parents[q] /\ Written(q)'
    BY <2>2, <2>4 DEF Written
  <2>7. \A q \in job'.done \ job'.left : Parents[q] \cap job'.left = {}
    BY <1>3, <1>9, <2>3, <2>4 DEF UpperOK
  <2>8. UpperOK'
    BY <1>3, <1>9, <2>4, <2>5, <2>6, <2>7 DEF UpperOK
  <2>9. JobOK'
    BY <1>1, <1>9, <2>1, <2>8 DEF AInv, JobOK, Applying, Replied, Idle, vars
  <2> QED BY <1>9, <2>9 DEF AInv
<1> QED BY <1>1, <1>5, <1>7, <1>8, <1>9, Considered

LEMMA ConsiderWhiteKeeps ==
  ASSUME AInv, NEW p \in Paths, ConsiderWhite(p)
  PROVE  AInv'
<1>1. /\ job.phase = "white" /\ job.now = <<>> /\ p \in job.left /\ job # NoJob
      /\ IF ~job.force /\ (BelowFile(lower, p) \/ BelowFile(host, p))
         THEN job' = Reply("failed") /\ UNCHANGED <<vars, host, theirs, halfway, edits>>
         ELSE Consider(p, DeleteBoth(p))
  BY DEF ConsiderWhite, NoJob
<1>2. WhiteOK /\ HostOK /\ Current = {}
  BY <1>1, NoneCurrent DEF AInv, JobOK
<1>3. CASE ~job.force /\ (BelowFile(lower, p) \/ BelowFile(host, p))
  BY <1>1, <1>2, <1>3, GivesUp DEF HostOK, Explained
<1>4. CASE job.force \/ ~(BelowFile(lower, p) \/ BelowFile(host, p))
  <2>1. Consider(p, DeleteBoth(p))
    BY <1>1, <1>4
  <2>2. PICK R, steps : R = Replaced(Last(steps)) /\ steps = DeleteBoth(p)
    OBVIOUS
  <2>3. R = Below[p] /\ steps = <<Erase("host", p), Erase("lower", p)>> /\ steps # <<>>
    BY <2>2, DeletePlan
  <2>4. CASE AInv'
    BY <2>4
  <2>5. CASE /\ StorageInv' /\ HostOK' /\ JobRecord'
             /\ job'.phase = job.phase /\ job'.force = job.force /\ job'.left = job.left \ {p}
             /\ job'.done = job.done /\ job'.now = steps
             /\ ~job.force => theirs' = theirs
             /\ job.force => theirs' = theirs \ R
    <3>1. UNCHANGED <<vars, host, halfway>>
      BY <2>1 DEF Consider
    <3>2. \A q \in job.done \ job.left : lower[q] = "none"
      BY <1>1, <1>2 DEF WhiteOK, Deleted
    <3>3. /\ job'.done \ job'.left = (job.done \ job.left) \cup {p}
          /\ UpperEntries' = UpperEntries /\ WhiteEntries' = WhiteEntries
          /\ UNCHANGED <<upper, lower, host, halfway>>
      BY <1>1, <1>2, <2>5, <3>1 DEF WhiteOK, UpperEntries, WhiteEntries, Whiteouted, vars
    <3>4. ASSUME BelowFile(host, p), NEW q \in Paths, host[q] # lower[q]
          PROVE  q \in theirs' \cup halfway
      <4>1. q \in theirs \cup halfway /\ job.force
        BY <1>2, <1>4, <3>4 DEF HostOK, Explained
      <4>2. CASE q \in Below[p]
        <5>1. PICK r \in Parents[p] : IsFile(host[r])
          BY <3>4 DEF BelowFile
        <5>2. r \in Parents[q]
          BY <3>4, <4>2, BelowIsParents, ParentsOrder
        <5>3. q \notin theirs
          BY <1>2, <5>1, <5>2 DEF HostOK, IsFile
        <5> QED BY <4>1, <5>3
      <4>3. CASE q \notin Below[p]
        BY <2>3, <2>5, <4>1, <4>3
      <4> QED BY <4>2, <4>3
    <3>5. Deleted(p, job.now)'
      <4>1. BelowFile(host, p)' => \A q \in Paths : Explained(q)'
        BY <3>3, <3>4 DEF BelowFile, Explained
      <4> QED BY <2>3, <2>5, <4>1 DEF Deleted
    <3>6. WhiteOK'
      BY <1>2, <2>5, <3>2, <3>3, <3>5 DEF WhiteOK
    <3>7. JobOK'
      BY <1>1, <2>5, <3>1, <3>6 DEF AInv, JobOK, Applying, Replied, Idle, vars
    <3> QED BY <2>5, <3>7 DEF AInv
  <2> QED BY <1>1, <2>1, <2>2, <2>3, <2>4, <2>5, Considered, SMTT(30)
<1> QED BY <1>3, <1>4

-----------------------------------------------------------------------------
(* The trees are cleared *)

(* The upper tree loses a path with nothing below, or pruned paths. *)
LEMMA UpperShrinks ==
  ASSUME StorageInv, \A h \in Handles : open[h] = Closed, UNCHANGED <<lower, white, open>>,
         upper' \in [Paths -> Node], WellFormed(upper')
  PROVE  TreesOK'
<1>1. \A h \in Handles : open'[h] \notin Paths
  BY HandlesAssumption
<1>2. WellFormed(upper)' /\ WellFormed(lower)'
  BY DEF StorageInv, TreesOK, WellFormed
<1> QED BY <1>1, <1>2 DEF StorageInv, TreesOK

LEMMA ClearUpperKeeps ==
  ASSUME AInv, NEW p \in Paths, ClearUpper(p)
  PROVE  AInv' /\ seen' = seen /\ host' = host
<1>1. /\ job.phase = "clearUpper" /\ p \in Deepest(job.left)
      /\ job' = [job EXCEPT !.left = @ \ {p}]
      /\ upper' = IF \A q \in Children[p] : upper[q] = "none"
                  THEN [upper EXCEPT ![p] = "none"] ELSE upper
      /\ UNCHANGED <<lower, white, open, plan, req, dirty, cuts, host, theirs, halfway, edits>>
      /\ seen' = View'
  BY DEF ClearUpper
<1>2. /\ ClearUpperOK /\ JobRecord /\ job # NoJob /\ Idle /\ \A h \in Handles : open[h] = Closed
  BY <1>1 DEF AInv, JobOK, NoJob
<1>3. /\ job.now = <<>> /\ job.left \subseteq Inside /\ UpperEntries \subseteq job.left
      /\ \A q \in UpperEntries : lower[q] = upper[q]
  BY <1>2 DEF ClearUpperOK
<1>4. p \in job.left /\ p \in Inside /\ \A q \in job.left : Len(q) <= Len(p)
  BY <1>1, <1>3 DEF Deepest
<1>5. StorageInv /\ TreesOK
  BY DEF AInv, StorageInv
<1>6. \A q \in Paths : p \in Parents[q] => upper[q] = "none"
  <2> SUFFICES ASSUME NEW q \in Paths, p \in Parents[q], upper[q] # "none"
               PROVE  FALSE
    OBVIOUS
  <2>1. q \in Inside
    BY <1>4, InsideAssumption, BelowIsParents
  <2>2. q \in job.left
    BY <1>3, <2>1 DEF UpperEntries
  <2>3. Len(p) < Len(q) /\ Len(q) <= Len(p) /\ Len(p) \in Nat /\ Len(q) \in Nat
    BY <1>4, <2>2, ParentElements, PathsAreSequences
  <2> QED BY <2>3
<1>7. upper' = [upper EXCEPT ![p] = "none"]
  BY <1>1, <1>6, ChildrenAreBelow
<1>8. upper' \in [Paths -> Node] /\ WellFormed(upper')
  <2>1. upper' \in [Paths -> Node]
    BY <1>5, <1>7 DEF TreesOK, Node
  <2>2. WellFormed(upper')
    <3> SUFFICES ASSUME NEW r \in Paths, upper'[r] # "none", NEW s \in Parents[r]
                 PROVE  upper'[s] = "dir"
      BY DEF WellFormed
    <3>1. s \in Paths /\ upper[r] # "none" /\ s # p
      BY <1>5, <1>6, <1>7, ParentsArePaths DEF TreesOK
    <3> QED BY <1>5, <1>7, <3>1 DEF TreesOK, WellFormed
  <2> QED BY <2>1, <2>2
<1>9. TreesOK'
  BY <1>1, <1>2, <1>5, <1>8, UpperShrinks
<1>10. upper'[p] = "none" /\ \A q \in Paths \ {p} : upper'[q] = upper[q]
  BY <1>5, <1>7 DEF TreesOK
<1>11. ASSUME NEW q \in Paths
       PROVE  Covered(q)
  <2>1. Whiteouted(q)' <=> Whiteouted(q)
    BY <1>1 DEF Whiteouted
  <2>2. upper[p] # "none" => lower[p] = upper[p]
    BY <1>3, <1>4 DEF UpperEntries
  <2>3. Resolve(q)' = Resolve(q)
    BY <1>1, <1>10, <2>1, <2>2 DEF Resolve
  <2> QED BY <2>3 DEF Covered
<1>12. StorageInv' /\ seen' = seen
  BY <1>1, <1>2, <1>5, <1>9, <1>11, UnseenStep
<1>13. /\ JobRecord' /\ job'.phase = "clearUpper" /\ job'.force = job.force /\ job'.now = <<>>
       /\ job'.left = job.left \ {p}
  BY <1>1, <1>2, <1>3 DEF JobRecord
<1>14. HostOK'
  <2>1. Current = {} /\ Current' = {}
    BY <1>3, <1>13 DEF Current
  <2> QED BY <1>1, <2>1, HostKept DEF AInv
<1>15. ClearUpperOK'
  <2>1. UpperEntries' = UpperEntries \ {p}
    BY <1>4, <1>10, InsideAssumption DEF UpperEntries
  <2>2. \A q \in UpperEntries \ {p} : upper'[q] = upper[q]
    BY <1>10, InsideAssumption DEF UpperEntries
  <2> QED BY <1>1, <1>3, <1>13, <2>1, <2>2 DEF ClearUpperOK
<1>16. JobOK'
  BY <1>1, <1>2, <1>13, <1>15 DEF AInv, JobOK, Applying, Replied, Idle
<1> QED BY <1>1, <1>12, <1>14, <1>16 DEF AInv

LEMMA ClearWhiteKeeps ==
  ASSUME AInv, NEW p \in Paths, ClearWhite(p)
  PROVE  AInv' /\ seen' = seen /\ host' = host
<1>1. /\ job.phase = "clearWhite" /\ p \in job.left
      /\ job' = [job EXCEPT !.left = @ \ {p}]
      /\ white' = [white EXCEPT ![p] = IF @ = "marked" THEN "dir" ELSE "none"]
      /\ UNCHANGED <<lower, upper, open, plan, req, dirty, cuts, host, theirs, halfway, edits>>
      /\ seen' = View'
  BY DEF ClearWhite
<1>2. /\ ClearWhiteOK /\ JobRecord /\ job # NoJob /\ Idle /\ \A h \in Handles : open[h] = Closed
  BY <1>1 DEF AInv, JobOK, NoJob
<1>3. /\ job.now = <<>> /\ job.left = WhiteEntries /\ UpperEntries = {}
      /\ \A q \in job.left : lower[q] = "none"
  BY <1>2 DEF ClearWhiteOK
<1>4. p \in Inside /\ white[p] \in {"file", "marked"} /\ lower[p] = "none" /\ upper[p] = "none"
  BY <1>1, <1>3 DEF WhiteEntries, UpperEntries, Whiteouted
<1>5. StorageInv /\ TreesOK
  BY DEF AInv, StorageInv
<1>6. /\ white'[p] = IF white[p] = "marked" THEN "dir" ELSE "none"
      /\ \A q \in Paths \ {p} : white'[q] = white[q]
  BY <1>1, <1>5 DEF TreesOK
<1>7. TreesOK'
  <2>1. white' \in [Paths -> {"none", "file", "dir", "marked"}]
    BY <1>1, <1>5 DEF TreesOK
  <2>2. ASSUME NEW r \in Paths, white'[r] # "none", NEW s \in Parents[r]
        PROVE  white'[s] \in {"dir", "marked"}
    <3>1. s \in Paths /\ white[r] # "none" /\ white[s] \in {"dir", "marked"}
      BY <1>4, <1>5, <1>6, <2>2, ParentsArePaths DEF TreesOK
    <3> QED BY <1>6, <3>1, <1>4
  <2>3. WellFormed(upper)' /\ WellFormed(lower)'
    BY <1>1, <1>5 DEF TreesOK, WellFormed
  <2> QED BY <1>1, <1>5, <2>1, <2>2, <2>3 DEF TreesOK
<1>8. ASSUME NEW q \in Paths
      PROVE  Covered(q)
  <2>1. q # p => (Whiteouted(q)' <=> Whiteouted(q))
    BY <1>6 DEF Whiteouted
  <2>2. ~Whiteouted(p)' /\ Whiteouted(p)
    BY <1>4, <1>6 DEF Whiteouted
  <2>3. Resolve(q)' = Resolve(q)
    BY <1>1, <1>4, <2>1, <2>2 DEF Resolve
  <2> QED BY <2>3 DEF Covered
<1>9. StorageInv' /\ seen' = seen
  BY <1>1, <1>2, <1>5, <1>7, <1>8, UnseenStep
<1>10. /\ JobRecord' /\ job'.phase = "clearWhite" /\ job'.force = job.force /\ job'.now = <<>>
       /\ job'.left = job.left \ {p}
  BY <1>1, <1>2, <1>3 DEF JobRecord
<1>11. HostOK'
  <2>1. Current = {} /\ Current' = {}
    BY <1>3, <1>10 DEF Current
  <2> QED BY <1>1, <2>1, HostKept DEF AInv
<1>12. ClearWhiteOK'
  <2>1. \A q \in Inside : Whiteouted(q)' <=> Whiteouted(q) /\ q # p
    BY <1>4, <1>6, InsideAssumption DEF Whiteouted
  <2>2. WhiteEntries' = WhiteEntries \ {p}
    BY <2>1 DEF WhiteEntries
  <2>3. UpperEntries' = UpperEntries
    BY <1>1 DEF UpperEntries
  <2> QED BY <1>1, <1>3, <1>10, <2>2, <2>3 DEF ClearWhiteOK
<1>13. JobOK'
  BY <1>1, <1>2, <1>10, <1>12 DEF AInv, JobOK, Applying, Replied, Idle
<1> QED BY <1>1, <1>9, <1>11, <1>13 DEF AInv

LEMMA PruneWhiteKeeps ==
  ASSUME AInv, PruneWhite
  PROVE  AInv' /\ seen' = seen /\ host' = host
<1>1. /\ job.phase = "clearWhite" /\ job.left = {} /\ job' = Reply("done")
      /\ white' = [p \in Paths |->
                     IF \A q \in Below[p] : white[q] \in {"none", "dir"} THEN "none" ELSE white[p]]
      /\ UNCHANGED <<lower, upper, open, plan, req, dirty, cuts, host, theirs, halfway, edits>>
      /\ seen' = View'
  BY DEF PruneWhite
<1>2. ClearWhiteOK /\ job # NoJob /\ Idle /\ \A h \in Handles : open[h] = Closed
  BY <1>1 DEF AInv, JobOK, NoJob
<1>3. job.now = <<>> /\ WhiteEntries = {} /\ UpperEntries = {}
  BY <1>1, <1>2 DEF ClearWhiteOK
<1>4. StorageInv /\ TreesOK
  BY DEF AInv, StorageInv
<1>5. \A p \in Paths : p \in Below[p] /\ Below[p] \subseteq Paths
  BY BelowIsParents, ParentsArePaths
<1>6. \A p \in Paths : white'[p] # "none" =>
        white'[p] = white[p] /\ \E q \in Below[p] : white[q] \notin {"none", "dir"}
  BY <1>1
<1>7. \A p \in Paths : (\E q \in Below[p] : white[q] \notin {"none", "dir"}) => white'[p] = white[p]
  BY <1>1
<1>8. TreesOK'
  <2>1. white' \in [Paths -> {"none", "file", "dir", "marked"}]
    BY <1>1, <1>4 DEF TreesOK
  <2>2. ASSUME NEW r \in Paths, white'[r] # "none", NEW s \in Parents[r]
        PROVE  white'[s] \in {"dir", "marked"}
    <3>1. s \in Paths /\ white[s] \in {"dir", "marked"}
      BY <1>4, <1>6, <2>2, ParentsArePaths DEF TreesOK
    <3>2. PICK q \in Below[r] : white[q] \notin {"none", "dir"}
      BY <1>6, <2>2
    <3>3. q \in Below[s]
      BY <1>5, <3>1, BelowIsParents, ParentsOrder
    <3> QED BY <1>7, <3>1, <3>2, <3>3
  <2>3. WellFormed(upper)' /\ WellFormed(lower)'
    BY <1>1, <1>4 DEF TreesOK, WellFormed
  <2> QED BY <1>1, <1>4, <2>1, <2>2, <2>3 DEF TreesOK
<1>9. ASSUME NEW q \in Paths
      PROVE  Covered(q)
  <2>1. Whiteouted(q)' <=> Whiteouted(q)
    <3>1. white[q] \in {"none", "file", "dir", "marked"}
      BY <1>4 DEF TreesOK
    <3>2. white'[q] \in {"none", white[q]}
      BY <1>6
    <3>3. Whiteouted(q) => white'[q] = white[q]
      BY <1>5, <1>7 DEF Whiteouted
    <3> QED BY <3>1, <3>2, <3>3 DEF Whiteouted
  <2> QED BY <1>1, <2>1 DEF Covered, Resolve
<1>10. StorageInv' /\ seen' = seen
  BY <1>1, <1>2, <1>4, <1>8, <1>9, UnseenStep
<1>11. job'.phase = "done" /\ job'.force = FALSE /\ job'.now = <<>> /\ JobRecord'
  BY <1>1 DEF Reply, NoJob, JobRecord
<1>12. HostOK'
  <2>1. Current = {} /\ Current' = {}
    BY <1>3, <1>11 DEF Current
  <2> QED BY <1>1, <2>1, HostKept DEF AInv
<1>13. ASSUME NEW p \in Inside
       PROVE  upper'[p] = "none" /\ white'[p] = "none"
  <2>1. p \in Paths /\ Below[p] \subseteq Inside
    BY InsideAssumption
  <2>2. \A q \in Below[p] : white[q] \in {"none", "dir"}
    BY <1>3, <1>4, <1>5, <2>1 DEF WhiteEntries, Whiteouted, TreesOK
  <2> QED BY <1>1, <1>3, <2>1, <2>2 DEF UpperEntries
<1>14. JobOK'
  BY <1>1, <1>2, <1>11, <1>13 DEF JobOK, Applying, Replied, Idle
<1> QED BY <1>1, <1>10, <1>12, <1>14 DEF AInv

(* Outside of the source empty directories are removed. *)
Pruned(q) ==
  /\ q \notin Inside /\ seen[q] = "dir"
  /\ \A r \in Children[q] : seen[r] \in {"none", "dir"}

LEMMA PruneUpperKeeps ==
  ASSUME AInv, PruneUpper
  PROVE  AInv' /\ host' = host /\ \A q \in Paths : seen'[q] = seen[q] \/ Pruned(q)
<1>1. /\ job.phase = "clearUpper" /\ job.left = {} /\ job' = Enter("white", WhiteEntries)
      /\ upper' = [p \in Paths |->
                     IF \A q \in Below[p] : upper[q] \in {"none", "dir"} THEN "none" ELSE upper[p]]
      /\ UNCHANGED <<lower, white, open, plan, req, dirty, cuts, host, theirs, halfway, edits>>
      /\ seen' = View'
  BY DEF PruneUpper
<1>2. /\ ClearUpperOK /\ JobRecord /\ job # NoJob /\ Idle /\ \A h \in Handles : open[h] = Closed
  BY <1>1 DEF AInv, JobOK, NoJob
<1>3. job.now = <<>> /\ \A p \in Inside : upper[p] = "none"
  BY <1>1, <1>2 DEF ClearUpperOK, UpperEntries
<1>4. StorageInv /\ TreesOK /\ \A p \in Paths \ Inside : lower[p] = "none"
  BY DEF AInv, StorageInv, HostOK
<1>5. \A p \in Paths : p \in Below[p] /\ Below[p] \subseteq Paths
  BY BelowIsParents, ParentsArePaths
<1>6. \A p \in Paths : upper'[p] # "none" =>
        upper'[p] = upper[p] /\ \E q \in Below[p] : upper[q] \notin {"none", "dir"}
  BY <1>1
<1>7. \A p \in Paths : (\E q \in Below[p] : upper[q] \notin {"none", "dir"}) => upper'[p] = upper[p]
  BY <1>1
<1>8. ASSUME NEW r \in Paths, upper'[r] # "none", NEW s \in Parents[r]
      PROVE  upper'[s] = upper[s] /\ upper[s] = "dir"
  <2>1. s \in Paths /\ upper[s] = "dir"
    BY <1>4, <1>6, <1>8, ParentsArePaths DEF TreesOK, WellFormed
  <2>2. PICK q \in Below[r] : upper[q] \notin {"none", "dir"}
    BY <1>6, <1>8
  <2>3. q \in Below[s]
    BY <1>5, <2>1, <2>2, BelowIsParents, ParentsOrder
  <2> QED BY <1>7, <2>1, <2>2, <2>3
<1>9. TreesOK'
  <2>1. upper' \in [Paths -> Node]
    BY <1>1, <1>4 DEF TreesOK, Node
  <2>2. WellFormed(upper')
    BY <1>8 DEF WellFormed
  <2> QED BY <1>1, <1>2, <1>4, <2>1, <2>2, UpperShrinks
<1>10. \A q \in Paths : Whiteouted(q)' <=> Whiteouted(q)
  BY <1>1 DEF Whiteouted
<1>11. \A q \in Paths : upper'[q] = upper[q] => Resolve(q)' = Resolve(q)
  BY <1>1, <1>10 DEF Resolve
<1>12. \A q \in Inside : Resolve(q)' = Resolve(q) /\ Parents[q] \subseteq Inside
  BY <1>1, <1>3, <1>11, InsideAssumption
<1>13. ASSUME NEW q \in Paths, Resolve(q)' # "none"
       PROVE  /\ Resolve(q)' = Resolve(q)
              /\ \A r \in Parents[q] : Resolve(r)' = Resolve(r)
  <2>1. CASE q \in Inside
    BY <1>12, <2>1
  <2>2. CASE q \notin Inside
    <3>1. upper'[q] # "none"
      BY <1>1, <1>4, <1>13, <2>2 DEF Resolve
    <3>2. upper'[q] = upper[q] /\ \A r \in Parents[q] : r \in Paths /\ upper'[r] = upper[r]
      BY <1>6, <1>8, <3>1, ParentsArePaths
    <3> QED BY <1>11, <3>2
  <2> QED BY <2>1, <2>2
<1>14. seen = View
  BY <1>2, <1>4 DEF StorageInv
<1>15. /\ \A q \in Paths : View[q] = IF Rooted(q) THEN Resolve(q) ELSE "none"
       /\ \A q \in Paths : View'[q] = IF Rooted(q)' THEN Resolve(q)' ELSE "none"
  BY DEF View, Rooted
<1>16. ASSUME NEW q \in Paths, Resolve(q)' # "none"
       PROVE  View'[q] = View[q] /\ (Rooted(q)' <=> Rooted(q))
  <2>1. Rooted(q)' <=> Rooted(q)
    BY <1>13, <1>16 DEF Rooted
  <2> QED BY <1>13, <1>15, <1>16, <2>1
<1>17. StorageInv'
  <2>1. dirty' \subseteq Paths /\ cuts' \in 0..MaxCuts
    BY <1>1, <1>4 DEF StorageInv
  <2> QED BY <1>1, <1>2, <1>4, <1>9, <2>1, QuietKeeps
<1>18. ASSUME NEW q \in Paths, View'[q] # View[q]
       PROVE  Pruned(q)
  <2>1. Resolve(q)' = "none" /\ View'[q] = "none" /\ Resolve(q) # "none" /\ View[q] = Resolve(q)
    BY <1>15, <1>16, <1>18
  <2>2. q \notin Inside
    BY <1>12, <2>1
  <2>3. ~Whiteouted(q) /\ upper[q] # "none" /\ upper'[q] = "none" /\ View[q] = upper[q]
    BY <1>4, <1>10, <2>1, <2>2 DEF Resolve
  <2>4. \A r \in Below[q] : upper[r] \in {"none", "dir"}
    BY <1>7, <2>3
  <2>5. ASSUME NEW r \in Children[q]
        PROVE  View[r] \in {"none", "dir"}
    <3>1. r \in Paths /\ r \in Below[q] /\ r \notin Inside
      BY <2>2, ChildrenAreBelow, BelowIsParents, InsideAssumption
    <3>2. Resolve(r) \in {"none", "dir"}
      BY <1>4, <2>4, <3>1 DEF Resolve
    <3> QED BY <1>15, <3>1, <3>2
  <2> QED BY <1>5, <1>14, <2>2, <2>3, <2>4, <2>5 DEF Pruned
<1>19. /\ JobRecord' /\ job'.phase = "white" /\ job'.force = job.force /\ job'.now = <<>>
       /\ job'.left = WhiteEntries /\ job'.done = WhiteEntries
  BY <1>1, <1>2, <1>3 DEF JobRecord, Enter
<1>20. HostOK'
  <2>1. Current = {} /\ Current' = {}
    BY <1>3, <1>19 DEF Current
  <2> QED BY <1>1, <2>1, HostKept DEF AInv
<1>21. WhiteOK'
  <2>1. UpperEntries' = {}
    BY <1>3, <1>6, InsideAssumption DEF UpperEntries
  <2>2. WhiteEntries' = WhiteEntries
    BY <1>1 DEF WhiteEntries, Whiteouted
  <2> QED BY <1>19, <2>1, <2>2 DEF WhiteOK
<1>22. JobOK'
  BY <1>1, <1>2, <1>19, <1>21 DEF AInv, JobOK, Applying, Replied, Idle
<1> QED BY <1>1, <1>14, <1>17, <1>18, <1>20, <1>22 DEF AInv

-----------------------------------------------------------------------------
(* Every step *)

LEMMA ApplyInitHolds == ApplyInit => AInv
<1> SUFFICES ASSUME ApplyInit
             PROVE  AInv
  OBVIOUS
<1>1. /\ Init /\ lower = Source /\ host = Source /\ job = NoJob /\ theirs = {} /\ halfway = {}
  BY DEF ApplyInit
<1>2. Current = {}
  BY <1>1 DEF Current, NoJob
<1>3. HostOK
  BY <1>1, <1>2, SourceAssumption DEF HostOK, Explained, Node
<1>4. JobOK
  BY <1>1 DEF JobOK, NoJob, JobRecord, Applying, Replied
<1> QED BY <1>1, <1>3, <1>4, StorageInit DEF AInv

LEMMA ApplyStepKeeps ==
  ASSUME AInv, [ApplyNext]_applyVars
  PROVE  /\ AInv'
         /\ (Applying /\ ~job.force) => \A q \in theirs : host'[q] = host[q]
         /\ Applying => \A q \in Paths : seen'[q] = seen[q] \/ Pruned(q)
<1>1. CASE UNCHANGED applyVars
  <2>1. UNCHANGED vars /\ UNCHANGED <<host, lower, job, theirs, halfway, seen>>
    BY <1>1 DEF applyVars, vars
  <2>2. StorageInv'
    BY <2>1, TreesKept DEF AInv
  <2>3. HostOK'
    BY <2>1 DEF AInv, HostOK, WellFormed, Explained, Current
  <2>4. JobOK'
    BY <2>1 DEF AInv, JobOK, JobRecord, NoJob, Applying, Replied, Idle, UpperOK, ClearUpperOK,
                WhiteOK, ClearWhiteOK, UpperEntries, WhiteEntries, Whiteouted, DirWritten,
                FileWritten, Deleted, Written, BelowFile, Explained, vars
  <2> QED BY <2>1, <2>2, <2>3, <2>4 DEF AInv
<1>2. ASSUME NEW force \in BOOLEAN, Apply(force)
      PROVE  AInv' /\ UNCHANGED <<host, seen>>
  BY <1>2, ApplyBegins DEF Apply, vars
<1>3. ASSUME NEW p \in Paths, ConsiderUpper(p)
      PROVE  AInv' /\ UNCHANGED <<host, seen>>
  BY <1>3, ConsiderUpperKeeps DEF ConsiderUpper, Consider, vars
<1>4. ASSUME NEW p \in Paths, ConsiderWhite(p)
      PROVE  AInv' /\ UNCHANGED <<host, seen>>
  BY <1>4, ConsiderWhiteKeeps DEF ConsiderWhite, Consider, vars
<1>5. ASSUME NEW p \in Paths, ClearUpper(p)
      PROVE  AInv' /\ UNCHANGED <<host, seen>>
  BY <1>5, ClearUpperKeeps
<1>6. ASSUME NEW p \in Paths, ClearWhite(p)
      PROVE  AInv' /\ UNCHANGED <<host, seen>>
  BY <1>6, ClearWhiteKeeps
<1>7. CASE Operate
  BY <1>7, OperateKeeps
<1>8. CASE Turn
  BY <1>8, TurnKeeps DEF Turn, vars
<1>9. CASE PruneUpper
  BY <1>9, PruneUpperKeeps
<1>10. CASE PruneWhite
  BY <1>10, PruneWhiteKeeps
<1>11. CASE Answer
  BY <1>11, AnswerKeeps DEF Answer, vars
<1>12. CASE CutApply
  BY <1>12, CutKeeps DEF CutApply
<1>13. CASE EnvStep
  <2>1. ~Applying
    BY <1>13 DEF EnvStep, Applying, NoJob
  <2> QED BY <1>13, <2>1, EnvKeeps
<1>14. ASSUME NEW p \in Inside, NEW v \in {Theirs, "none"}, HostEdit(p, v)
       PROVE  AInv' /\ ~Applying
  BY <1>14, HostEditKeeps DEF HostEdit, Applying, NoJob
<1> QED BY <1>1, <1>2, <1>3, <1>4, <1>5, <1>6, <1>7, <1>8, <1>9, <1>10, <1>11, <1>12, <1>13, <1>14
        DEF ApplyNext

(* The invariant says so when an apply has reported success. *)
LEMMA DeliveredWhenDone ==
  ASSUME AInv
  PROVE  Delivered
<1> SUFFICES ASSUME job.phase = "done", NEW p \in Inside
             PROVE  /\ upper[p] = "none" /\ white[p] = "none" /\ lower[p] = seen[p]
                    /\ p \notin theirs \cup halfway => host[p] = seen[p]
  BY DEF Delivered
<1>1. /\ job.now = <<>> /\ Idle /\ StorageInv /\ HostOK
      /\ \A q \in Inside : upper[q] = "none" /\ white[q] = "none"
  BY DEF AInv, JobOK, Replied, NoJob
<1>2. \A q \in Inside : q \in Paths /\ Resolve(q) = lower[q] /\ Parents[q] \subseteq Inside
  BY <1>1, InsideAssumption DEF Resolve, Whiteouted
<1>3. seen = View /\ WellFormed(lower)
  BY <1>1 DEF StorageInv, TreesOK
<1>4. seen[p] = lower[p]
  <2>1. seen[p] = IF \A q \in Parents[p] : Resolve(q) = "dir" THEN Resolve(p) ELSE "none"
    BY <1>2, <1>3 DEF View
  <2>2. lower[p] # "none" => \A q \in Parents[p] : Resolve(q) = "dir"
    BY <1>2, <1>3 DEF WellFormed
  <2> QED BY <1>2, <2>1, <2>2
<1>5. p \notin theirs \cup halfway => host[p] = lower[p]
  BY <1>1, <1>2, NoneCurrent DEF HostOK, Explained
<1> QED BY <1>1, <1>4, <1>5

-----------------------------------------------------------------------------
(* The theorems of Apply *)

(* The invariant of an apply holds in every state. *)
THEOREM ApplyInvariantHolds == ApplySpec => []AInv
<1>1. AInv /\ [ApplyNext]_applyVars => AInv'
  BY ApplyStepKeeps
<1> QED BY <1>1, ApplyInitHolds, PTL DEF ApplySpec

(* Without --force no step of DesktopService::apply changes a file of the     *)
(* host that the host's user has written or removed.                          *)
THEOREM UnforcedApplySparesTheHost == ApplySpec => HostEditsSurvive
<1>1. AInv /\ [ApplyNext]_applyVars =>
        [(Applying /\ ~job.force) => \A p \in theirs : host'[p] = host[p]]_applyVars
  BY ApplyStepKeeps
<1> QED BY <1>1, ApplyInvariantHolds, PTL DEF ApplySpec, HostEditsSurvive

(* While an apply runs the environment shows the same files all the time;     *)
(* only empty directories outside of the source go.                           *)
THEOREM ApplyIsUnseen == ApplySpec => ApplyUnseen
<1>1. AInv /\ [ApplyNext]_applyVars =>
        [Applying => \A p \in Paths :
           \/ seen'[p] = seen[p]
           \/ /\ p \notin Inside /\ seen[p] = "dir"
              /\ \A q \in Children[p] : seen[q] \in {"none", "dir"}]_applyVars
  BY ApplyStepKeeps DEF Pruned
<1> QED BY <1>1, ApplyInvariantHolds, PTL DEF ApplySpec, ApplyUnseen

(* An apply that reports success has written everything back, but for what    *)
(* the host's user has changed and the environment has not.                   *)
THEOREM SuccessIsDelivery == ApplySpec => []Delivered
BY DeliveredWhenDone, ApplyInvariantHolds, PTL

(* A safe save is atomic, applies that are cut off or repeated before it      *)
(* included.                                                                  *)
THEOREM SafeSaveAfterApply == ApplySpec => []SafeSaveAtomic
<1>1. AInv => SafeSaveAtomic
  BY SafeSaveFromStorage DEF AInv
<1> QED BY <1>1, ApplyInvariantHolds, PTL

(* An apply refuses only where the host's user has made a change, or an       *)
(* earlier write-back was cut off.                                            *)
THEOREM RefusalHasReason == ApplySpec => []RefusedWithReason
<1>1. AInv => RefusedWithReason
  BY DEF AInv, JobOK, RefusedWithReason
<1> QED BY <1>1, ApplyInvariantHolds, PTL
=============================================================================
