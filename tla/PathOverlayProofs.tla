------------------------- MODULE PathOverlayProofs -------------------------
(***************************************************************************)
(* Proofs about PathOverlay.  Whatever programs rename, the three trees    *)
(* stay trees, what is seen between requests is what they resolve to, and  *)
(* a safe save is atomic (StorageInv).  For programs that rename files but *)
(* no directories, the trees implement one tree of files and no request    *)
(* fails half-way for what earlier ones left (IInv).                       *)
(*                                                                         *)
(* StorageInv knows of a request only which kinds of call are left: every  *)
(* call but a create, a bind and a move keeps the trees by itself, and the *)
(* call before one of these three has made the place it needs.             *)
(*                                                                         *)
(* IInv follows a request from call to call: each Stage says what *)
(* the trees hold at the paths the request names when `rest' of its plan   *)
(* is left.  Away from those paths a storage call changes nothing of what  *)
(* is seen, so the last call of a request turns `seen' into an Outcome,    *)
(* and every outcome is a step of FileTree.                                *)
(***************************************************************************)
EXTENDS PathOverlay, FiniteSetTheorems, TLAPS

-----------------------------------------------------------------------------
(* Paths *)

Names == UNION {ToSet(p) : p \in Paths}

LEMMA PathsAreSequences == \A p \in Paths : p \in Seq(Names) /\ p # <<>>
BY PathsAssumption DEF Names

LEMMA PrefixElements ==
  ASSUME NEW S, NEW s \in Seq(S), NEW t \in Seq(S)
  PROVE  IsPrefix(s, t) <=> Len(s) <= Len(t) /\ \A i \in 1..Len(s) : s[i] = t[i]
<1>1. ASSUME Len(s) <= Len(t)
      PROVE  SubSeq(s, 1, Len(s)) = SubSeq(t, 1, Len(s)) <=> \A i \in 1..Len(s) : s[i] = t[i]
  <2>1. SubSeq(s, 1, Len(s)) = [i \in 1..Len(s) |-> s[i]]
    OBVIOUS
  <2>2. SubSeq(t, 1, Len(s)) = [i \in 1..Len(s) |-> t[i]]
    BY <1>1
  <2> QED BY <2>1, <2>2
<1> QED BY <1>1 DEF IsPrefix

LEMMA SequencesEqual ==
  ASSUME NEW S, NEW s \in Seq(S), NEW t \in Seq(S)
  PROVE  s = t <=> Len(s) = Len(t) /\ \A i \in 1..Len(s) : s[i] = t[i]
OBVIOUS

LEMMA ParentElements ==
  ASSUME NEW p \in Paths, NEW q \in Paths
  PROVE  q \in Parents[p] <=> Len(q) < Len(p) /\ \A i \in 1..Len(q) : q[i] = p[i]
<1> /\ p \in Seq(Names)
    /\ q \in Seq(Names)
  BY PathsAreSequences
<1>1. IsPrefix(q, p) <=> Len(q) <= Len(p) /\ \A i \in 1..Len(q) : q[i] = p[i]
  BY PrefixElements
<1>2. q = p <=> Len(q) = Len(p) /\ \A i \in 1..Len(q) : q[i] = p[i]
  BY SequencesEqual
<1>3. Len(p) \in Nat /\ Len(q) \in Nat
  OBVIOUS
<1> QED BY <1>1, <1>2, <1>3 DEF Parents, IsStrictPrefix

LEMMA BelowIsParents ==
  ASSUME NEW p \in Paths, NEW q \in Paths
  PROVE  q \in Below[p] <=> q = p \/ p \in Parents[q]
<1> /\ p \in Seq(Names)
    /\ q \in Seq(Names)
  BY PathsAreSequences
<1>1. IsPrefix(p, q) <=> Len(p) <= Len(q) /\ \A i \in 1..Len(p) : p[i] = q[i]
  BY PrefixElements
<1>2. q = p => IsPrefix(p, q)
  BY <1>1
<1> QED BY <1>2 DEF Below, Parents, IsStrictPrefix

LEMMA ParentsArePaths == \A p \in Paths : Parents[p] \subseteq Paths /\ Below[p] \subseteq Paths
BY DEF Parents, Below

LEMMA ParentsOrder ==
  ASSUME NEW p \in Paths
  PROVE  /\ p \notin Parents[p]
         /\ \A q \in Parents[p] : \A r \in Parents[q] : r \in Parents[p]
<1>1. p \notin Parents[p]
  BY DEF Parents, IsStrictPrefix
<1>2. ASSUME NEW q \in Parents[p], NEW r \in Parents[q]
      PROVE  r \in Parents[p]
  <2>1. q \in Paths /\ r \in Paths
    BY ParentsArePaths
  <2>2. /\ Len(q) < Len(p) /\ \A i \in 1..Len(q) : q[i] = p[i]
        /\ Len(r) < Len(q) /\ \A i \in 1..Len(r) : r[i] = q[i]
    BY <2>1, ParentElements
  <2>3. Len(p) \in Nat /\ Len(q) \in Nat /\ Len(r) \in Nat
    BY <2>1, PathsAreSequences
  <2>4. Len(r) < Len(p) /\ \A i \in 1..Len(r) : r[i] = p[i]
    BY <2>2, <2>3
  <2> QED BY <2>1, <2>4, ParentElements
<1> QED BY <1>1, <1>2

LEMMA BelowApart ==
  ASSUME NEW p \in Paths, NEW r \in Paths, p \notin Below[r], r \notin Below[p]
  PROVE  Below[p] \cap Below[r] = {}
<1> SUFFICES ASSUME NEW q \in Paths, q \in Below[p], q \in Below[r]
             PROVE  FALSE
  BY ParentsArePaths
<1>1. p \in Seq(Names) /\ q \in Seq(Names) /\ r \in Seq(Names)
  BY PathsAreSequences
<1>2. /\ Len(p) <= Len(q) /\ \A i \in 1..Len(p) : p[i] = q[i]
      /\ Len(r) <= Len(q) /\ \A i \in 1..Len(r) : r[i] = q[i]
  BY <1>1, PrefixElements DEF Below
<1>3. Len(p) \in Nat /\ Len(q) \in Nat /\ Len(r) \in Nat
  BY <1>1
<1>4. CASE Len(p) <= Len(r)
  <2>1. \A i \in 1..Len(p) : p[i] = r[i]
    BY <1>2, <1>3, <1>4
  <2>2. IsPrefix(p, r)
    BY <1>1, <1>4, <2>1, PrefixElements
  <2> QED BY <2>2 DEF Below
<1>5. CASE Len(r) <= Len(p)
  <2>1. \A i \in 1..Len(r) : r[i] = p[i]
    BY <1>2, <1>3, <1>5
  <2>2. IsPrefix(r, p)
    BY <1>1, <1>5, <2>1, PrefixElements
  <2> QED BY <2>2 DEF Below
<1> QED BY <1>3, <1>4, <1>5

LEMMA ChildOnTheWay ==
  ASSUME NEW p \in Paths, NEW q \in Paths, p \in Parents[q]
  PROVE  \E c \in Children[p] : q \in Below[c]
<1> DEFINE c == SubSeq(q, 1, Len(p) + 1)
<1>1. p \in Seq(Names) /\ q \in Seq(Names) /\ p # <<>>
  BY PathsAreSequences
<1>2. Len(p) \in Nat /\ Len(q) \in Nat /\ Len(p) < Len(q) /\ \A i \in 1..Len(p) : p[i] = q[i]
  BY <1>1, ParentElements
<1>3. /\ c \in Seq(Names) /\ Len(c) = Len(p) + 1
      /\ \A i \in 1..Len(c) : c[i] = q[i]
  BY <1>1, <1>2
<1>4. c \in Paths
  <2>1. c \in Prefixes(q)
    BY <1>2 DEF Prefixes
  <2>2. c # <<>>
    BY <1>2, <1>3
  <2> QED BY <2>1, <2>2, PathsAssumption
<1> HIDE DEF c
<1>5. IsPrefix(c, q)
  BY <1>1, <1>2, <1>3, PrefixElements
<1>6. IsPrefix(p, c)
  BY <1>1, <1>2, <1>3, PrefixElements
<1>7. p # c
  BY <1>2, <1>3
<1> QED BY <1>3, <1>4, <1>5, <1>6, <1>7 DEF Children, Below, IsStrictPrefix

LEMMA ChildrenAreBelow ==
  ASSUME NEW p \in Paths, NEW c \in Children[p]
  PROVE  c \in Paths /\ p \in Parents[c]
BY DEF Children, Parents

LEMMA MovedItself ==
  ASSUME NEW p \in Paths, NEW r \in Paths
  PROVE  Moved(p, p, r) = r
<1>1. p \in Seq(Names) /\ r \in Seq(Names)
  BY PathsAreSequences
<1>2. SubSeq(p, Len(p) + 1, Len(p)) = <<>>
  BY <1>1
<1>3. r \o <<>> = r
  BY <1>1
<1> QED BY <1>2, <1>3 DEF Moved

LEMMA MovedBelow ==
  ASSUME NEW p \in Paths, NEW q \in Paths, NEW r \in Paths,
         p \in Parents[q], Moved(q, p, r) \in Paths
  PROVE  r \in Parents[Moved(q, p, r)]
<1> DEFINE m == Moved(q, p, r)
           t == SubSeq(q, Len(p) + 1, Len(q))
<1>1. /\ p \in Seq(Names) /\ q \in Seq(Names) /\ r \in Seq(Names)
      /\ Len(p) \in Nat /\ Len(q) \in Nat /\ Len(r) \in Nat
  BY PathsAreSequences
<1>2. Len(p) < Len(q)
  BY ParentElements
<1>3. t \in Seq(Names) /\ Len(t) = Len(q) - Len(p)
  BY <1>1, <1>2
<1>4. m = r \o t
  BY DEF Moved
<1> HIDE DEF t
<1>5. Len(m) = Len(r) + Len(t) /\ \A i \in 1..Len(r) : r[i] = m[i]
  <2>1. /\ Len(r \o t) = Len(r) + Len(t)
        /\ \A i \in 1..Len(r) : (r \o t)[i] = r[i]
    BY <1>1, <1>3
  <2> QED BY <1>4, <2>1
<1>6. Len(r) < Len(m)
  BY <1>1, <1>2, <1>3, <1>5
<1> QED BY <1>5, <1>6, ParentElements

-----------------------------------------------------------------------------
(* Plans *)

LEMMA ConsFacts ==
  ASSUME NEW c \in Calls, NEW e \in Seq(Calls)
  PROVE  /\ Cons(c, e) \in Seq(Calls)
         /\ Cons(c, e) # <<>>
         /\ Head(Cons(c, e)) = c
         /\ Tail(Cons(c, e)) = e
<1>1. Cons(c, e) = <<c>> \o e
  BY DEF Cons
<1>2. <<c>> \o e \in Seq(Calls) /\ Len(<<c>> \o e) = 1 + Len(e)
  OBVIOUS
<1>3. Head(<<c>> \o e) = c
  OBVIOUS
<1>4. Tail(<<c>> \o e) = e
  OBVIOUS
<1> QED BY <1>1, <1>2, <1>3, <1>4

LEMMA ConcatFacts ==
  ASSUME NEW S, NEW u \in Seq(S), NEW t \in Seq(S)
  PROVE  /\ u \o t \in Seq(S)
         /\ Len(u \o t) = Len(u) + Len(t)
         /\ \A i \in 1..Len(u) : (u \o t)[i] = u[i]
         /\ \A i \in 1..Len(t) : (u \o t)[Len(u) + i] = t[i]
OBVIOUS

LEMMA PairIsConcat ==
  ASSUME NEW S, NEW x \in S, NEW y \in S, NEW t \in Seq(S), Len(t) = 1, t[1] = y
  PROVE  <<x, y>> = <<x>> \o t
<1> DEFINE u == <<x>>
<1>1. u \in Seq(S) /\ Len(u) = 1 /\ u[1] = x
  OBVIOUS
<1> HIDE DEF u
<1>2. /\ u \o t \in Seq(S)
      /\ Len(u \o t) = Len(u) + Len(t)
      /\ \A i \in 1..Len(u) : (u \o t)[i] = u[i]
      /\ \A i \in 1..Len(t) : (u \o t)[Len(u) + i] = t[i]
  BY <1>1, ConcatFacts
<1> DEFINE w == u \o t
<1> HIDE DEF w
<1>3. w \in Seq(S) /\ Len(w) = 2 /\ w[1] = x /\ w[2] = y
  BY <1>1, <1>2 DEF w
<1>4. \A v \in Seq(S) : Len(v) = 2 /\ v[1] = x /\ v[2] = y => v = <<x, y>>
  OBVIOUS
<1> QED BY <1>3, <1>4 DEF u, w

LEMMA ConsAssoc ==
  ASSUME NEW c \in Calls, NEW d \in Seq(Calls), NEW e \in Seq(Calls)
  PROVE  Cons(c, d) \o e = Cons(c, d \o e)
<1>1. <<c>> \in Seq(Calls)
  OBVIOUS
<1>2. \A u \in Seq(Calls) : (u \o d) \o e = u \o (d \o e)
  OBVIOUS
<1> QED BY <1>1, <1>2 DEF Cons

LEMMA PairAssoc ==
  ASSUME NEW c \in Calls, NEW d \in Calls, NEW e \in Seq(Calls)
  PROVE  Cons(c, Cons(d, <<>>)) \o e = Cons(c, Cons(d, e))
<1>1. <<>> \in Seq(Calls) /\ <<>> \o e = e
  OBVIOUS
<1>2. PICK nil \in Seq(Calls) : nil = <<>> /\ nil \o e = e
  BY <1>1
<1>3. Cons(d, nil) \o e = Cons(d, nil \o e)
  BY ConsAssoc
<1>4. PICK v \in Seq(Calls) : v = Cons(d, nil)
  BY ConsFacts
<1>5. Cons(c, v) \o e = Cons(c, v \o e)
  BY ConsAssoc
<1> QED BY <1>2, <1>3, <1>4, <1>5

LEMMA Cells ==
  ASSUME NEW c \in Calls, NEW d \in Calls, NEW a \in Calls, NEW b \in Calls
  PROVE  /\ <<c>> = Cons(c, <<>>)
         /\ <<c, d>> = Cons(c, Cons(d, <<>>))
         /\ <<c, d, a>> = Cons(c, Cons(d, Cons(a, <<>>)))
         /\ <<c, d, a, b>> = Cons(c, Cons(d, Cons(a, Cons(b, <<>>))))
<1>1. ASSUME NEW x \in Calls
      PROVE  <<x>> = Cons(x, <<>>)
  BY DEF Cons
<1>2. ASSUME NEW x \in Calls, NEW y \in Calls
      PROVE  <<x, y>> = Cons(x, Cons(y, <<>>))
  <2>1. Cons(y, <<>>) \in Seq(Calls) /\ Len(Cons(y, <<>>)) = 1 /\ Cons(y, <<>>)[1] = y
    <3>1. <<y>> \in Seq(Calls) /\ Len(<<y>>) = 1 /\ <<y>>[1] = y
      OBVIOUS
    <3> QED BY <1>1, <3>1
  <2>2. <<x, y>> = <<x>> \o Cons(y, <<>>)
    BY <2>1, PairIsConcat
  <2>3. Cons(x, Cons(y, <<>>)) = <<x>> \o Cons(y, <<>>)
    BY DEF Cons
  <2> QED BY <2>2, <2>3
<1>3. ASSUME NEW x \in Calls, NEW y \in Calls, NEW z \in Calls
      PROVE  <<x, y, z>> = Cons(x, Cons(y, Cons(z, <<>>)))
  <2>1. <<x, y, z>> = <<x>> \o <<y, z>>
    OBVIOUS
  <2>2. <<y, z>> = Cons(y, Cons(z, <<>>))
    BY <1>2
  <2> QED BY <2>1, <2>2 DEF Cons
<1>4. <<c, d, a, b>> = Cons(c, Cons(d, Cons(a, Cons(b, <<>>))))
  <2>1. <<c, d, a, b>> = <<c>> \o <<d, a, b>>
    OBVIOUS
  <2>2. <<d, a, b>> = Cons(d, Cons(a, Cons(b, <<>>)))
    BY <1>3
  <2> QED BY <2>1, <2>2 DEF Cons
<1>5. <<c>> = Cons(c, <<>>)
  BY <1>1
<1>6. <<c, d>> = Cons(c, Cons(d, <<>>))
  BY <1>2
<1>7. <<c, d, a>> = Cons(c, Cons(d, Cons(a, <<>>)))
  BY <1>3
<1> QED BY <1>4, <1>5, <1>6, <1>7

LEMMA ConsConcat ==
  ASSUME NEW c \in Calls, NEW d \in Calls, NEW e \in Seq(Calls)
  PROVE  /\ <<>> \o e = e
         /\ e \o <<>> = e
         /\ <<c>> \o e = Cons(c, e)
         /\ <<c, d>> \o e = Cons(c, Cons(d, e))
<1>1. <<>> \o e = e /\ e \o <<>> = e
  OBVIOUS
<1>2. <<c, d>> \o e = Cons(c, Cons(d, e))
  <2>1. <<c, d>> = Cons(c, Cons(d, <<>>))
    BY Cells
  <2>2. Cons(c, Cons(d, <<>>)) \o e = Cons(c, Cons(d, e))
    BY PairAssoc
  <2> QED BY <2>1, <2>2, Zenon
<1>3. <<c>> \o e = Cons(c, e)
  BY DEF Cons
<1> QED BY <1>1, <1>2, <1>3

LEMMA CallsFacts ==
  ASSUME NEW p \in Paths
  PROVE  /\ MakeParents(p) \in Calls
         /\ OpenOrCreate(p) \in Calls
         /\ RemoveEntry(p) \in Calls
         /\ CreateWhiteout(p) \in Calls
         /\ RemoveWhiteout(p) \in Calls
         /\ \A v \in Node : Put(p, v) \in Calls
         /\ \A to \in Paths : Move(p, to) \in Calls
         /\ \A h \in Handles : Bind(h, p) \in Calls
BY DEF Calls, MakeParents, OpenOrCreate, RemoveEntry, CreateWhiteout, RemoveWhiteout,
       Put, Move, Bind

LEMMA OneElementFlattened ==
  ASSUME NEW S, NEW s \in Seq(Seq(S)), Len(s) = 1
  PROVE  FlattenSeq(s) = s[1]
BY DEF FlattenSeq

LEMMA CopyOfFile ==
  ASSUME lower \in [Paths -> Node], WellFormed(lower),
         NEW from \in Paths, NEW to \in Paths, IsFile(lower[from])
  PROVE  CopyTree(from, to) = CopyNode(lower[from], to)
<1> DEFINE tree == {q \in Below[from] : lower[q] # "none"}
           Copied(i, nodes) == CopyNode(lower[nodes[i]], Moved(nodes[i], from, to))
           Ordered(s) == \A i, j \in DOMAIN s :
                   i < j => s[i] # s[j] /\ Len(s[i]) <= Len(s[j])
           nodes == CHOOSE s \in [1..Cardinality(tree) -> tree] : Ordered(s)
<1>1. tree = {from}
  BY BelowIsParents, ParentsArePaths DEF WellFormed, IsFile
<1>2. Cardinality(tree) = 1
  BY <1>1, FS_Singleton
<1>3. nodes = <<from>>
  <2>1. <<from>> \in [1..1 -> {from}] /\ Ordered(<<from>>)
    OBVIOUS
  <2>2. \A f \in [1..1 -> {from}] : f = <<from>>
    OBVIOUS
  <2> QED BY <1>1, <1>2, <2>1, <2>2
<1>4. CopyTree(from, to) = FlattenSeq([i \in DOMAIN nodes |-> Copied(i, nodes)])
  BY DEF CopyTree
<1>5. [i \in DOMAIN nodes |-> Copied(i, nodes)] = <<CopyNode(lower[from], to)>>
  <2>0. DOMAIN <<from>> = {1} /\ <<from>>[1] = from
    OBVIOUS
  <2>1. DOMAIN nodes = {1} /\ nodes[1] = from
    <3> HIDE DEF nodes
    <3> QED BY <1>3, <2>0
  <2> HIDE DEF nodes
  <2>2. Copied(1, nodes) = CopyNode(lower[from], to)
    BY <2>1, MovedItself
  <2> HIDE DEF Copied
  <2>3. [i \in DOMAIN nodes |-> Copied(i, nodes)] = [i \in {1} |-> CopyNode(lower[from], to)]
    BY <2>1, <2>2
  <2> QED BY <2>3
<1>6. CopyNode(lower[from], to) \in Seq(Calls)
  <2>1. lower[from] \in Node
    BY DEF Node
  <2>2. Put(to, "torn") \in Calls /\ Put(to, lower[from]) \in Calls
    BY <2>1, CallsFacts DEF Node
  <2> QED BY <2>2 DEF CopyNode
<1>7. FlattenSeq(<<CopyNode(lower[from], to)>>) = CopyNode(lower[from], to)
  <2> DEFINE s == <<CopyNode(lower[from], to)>>
  <2>1. s \in Seq(Seq(Calls)) /\ Len(s) = 1 /\ s[1] = CopyNode(lower[from], to)
    BY <1>6
  <2> HIDE DEF s
  <2>2. FlattenSeq(s) = s[1]
    BY <2>1, OneElementFlattened
  <2> QED BY <2>1, <2>2 DEF s
<1> QED BY <1>4, <1>5, <1>7

LEMMA NodeFacts ==
  /\ {"none", "dir", "empty", "torn", Original} \cup Contents = Node
  /\ Original \notin {"none", "dir", "empty", "torn"}
  /\ \A c \in Contents : c \notin {"none", "dir", "empty", "torn"} /\ IsFile(c)
  /\ IsFile("empty") /\ IsFile("torn") /\ IsFile(Original)
  /\ ~IsFile("none") /\ ~IsFile("dir")
BY ContentsAssumption DEF Node, IsFile
-----------------------------------------------------------------------------
(* The inductive invariant *)

(* What the request in progress names. *)
Named == {req.paths[i] : i \in DOMAIN req.paths}

Rooted(p) == \A q \in Parents[p] : Resolve(q) = "dir"
Made(p) == \A q \in Parents[p] : upper[q] = "dir"
Hidden(p) == Whiteouted(p) /\ upper[p] # "none"

(* The pieces plans are made of. *)
Making(p, e) == Cons(MakeParents(p), e)
Filling(p, v, e) == Cons(Put(p, v), e)
Copying(p, v, e) == Filling(p, "torn", Filling(p, v, e))
Creating(p, e) == Cons(OpenOrCreate(p), e)
Removing(p, e) == Cons(RemoveEntry(p), e)
Moving(p, to, e) == Cons(Move(p, to), e)
Revealing(p, e) == Cons(RemoveWhiteout(p), e)
Hiding(p) == Cons(UpdateWhiteout(p), <<>>)
Binding(h, p) == Cons(Bind(h, p), <<>>)

Bindings(p) == {<<>>} \cup {Binding(h, p) : h \in Handles}
Endings(p) == Bindings(p) \cup {Filling(p, "empty", b) : b \in Bindings(p)}

(* open and setattr: a copy is brought up, then truncated and opened. *)
EnsureStage(p, rest) ==
  /\ req.op \in {"setattr", "open"} /\ req.paths = <<p>>
  /\ seen[p] # "none" /\ ~Whiteouted(p)
  /\ \E e \in Endings(p) :
       /\ e # <<>> => IsFile(seen[p])
       /\ \/ /\ rest = Copying(p, seen[p], Revealing(p, e))
             /\ IsFile(seen[p]) /\ upper[p] = "none"
          \/ /\ rest = Filling(p, seen[p], Revealing(p, e))
             /\ upper[p] = IF IsFile(seen[p]) THEN "torn" ELSE "none"
          \/ /\ rest = Revealing(p, e)
             /\ upper[p] = seen[p]
          \/ /\ rest = e /\ e # <<>>
             /\ upper[p] \in {seen[p], "empty"}

CreateStage(p, rest) ==
  /\ req.op = "create" /\ req.paths = <<p>>
  /\ seen[p] = "none"
  /\ \E h \in Handles :
       \/ /\ rest = Creating(p, Revealing(p, Binding(h, p)))
          /\ p \notin dirty => upper[p] = "none"
       \/ /\ \/ rest = Revealing(p, Binding(h, p))
             \/ rest = Binding(h, p) /\ ~Whiteouted(p)
          /\ IsFile(upper[p])
          /\ p \notin dirty => upper[p] = "empty"

MkdirStage(p, rest) ==
  /\ req.op = "mkdir" /\ req.paths = <<p>>
  /\ seen[p] = "none"
  /\ \/ rest = Filling(p, "dir", Revealing(p, <<>>)) /\ upper[p] = "none"
     \/ rest = Revealing(p, <<>>) /\ upper[p] = "dir"

(* A whole directory is removed only when nothing is seen in it. *)
RemoveStage(p, rest) ==
  /\ req.op \in {"unlink", "rmdir"} /\ req.paths = <<p>>
  /\ seen[p] # "none" /\ ~Whiteouted(p)
  /\ IsFile(seen[p]) \/ \A q \in Children[p] \ dirty : seen[q] = "none"
  /\ \/ rest = Removing(p, Hiding(p)) /\ upper[p] = seen[p]
     \/ rest = Hiding(p) /\ upper[p] = "none"

(* The new path shows what was there until it shows the file that moves. *)
RenameStage(from, to, rest) ==
  /\ req.op = "rename" /\ req.paths = <<from, to>>
  /\ to \notin Below[from] /\ from \notin Below[to]
  /\ IsFile(seen[from]) /\ ~Whiteouted(from)
  /\ seen[to] = "none" \/ IsFile(seen[to])
  /\ \/ /\ req.stored
        /\ rest = Moving(from, to, Revealing(to, Hiding(from)))
        /\ upper[from] = seen[from] /\ Resolve(to) = seen[to]
        /\ to \notin dirty => upper[to] # "dir"
     \/ /\ ~req.stored /\ upper[from] = "none" /\ lower[from] = seen[from]
        /\ Whiteouted(to) => seen[to] = "none"
        /\ \/ /\ rest = Copying(to, seen[from], Revealing(to, Hiding(from)))
              /\ to \notin dirty => upper[to] # "dir"
           \/ /\ rest = Filling(to, seen[from], Revealing(to, Hiding(from)))
              /\ upper[to] = "torn"
     \/ /\ upper[from] = "none" /\ upper[to] = seen[from]
        /\ \/ /\ rest = Revealing(to, Hiding(from))
              /\ Whiteouted(to) => seen[to] = "none"
           \/ rest = Hiding(from) /\ ~Whiteouted(to)

(* The request in progress stores something at p. *)
StoreStage(p, rest) ==
  \/ EnsureStage(p, rest) \/ CreateStage(p, rest) \/ MkdirStage(p, rest)
  \/ \E from \in Paths : RenameStage(from, p, rest)

Progress ==
  \/ plan = <<>> /\ req = NoRequest
  \/ plan # <<>> /\ \E p \in Paths :
       \/ RemoveStage(p, plan)
       \/ StoreStage(p, plan) /\ Made(p)
       \/ plan = Making(p, Tail(plan)) /\ StoreStage(p, Tail(plan))

(* The three trees and the handles. *)
TreesOK ==
  /\ lower \in [Paths -> Node] /\ WellFormed(lower)
  /\ upper \in [Paths -> Node] /\ WellFormed(upper)
  /\ white \in [Paths -> {"none", "file", "dir", "marked"}]
  /\ \A p \in Paths : white[p] # "none" =>
       \A q \in Parents[p] : white[q] \in {"dir", "marked"}
  /\ open \in [Handles -> Paths \cup {Closed, Gone}]
  /\ \A h \in Handles : open[h] \in Paths => IsFile(upper[open[h]])

(* What earlier requests have left, and what is seen of it. *)
HistoryOK ==
  /\ seen \in [Paths -> Node] /\ WellFormed(seen)
  /\ dirty \subseteq Paths /\ \A p \in dirty : Below[p] \subseteq dirty
  /\ cuts \in 0..MaxCuts
  /\ cuts = 0 => dirty = {}

(* Away from the paths a request names, and from those that a request cut    *)
(* off named, what is seen is what the trees show.                           *)
Framed ==
  /\ \A q \in Paths \ (dirty \cup Named) : Resolve(q) = seen[q] /\ ~Hidden(q)
  /\ \A p \in Named : Rooted(p) /\ \A q \in Parents[p] : seen[q] = "dir"

IInv ==
  /\ TreesOK
  /\ HistoryOK
  /\ plan \in Seq(Calls)
  /\ Idle => seen = View
  /\ Framed
  /\ Progress

-----------------------------------------------------------------------------
(* The plans *)

LEMMA PlanFacts ==
  ASSUME NEW p \in Paths, NEW e \in Seq(Calls)
  PROVE  /\ Making(p, e) \in Seq(Calls) /\ Making(p, e) # <<>>
         /\ Head(Making(p, e)) = MakeParents(p) /\ Tail(Making(p, e)) = e
         /\ \A v \in Node :
              /\ Filling(p, v, e) \in Seq(Calls) /\ Filling(p, v, e) # <<>>
              /\ Head(Filling(p, v, e)) = Put(p, v) /\ Tail(Filling(p, v, e)) = e
         /\ Creating(p, e) \in Seq(Calls) /\ Creating(p, e) # <<>>
         /\ Head(Creating(p, e)) = OpenOrCreate(p) /\ Tail(Creating(p, e)) = e
         /\ Removing(p, e) \in Seq(Calls) /\ Removing(p, e) # <<>>
         /\ Head(Removing(p, e)) = RemoveEntry(p) /\ Tail(Removing(p, e)) = e
         /\ \A to \in Paths :
              /\ Moving(p, to, e) \in Seq(Calls) /\ Moving(p, to, e) # <<>>
              /\ Head(Moving(p, to, e)) = Move(p, to) /\ Tail(Moving(p, to, e)) = e
         /\ Revealing(p, e) \in Seq(Calls) /\ Revealing(p, e) # <<>>
         /\ Head(Revealing(p, e)) = RemoveWhiteout(p) /\ Tail(Revealing(p, e)) = e
<1>1. /\ Making(p, e) \in Seq(Calls) /\ Making(p, e) # <<>>
      /\ Head(Making(p, e)) = MakeParents(p) /\ Tail(Making(p, e)) = e
  BY CallsFacts, ConsFacts DEF Making
<1>2. ASSUME NEW v \in Node
      PROVE  /\ Filling(p, v, e) \in Seq(Calls) /\ Filling(p, v, e) # <<>>
             /\ Head(Filling(p, v, e)) = Put(p, v) /\ Tail(Filling(p, v, e)) = e
  BY CallsFacts, ConsFacts DEF Filling
<1>3. /\ Creating(p, e) \in Seq(Calls) /\ Creating(p, e) # <<>>
      /\ Head(Creating(p, e)) = OpenOrCreate(p) /\ Tail(Creating(p, e)) = e
  BY CallsFacts, ConsFacts DEF Creating
<1>4. /\ Removing(p, e) \in Seq(Calls) /\ Removing(p, e) # <<>>
      /\ Head(Removing(p, e)) = RemoveEntry(p) /\ Tail(Removing(p, e)) = e
  BY CallsFacts, ConsFacts DEF Removing
<1>5. ASSUME NEW to \in Paths
      PROVE  /\ Moving(p, to, e) \in Seq(Calls) /\ Moving(p, to, e) # <<>>
             /\ Head(Moving(p, to, e)) = Move(p, to) /\ Tail(Moving(p, to, e)) = e
  BY CallsFacts, ConsFacts DEF Moving
<1>6. /\ Revealing(p, e) \in Seq(Calls) /\ Revealing(p, e) # <<>>
      /\ Head(Revealing(p, e)) = RemoveWhiteout(p) /\ Tail(Revealing(p, e)) = e
  BY CallsFacts, ConsFacts DEF Revealing
<1> QED BY <1>1, <1>2, <1>3, <1>4, <1>5, <1>6

LEMMA FillingFacts ==
  ASSUME NEW p \in Paths, NEW v \in Node, NEW e \in Seq(Calls)
  PROVE  /\ Filling(p, v, e) \in Seq(Calls) /\ Filling(p, v, e) # <<>>
         /\ Head(Filling(p, v, e)) = Put(p, v) /\ Tail(Filling(p, v, e)) = e
BY PlanFacts

LEMMA CopyingFacts ==
  ASSUME NEW p \in Paths, NEW v \in Node, NEW e \in Seq(Calls)
  PROVE  /\ Copying(p, v, e) \in Seq(Calls) /\ Copying(p, v, e) # <<>>
         /\ Head(Copying(p, v, e)) = Put(p, "torn")
         /\ Tail(Copying(p, v, e)) = Filling(p, v, e)
<1>1. "torn" \in Node
  BY DEF Node
<1> QED BY <1>1, FillingFacts DEF Copying

LEMMA EndFacts ==
  ASSUME NEW p \in Paths
  PROVE  /\ <<>> \in Seq(Calls)
         /\ Hiding(p) \in Seq(Calls) /\ Hiding(p) # <<>>
         /\ Head(Hiding(p)) = UpdateWhiteout(p) /\ Tail(Hiding(p)) = <<>>
         /\ \A h \in Handles :
              /\ Binding(h, p) \in Seq(Calls) /\ Binding(h, p) # <<>>
              /\ Head(Binding(h, p)) = Bind(h, p) /\ Tail(Binding(h, p)) = <<>>
<1>1. <<>> \in Seq(Calls)
  OBVIOUS
<1>2. UpdateWhiteout(p) \in Calls
  BY CallsFacts DEF UpdateWhiteout
<1>3. /\ Hiding(p) \in Seq(Calls) /\ Hiding(p) # <<>>
      /\ Head(Hiding(p)) = UpdateWhiteout(p) /\ Tail(Hiding(p)) = <<>>
  BY <1>1, <1>2, ConsFacts DEF Hiding
<1>4. ASSUME NEW h \in Handles
      PROVE  /\ Binding(h, p) \in Seq(Calls) /\ Binding(h, p) # <<>>
             /\ Head(Binding(h, p)) = Bind(h, p) /\ Tail(Binding(h, p)) = <<>>
  BY <1>1, CallsFacts, ConsFacts DEF Binding
<1> QED BY <1>1, <1>3, <1>4

LEMMA EndingsArePlans ==
  ASSUME NEW p \in Paths
  PROVE  Endings(p) \subseteq Seq(Calls)
<1>1. Bindings(p) \subseteq Seq(Calls)
  BY EndFacts DEF Bindings
<1> QED BY <1>1, PlanFacts DEF Endings, Node

-----------------------------------------------------------------------------
(* What is seen *)

LEMMA ViewFacts ==
  ASSUME TreesOK
  PROVE  /\ \A p \in Paths : Resolve(p) \in Node
         /\ View \in [Paths -> Node]
         /\ WellFormed(View)
         /\ \A p \in Paths : Rooted(p) => View[p] = Resolve(p)
         /\ \A p \in Paths : View[p] # "none" => Rooted(p) /\ View[p] = Resolve(p)
<1>1. \A p \in Paths : Resolve(p) \in Node
  BY DEF TreesOK, Resolve, Node
<1>2. View \in [Paths -> Node]
  BY <1>1 DEF View, Node
<1>3. \A p \in Paths : View[p] = IF Rooted(p) THEN Resolve(p) ELSE "none"
  BY DEF View, Rooted
<1>4. ASSUME NEW p \in Paths, View[p] # "none", NEW q \in Parents[p]
      PROVE  View[q] = "dir"
  <2>1. q \in Paths /\ Rooted(p)
    BY <1>3, <1>4, ParentsArePaths
  <2>2. Rooted(q) /\ Resolve(q) = "dir"
    BY <2>1, <1>4, ParentsOrder DEF Rooted
  <2> QED BY <2>1, <2>2, <1>3
<1>5. WellFormed(View)
  BY <1>4 DEF WellFormed
<1> QED BY <1>1, <1>2, <1>3, <1>5

-----------------------------------------------------------------------------
(* What a storage call does to the trees *)

Kept(q) == upper'[q] = upper[q] /\ (Whiteouted(q)' <=> Whiteouted(q))

LEMMA ResolveKept ==
  ASSUME NEW q, Kept(q), lower' = lower
  PROVE  (Resolve(q)' = Resolve(q)) /\ (Hidden(q)' <=> Hidden(q))
BY DEF Kept, Resolve, Hidden, Whiteouted

(* A file or directory is stored where its parents are. *)
LEMMA Stored ==
  ASSUME TreesOK, NEW p \in Paths, NEW v \in Node \ {"none"}, Made(p),
         upper[p] # "none" => (upper[p] = "dir" <=> v = "dir"),
         upper' = [upper EXCEPT ![p] = v],
         UNCHANGED <<lower, white, open>>
  PROVE  /\ TreesOK'
         /\ upper'[p] = v
         /\ Whiteouted(p)' <=> Whiteouted(p)
         /\ \A q \in Paths \ {p} : Kept(q)
<1> USE DEF TreesOK
<1>1. upper' \in [Paths -> Node] /\ upper'[p] = v /\ \A q \in Paths \ {p} : upper'[q] = upper[q]
  OBVIOUS
<1>2. WellFormed(upper')
  <2> SUFFICES ASSUME NEW q \in Paths, upper'[q] # "none", NEW r \in Parents[q]
               PROVE  upper'[r] = "dir"
    BY DEF WellFormed
  <2>1. r \in Paths
    BY ParentsArePaths
  <2>2. upper[r] = "dir"
    BY <1>1 DEF Made, WellFormed
  <2> QED BY <1>1, <2>1, <2>2
<1>3. ASSUME NEW h \in Handles, open'[h] \in Paths
      PROVE  IsFile(upper'[open'[h]])
  BY <1>1, <1>3 DEF IsFile
<1>4. \A q \in Paths : Whiteouted(q)' <=> Whiteouted(q)
  BY DEF Whiteouted
<1>5. WellFormed(lower')
  BY DEF WellFormed
<1> QED BY <1>1, <1>2, <1>3, <1>4, <1>5 DEF Kept

LEMMA ParentsMade ==
  ASSUME TreesOK, NEW p \in Paths, Rooted(p), DoMakeParents(p), lower' = lower
  PROVE  /\ TreesOK'
         /\ Made(p)'
         /\ \A q \in Paths \ Parents[p] : Kept(q)
         /\ \A q \in Paths : (Resolve(q)' = Resolve(q)) /\ (Hidden(q)' => Hidden(q))
<1> USE DEF TreesOK
<1>1. upper' = [q \in Paths |-> IF q \in Parents[p] THEN "dir" ELSE upper[q]]
  BY DEF DoMakeParents
<1>2. white' = white /\ open' = open
  BY DEF DoMakeParents
<1>3. upper' \in [Paths -> Node]
  BY <1>1 DEF Node
<1>4. \A q \in Paths \ Parents[p] : upper'[q] = upper[q]
  BY <1>1
<1>5. \A q \in Parents[p] : /\ q \in Paths /\ upper'[q] = "dir" /\ upper[q] \in {"none", "dir"}
                            /\ ~Whiteouted(q) /\ Resolve(q) = "dir"
  BY <1>1, ParentsArePaths DEF Rooted, Resolve
<1>6. WellFormed(upper')
  <2> SUFFICES ASSUME NEW q \in Paths, upper'[q] # "none", NEW r \in Parents[q]
               PROVE  upper'[r] = "dir"
    BY DEF WellFormed
  <2>1. r \in Paths
    BY ParentsArePaths
  <2>2. CASE q \in Parents[p]
    BY <1>5, <2>2, ParentsOrder
  <2>3. CASE q \notin Parents[p]
    <3>1. upper[r] = "dir"
      BY <1>4, <2>3 DEF WellFormed
    <3> QED BY <1>1, <2>1, <3>1
  <2> QED BY <2>2, <2>3
<1>7. ASSUME NEW h \in Handles, open'[h] \in Paths
      PROVE  IsFile(upper'[open'[h]])
  <2>1. IsFile(upper[open[h]])
    BY <1>2, <1>7
  <2>2. open[h] \notin Parents[p]
    BY <1>5, <2>1 DEF IsFile
  <2> QED BY <1>2, <1>4, <1>7, <2>1, <2>2
<1>8. \A q \in Paths : Whiteouted(q)' <=> Whiteouted(q)
  BY <1>2 DEF Whiteouted
<1>9. WellFormed(lower')
  BY DEF WellFormed
<1>10. TreesOK'
  BY <1>2, <1>3, <1>6, <1>7, <1>9
<1>11. \A q \in Paths \ Parents[p] : Kept(q)
  BY <1>4, <1>8 DEF Kept
<1>12. ASSUME NEW q \in Paths
       PROVE  (Resolve(q)' = Resolve(q)) /\ (Hidden(q)' => Hidden(q))
  <2>1. CASE q \in Parents[p]
    BY <1>5, <1>8, <2>1 DEF Resolve, Hidden
  <2>2. CASE q \notin Parents[p]
    BY <1>11, <2>2, ResolveKept
  <2> QED BY <2>1, <2>2
<1>13. Made(p)'
  BY <1>5 DEF Made
<1> QED BY <1>10, <1>11, <1>12, <1>13

(* What is removed has nothing below it. *)
LEMMA Removed ==
  ASSUME TreesOK, NEW p \in Paths, \A q \in Children[p] : upper[q] = "none",
         DoRemove(p), lower' = lower
  PROVE  /\ TreesOK'
         /\ upper'[p] = "none"
         /\ Whiteouted(p)' <=> Whiteouted(p)
         /\ \A q \in Paths \ {p} : Kept(q)
<1> USE DEF TreesOK
<1>1. /\ upper' = [upper EXCEPT ![p] = "none"]
      /\ open' = [h \in Handles |-> IF open[h] = p THEN Gone ELSE open[h]]
      /\ white' = white
  BY DEF DoRemove
<1>2. /\ upper' \in [Paths -> Node] /\ upper'[p] = "none"
      /\ \A q \in Paths \ {p} : upper'[q] = upper[q]
  BY <1>1 DEF Node
<1>3. \A q \in Paths : p \in Parents[q] => upper[q] = "none"
  <2> SUFFICES ASSUME NEW q \in Paths, p \in Parents[q], upper[q] # "none"
               PROVE  FALSE
    OBVIOUS
  <2>1. PICK c \in Children[p] : q \in Below[c]
    BY ChildOnTheWay
  <2>2. c \in Paths
    BY ChildrenAreBelow
  <2>3. upper[c] # "none"
    BY <2>1, <2>2, BelowIsParents DEF WellFormed
  <2> QED BY <2>3
<1>4. WellFormed(upper')
  <2> SUFFICES ASSUME NEW q \in Paths, upper'[q] # "none", NEW r \in Parents[q]
               PROVE  upper'[r] = "dir"
    BY DEF WellFormed
  <2>1. r \in Paths
    BY ParentsArePaths
  <2>2. upper[q] # "none" /\ r # p
    BY <1>2, <1>3
  <2> QED BY <1>2, <2>1, <2>2 DEF WellFormed
<1>5. ASSUME NEW h \in Handles
      PROVE  /\ open'[h] \in Paths \cup {Closed, Gone}
             /\ open'[h] \in Paths => IsFile(upper'[open'[h]])
  BY <1>1, <1>2, HandlesAssumption
<1>6. \A q \in Paths : Whiteouted(q)' <=> Whiteouted(q)
  BY <1>1 DEF Whiteouted
<1>7. WellFormed(lower')
  BY DEF WellFormed
<1>8. open' \in [Handles -> Paths \cup {Closed, Gone}]
  BY <1>1, <1>5
<1> QED BY <1>1, <1>2, <1>4, <1>5, <1>6, <1>7, <1>8 DEF Kept

(* A file that moves takes its handle along and replaces a file. *)
LEMMA FileMoved ==
  ASSUME TreesOK, NEW from \in Paths, NEW to \in Paths,
         to \notin Below[from], from \notin Below[to],
         IsFile(upper[from]), upper[to] # "dir", Made(to),
         DoMove(from, to), lower' = lower
  PROVE  /\ TreesOK'
         /\ upper'[from] = "none" /\ upper'[to] = upper[from]
         /\ \A q \in {from, to} : Whiteouted(q)' <=> Whiteouted(q)
         /\ \A q \in Paths \ {from, to} : Kept(q)
<1> USE DEF TreesOK
<1>1. white' = white
  BY DEF DoMove
<1>2. \A q \in Paths : (from \in Parents[q] \/ to \in Parents[q]) => upper[q] = "none"
  BY DEF WellFormed, IsFile
<1>3. from # to /\ from \in Below[from] /\ to \in Below[to]
  BY BelowIsParents
<1>4. upper'[from] = "none"
  BY <1>3 DEF DoMove
<1>5. upper'[to] = upper[from]
  BY <1>3, MovedItself DEF DoMove
<1>6. ASSUME NEW q \in Paths \ {from, to}
      PROVE  upper'[q] = upper[q]
  <2>1. CASE q \in Below[from]
    <3>1. upper[q] = "none"
      BY <1>2, <1>6, <2>1, BelowIsParents
    <3>2. q \notin Below[to]
      BY <2>1, BelowApart
    <3>3. upper'[q] = "none"
      BY <2>1, <3>2 DEF DoMove
    <3> QED BY <3>1, <3>3
  <2>2. CASE q \notin Below[from] /\ q \in Below[to]
    <3>1. to \in Parents[q] /\ upper[q] = "none"
      BY <1>2, <1>6, <2>2, BelowIsParents
    <3>2. Moved(q, to, from) \in Paths => upper[Moved(q, to, from)] = "none"
      BY <1>2, <3>1, MovedBelow
    <3>3. upper'[q] = IF Moved(q, to, from) \in Paths THEN upper[Moved(q, to, from)] ELSE "none"
      BY <2>2 DEF DoMove
    <3> QED BY <3>1, <3>2, <3>3
  <2>3. CASE q \notin Below[from] /\ q \notin Below[to]
    BY <2>3 DEF DoMove
  <2> QED BY <2>1, <2>2, <2>3
<1>7. upper' \in [Paths -> Node]
  <2>1. upper' = [q \in Paths |-> upper'[q]]
    BY DEF DoMove
  <2>2. \A q \in Paths : upper'[q] \in Node
    BY <1>4, <1>5, <1>6 DEF Node
  <2> QED BY <2>1, <2>2
<1>8. WellFormed(upper')
  <2> SUFFICES ASSUME NEW q \in Paths, upper'[q] # "none", NEW r \in Parents[q]
               PROVE  upper'[r] = "dir"
    BY DEF WellFormed
  <2>1. r \in Paths
    BY ParentsArePaths
  <2>2. q # from
    BY <1>4
  <2>3. upper[r] = "dir" /\ r # from /\ r # to
    <3>1. CASE q = to
      BY <3>1, ParentsOrder, BelowIsParents DEF Made
    <3>2. CASE q # to
      BY <1>2, <1>6, <2>2, <3>2 DEF WellFormed
    <3> QED BY <3>1, <3>2
  <2> QED BY <1>6, <2>1, <2>3
<1>9. ASSUME NEW h \in Handles
      PROVE  /\ open'[h] \in Paths \cup {Closed, Gone}
             /\ open'[h] \in Paths => IsFile(upper'[open'[h]])
  <2>1. CASE open[h] \in Below[from]
    <3>1. open[h] \in Paths /\ IsFile(upper[open[h]])
      BY <2>1, ParentsArePaths
    <3>2. open[h] = from
      BY <1>2, <2>1, <3>1, BelowIsParents DEF IsFile
    <3>3. open'[h] = to
      BY <2>1, <3>2, MovedItself DEF DoMove
    <3> QED BY <1>5, <3>3
  <2>2. CASE open[h] \notin Below[from] /\ open[h] = to
    BY <2>2, HandlesAssumption DEF DoMove
  <2>3. CASE open[h] \notin Below[from] /\ open[h] # to
    <3>1. open'[h] = open[h]
      BY <2>3 DEF DoMove
    <3>2. open[h] # from
      BY <1>3, <2>3
    <3> QED BY <1>6, <2>3, <3>1, <3>2
  <2> QED BY <2>1, <2>2, <2>3
<1>10. open' \in [Handles -> Paths \cup {Closed, Gone}]
  <2>1. open' = [h \in Handles |-> open'[h]]
    BY DEF DoMove
  <2> QED BY <1>9, <2>1
<1>11. \A q \in Paths : Whiteouted(q)' <=> Whiteouted(q)
  BY <1>1 DEF Whiteouted
<1>12. WellFormed(lower')
  BY DEF WellFormed
<1> QED BY <1>1, <1>4, <1>5, <1>6, <1>7, <1>8, <1>9, <1>10, <1>11, <1>12 DEF Kept

(* A whiteout of a path hides nothing else. *)
LEMMA WhiteoutCreated ==
  ASSUME TreesOK, NEW p \in Paths, \A q \in Parents[p] : white[q] # "file",
         DoCreateWhiteout(p), lower' = lower
  PROVE  /\ TreesOK'
         /\ upper'[p] = upper[p] /\ Whiteouted(p)'
         /\ \A q \in Paths \ {p} : Kept(q)
<1> USE DEF TreesOK
<1>1. upper' = upper /\ open' = open
  BY DEF DoCreateWhiteout
<1>2. white'[p] = IF white[p] \in {"dir", "marked"} THEN "marked" ELSE "file"
  BY ParentsOrder DEF DoCreateWhiteout
<1>3. \A q \in Parents[p] : /\ q \in Paths /\ q # p
                            /\ white'[q] = IF white[q] = "none" THEN "dir" ELSE white[q]
  BY ParentsOrder, ParentsArePaths DEF DoCreateWhiteout
<1>4. \A q \in Paths : q # p /\ q \notin Parents[p] => white'[q] = white[q]
  BY DEF DoCreateWhiteout
<1>5. white' \in [Paths -> {"none", "file", "dir", "marked"}]
  <2>1. white' = [q \in Paths |-> white'[q]]
    BY DEF DoCreateWhiteout
  <2>2. \A q \in Paths : white'[q] \in {"none", "file", "dir", "marked"}
    BY <1>2, <1>3, <1>4
  <2> QED BY <2>1, <2>2
<1>6. ASSUME NEW q \in Paths, white'[q] # "none", NEW r \in Parents[q]
      PROVE  white'[r] \in {"dir", "marked"}
  <2>1. r \in Paths /\ r # q
    BY ParentsArePaths, ParentsOrder
  <2>2. CASE q = p \/ q \in Parents[p]
    <3>1. r \in Parents[p]
      BY <1>6, <2>2, ParentsOrder
    <3>2. white[r] \in {"none", "dir", "marked"}
      BY <2>1, <3>1
    <3> QED BY <1>3, <3>1, <3>2
  <2>3. CASE q # p /\ q \notin Parents[p]
    <3>1. white[r] \in {"dir", "marked"}
      BY <1>4, <1>6, <2>3
    <3> QED BY <1>2, <1>3, <1>4, <2>1, <3>1
  <2> QED BY <2>2, <2>3
<1>7. \A q \in Paths \ {p} : Whiteouted(q)' <=> Whiteouted(q)
  BY <1>3, <1>4 DEF Whiteouted
<1>8. Whiteouted(p)'
  BY <1>2 DEF Whiteouted
<1>9. WellFormed(lower') /\ WellFormed(upper')
  BY <1>1 DEF WellFormed
<1>10. TreesOK'
  BY <1>1, <1>5, <1>6, <1>9
<1> QED BY <1>1, <1>7, <1>8, <1>10 DEF Kept

LEMMA WhiteoutRemoved ==
  ASSUME TreesOK, NEW p \in Paths, DoRemoveWhiteout(p), lower' = lower
  PROVE  /\ TreesOK'
         /\ upper'[p] = upper[p] /\ ~Whiteouted(p)'
         /\ \A q \in Paths \ {p} : Kept(q)
<1> USE DEF TreesOK
<1>1. upper' = upper /\ open' = open
  BY DEF DoRemoveWhiteout
<1>2. white'[p] = CASE white[p] = "file" -> "none"
                    [] white[p] = "marked" -> "dir"
                    [] OTHER -> white[p]
  BY DEF DoRemoveWhiteout
<1>3. \A q \in Paths \ {p} : white'[q] = white[q]
  BY DEF DoRemoveWhiteout
<1>4. white'[p] \in {"none", "dir"} /\ (white[p] \in {"dir", "marked"} => white'[p] = "dir")
  BY <1>2
<1>5. white' \in [Paths -> {"none", "file", "dir", "marked"}]
  <2>1. white' = [q \in Paths |-> white'[q]]
    BY DEF DoRemoveWhiteout
  <2> QED BY <1>3, <1>4, <2>1
<1>6. ASSUME NEW q \in Paths, white'[q] # "none", NEW r \in Parents[q]
      PROVE  white'[r] \in {"dir", "marked"}
  <2>1. r \in Paths
    BY ParentsArePaths
  <2>2. white[q] # "none"
    BY <1>2, <1>3, <1>6
  <2>3. white[r] \in {"dir", "marked"}
    BY <2>2
  <2> QED BY <1>3, <1>4, <2>1, <2>3
<1>7. \A q \in Paths \ {p} : Whiteouted(q)' <=> Whiteouted(q)
  BY <1>3 DEF Whiteouted
<1>8. ~Whiteouted(p)'
  BY <1>4 DEF Whiteouted
<1>9. WellFormed(lower') /\ WellFormed(upper')
  BY <1>1 DEF WellFormed
<1>10. TreesOK'
  BY <1>1, <1>5, <1>6, <1>9
<1> QED BY <1>1, <1>7, <1>8, <1>10 DEF Kept

LEMMA Bound ==
  ASSUME TreesOK, NEW p \in Paths, NEW h \in Handles, IsFile(upper[p]),
         DoBind(h, p), lower' = lower
  PROVE  TreesOK' /\ \A q \in Paths : Kept(q)
<1> USE DEF TreesOK
<1>1. upper' = upper /\ white' = white /\ open' = [open EXCEPT ![h] = p]
  BY DEF DoBind
<1>2. WellFormed(lower') /\ WellFormed(upper')
  BY <1>1 DEF WellFormed
<1>3. open' \in [Handles -> Paths \cup {Closed, Gone}]
  BY <1>1
<1>4. \A g \in Handles : open'[g] \in Paths => IsFile(upper'[open'[g]])
  BY <1>1
<1>5. \A q \in Paths : Whiteouted(q)' <=> Whiteouted(q)
  BY <1>1 DEF Whiteouted
<1> QED BY <1>1, <1>2, <1>3, <1>4, <1>5 DEF Kept

-----------------------------------------------------------------------------
(* What a request does to the tree that is seen *)

(* The trees FileTree lets the seen one become. *)
Outcome(t) ==
  \/ t = seen
  \/ \E p \in Paths :
       \/ /\ seen[p] = "none" /\ \A q \in Parents[p] : seen[q] = "dir"
          /\ t \in {[seen EXCEPT ![p] = "empty"], [seen EXCEPT ![p] = "dir"]}
       \/ /\ IsFile(seen[p])
          /\ \E c \in Contents \cup {"empty", "none"} : t = [seen EXCEPT ![p] = c]
       \/ /\ seen[p] = "dir" /\ \A q \in Children[p] \ dirty : seen[q] = "none"
          /\ t = [seen EXCEPT ![p] = "none"]
  \/ \E from, to \in Paths :
       /\ IsFile(seen[from])
       /\ to \notin Below[from] /\ from \notin Below[to]
       /\ \A q \in Parents[to] : seen[q] = "dir"
       /\ seen[to] = "none" \/ IsFile(seen[to])
       /\ t = [q \in Paths |-> IF q = from THEN "none"
                               ELSE IF q = to THEN seen[from] ELSE seen[q]]

LEMMA OutcomeIsTree ==
  ASSUME HistoryOK, NEW t, Outcome(t)
  PROVE  /\ t \in [Paths -> Node]
         /\ \A q \in Paths \ dirty : t[q] # "none" => \A r \in Parents[q] : t[r] = "dir"
<1> USE DEF HistoryOK
<1>1. CASE t = seen
  BY <1>1 DEF WellFormed
<1>2. ASSUME NEW p \in Paths, NEW v \in Node, t = [seen EXCEPT ![p] = v],
             v # "none" => \A q \in Parents[p] : seen[q] = "dir",
             v = "dir" \/ \A q \in Paths \ dirty : p \in Parents[q] => seen[q] = "none"
      PROVE  /\ t \in [Paths -> Node]
             /\ \A q \in Paths \ dirty : t[q] # "none" => \A r \in Parents[q] : t[r] = "dir"
  <2>1. t \in [Paths -> Node] /\ t[p] = v /\ \A q \in Paths \ {p} : t[q] = seen[q]
    BY <1>2
  <2>2. ASSUME NEW q \in Paths \ dirty, t[q] # "none", NEW r \in Parents[q]
        PROVE  t[r] = "dir"
    <3>1. r \in Paths /\ r # q
      BY ParentsArePaths, ParentsOrder
    <3>2. CASE q = p
      BY <1>2, <2>1, <2>2, <3>1, <3>2
    <3>3. CASE q # p
      <4>1. seen[q] # "none"
        BY <2>1, <2>2, <3>3
      <4>2. seen[r] = "dir"
        BY <4>1 DEF WellFormed
      <4> QED BY <1>2, <2>1, <2>2, <3>1, <4>1, <4>2
    <3> QED BY <3>2, <3>3
  <2> QED BY <2>1, <2>2
<1>3. ASSUME NEW p \in Paths, seen[p] # "dir", NEW q \in Paths, p \in Parents[q]
      PROVE  seen[q] = "none"
  BY <1>3 DEF WellFormed
<1>4. ASSUME NEW p \in Paths, seen[p] = "none", \A q \in Parents[p] : seen[q] = "dir",
             t \in {[seen EXCEPT ![p] = "empty"], [seen EXCEPT ![p] = "dir"]}
      PROVE  /\ t \in [Paths -> Node]
             /\ \A q \in Paths \ dirty : t[q] # "none" => \A r \in Parents[q] : t[r] = "dir"
  <2>1. PICK v \in {"empty", "dir"} : t = [seen EXCEPT ![p] = v]
    BY <1>4
  <2>2. v \in Node
    BY DEF Node
  <2>3. \A q \in Paths \ dirty : p \in Parents[q] => seen[q] = "none"
    BY <1>3, <1>4
  <2> QED BY <1>2, <1>4, <2>1, <2>2, <2>3
<1>5. ASSUME NEW p \in Paths, IsFile(seen[p]), NEW c \in Contents \cup {"empty", "none"},
             t = [seen EXCEPT ![p] = c]
      PROVE  /\ t \in [Paths -> Node]
             /\ \A q \in Paths \ dirty : t[q] # "none" => \A r \in Parents[q] : t[r] = "dir"
  <2>1. c \in Node
    BY DEF Node
  <2>2. \A q \in Parents[p] : seen[q] = "dir"
    BY <1>5 DEF WellFormed, IsFile
  <2>3. \A q \in Paths \ dirty : p \in Parents[q] => seen[q] = "none"
    BY <1>3, <1>5 DEF IsFile
  <2> QED BY <1>2, <1>5, <2>1, <2>2, <2>3
<1>6. ASSUME NEW p \in Paths, seen[p] = "dir", \A q \in Children[p] \ dirty : seen[q] = "none",
             t = [seen EXCEPT ![p] = "none"]
      PROVE  /\ t \in [Paths -> Node]
             /\ \A q \in Paths \ dirty : t[q] # "none" => \A r \in Parents[q] : t[r] = "dir"
  <2>1. "none" \in Node
    BY DEF Node
  <2>2. ASSUME NEW q \in Paths \ dirty, p \in Parents[q]
        PROVE  seen[q] = "none"
    <3>1. PICK c \in Children[p] : q \in Below[c]
      BY <2>2, ChildOnTheWay
    <3>2. c \in Paths \ dirty
      BY <3>1, ChildrenAreBelow
    <3>3. seen[c] = "none"
      BY <1>6, <3>2
    <3> QED BY <1>3, <3>1, <3>2, <3>3, BelowIsParents
  <2> QED BY <1>2, <1>6, <2>1, <2>2
<1>7. ASSUME NEW from \in Paths, NEW to \in Paths, IsFile(seen[from]),
             to \notin Below[from], from \notin Below[to],
             \A q \in Parents[to] : seen[q] = "dir",
             seen[to] = "none" \/ IsFile(seen[to]),
             t = [q \in Paths |-> IF q = from THEN "none"
                                  ELSE IF q = to THEN seen[from] ELSE seen[q]]
      PROVE  /\ t \in [Paths -> Node]
             /\ \A q \in Paths \ dirty : t[q] # "none" => \A r \in Parents[q] : t[r] = "dir"
  <2>1. t \in [Paths -> Node]
    BY <1>7 DEF Node
  <2>2. ASSUME NEW q \in Paths \ dirty, t[q] # "none", NEW r \in Parents[q]
        PROVE  t[r] = "dir"
    <3>1. r \in Paths /\ r # q /\ q # from
      BY <1>7, <2>2, ParentsArePaths, ParentsOrder
    <3>2. seen[r] = "dir"
      <4>1. CASE q = to
        BY <1>7, <4>1
      <4>2. CASE q # to
        <5>1. seen[q] # "none"
          BY <1>7, <2>2, <3>1, <4>2
        <5> QED BY <5>1 DEF WellFormed
      <4> QED BY <4>1, <4>2
    <3>3. r # from /\ r # to
      BY <1>7, <3>2 DEF IsFile
    <3> QED BY <1>7, <3>1, <3>2, <3>3
  <2> QED BY <2>1, <2>2
<1> QED BY <1>1, <1>4, <1>5, <1>6, <1>7 DEF Outcome

Same(q) == (Resolve(q)' = Resolve(q)) /\ (Hidden(q)' => Hidden(q))

LEMMA NamedPaths ==
  /\ req = NoRequest => Named = {}
  /\ \A p : req.paths = <<p>> => Named = {p}
  /\ \A p, to : req.paths = <<p, to>> => Named = {p, to}
<1>1. DOMAIN <<>> = {}
  OBVIOUS
<1>2. \A p : DOMAIN <<p>> = {1} /\ <<p>>[1] = p
  OBVIOUS
<1>3. \A p, to : DOMAIN <<p, to>> = {1, 2} /\ <<p, to>>[1] = p /\ <<p, to>>[2] = to
  OBVIOUS
<1>4. req = NoRequest => Named = {}
  BY <1>1 DEF Named, NoRequest
<1>5. ASSUME NEW p, req.paths = <<p>>
      PROVE  Named = {p}
  <2>1. DOMAIN req.paths = {1} /\ req.paths[1] = p
    BY <1>2, <1>5
  <2> QED BY <2>1 DEF Named
<1>6. ASSUME NEW p, NEW to, req.paths = <<p, to>>
      PROVE  Named = {p, to}
  <2>1. DOMAIN req.paths = {1, 2} /\ req.paths[1] = p /\ req.paths[2] = to
    BY <1>3, <1>6
  <2> QED BY <2>1 DEF Named
<1> QED BY <1>4, <1>5, <1>6

LEMMA NothingNamed == req = NoRequest => Named = {}
BY NamedPaths

LEMMA ViewIsTree == TreesOK => View \in [Paths -> Node] /\ WellFormed(View)
BY ViewFacts

(* No path a request names is above another. *)
LEMMA NamedApart ==
  ASSUME Progress
  PROVE  /\ Named \subseteq Paths
         /\ \A p \in Named : Named \cap Parents[p] = {}
<1>1. CASE req = NoRequest
  BY <1>1, NamedPaths
<1>2. ASSUME NEW p \in Paths, req.paths = <<p>>
      PROVE  /\ Named \subseteq Paths
             /\ \A q \in Named : Named \cap Parents[q] = {}
  BY <1>2, NamedPaths, ParentsOrder
<1>3. ASSUME NEW from \in Paths, NEW to \in Paths, req.paths = <<from, to>>,
             to \notin Below[from], from \notin Below[to]
      PROVE  /\ Named \subseteq Paths
             /\ \A q \in Named : Named \cap Parents[q] = {}
  <2>1. from \notin Parents[to] /\ to \notin Parents[from]
    BY <1>3, BelowIsParents
  <2> QED BY <1>3, <2>1, NamedPaths, ParentsOrder
<1> QED BY <1>1, <1>2, <1>3 DEF Progress, RemoveStage, StoreStage, EnsureStage, CreateStage,
                                MkdirStage, RenameStage

LEMMA FrameKept ==
  ASSUME Framed, Named \subseteq Paths, \A p \in Named : Named \cap Parents[p] = {},
         \A q \in Paths \ Named : Same(q),
         UNCHANGED <<req, seen, dirty>>
  PROVE  Framed'
<1>1. Named' = Named
  BY DEF Named
<1>2. \A q \in Paths \ (dirty \cup Named) : Resolve(q)' = seen[q] /\ ~Hidden(q)'
  BY DEF Framed, Same
<1>3. ASSUME NEW p \in Named, NEW q \in Parents[p]
      PROVE  Resolve(q)' = "dir" /\ seen[q] = "dir"
  <2>1. q \in Paths \ Named
    BY ParentsArePaths
  <2> QED BY <2>1 DEF Framed, Rooted, Same
<1> QED BY <1>1, <1>2, <1>3 DEF Framed, Rooted

LEMMA RequestEnds ==
  ASSUME HistoryOK, TreesOK', NEW t, Outcome(t),
         \A q \in Paths \ dirty : (Resolve(q)' = t[q]) /\ ~Hidden(q)',
         UNCHANGED <<dirty, cuts>>, seen' = View', plan' = <<>>, req' = NoRequest
  PROVE  IInv' /\ \A q \in Paths \ dirty : seen'[q] = t[q]
<1>1. /\ dirty \subseteq Paths
      /\ \A p \in dirty : Below[p] \subseteq dirty
  BY DEF HistoryOK
<1>2. \A q \in Paths \ dirty : Resolve(q)' = t[q] /\ ~Hidden(q)'
  OBVIOUS
<1>3. \A q \in Paths \ dirty : t[q] # "none" => \A r \in Parents[q] : t[r] = "dir"
  BY OutcomeIsTree
<1> DEFINE s == [q \in Paths |-> Resolve(q)']
<1>4. \A q \in Paths : View'[q] = IF \A r \in Parents[q] : s[r] = "dir" THEN s[q] ELSE "none"
  BY ParentsArePaths DEF View
<1>5. \A q \in Paths \ dirty : s[q] = t[q]
  BY <1>2
<1> HIDE DEF s
<1>6. ASSUME NEW q \in Paths \ dirty
      PROVE  (IF \A r \in Parents[q] : s[r] = "dir" THEN s[q] ELSE "none") = t[q]
  <2>1. \A r \in Parents[q] : r \in Paths \ dirty
    BY <1>1, ParentsArePaths, BelowIsParents
  <2> QED BY <1>3, <1>5, <2>1
<1>7. \A q \in Paths \ dirty : View'[q] = t[q]
  BY <1>4, <1>6
<1>8. (View \in [Paths -> Node])' /\ WellFormed(View)'
  <2>1. (TreesOK => View \in [Paths -> Node] /\ WellFormed(View))'
    BY ViewIsTree, PTL
  <2> QED BY <2>1
<1>9. Named' = {}
  <2>1. (req = NoRequest => Named = {})'
    BY NothingNamed, PTL
  <2> QED BY <2>1 DEF NoRequest
<1>10. HistoryOK'
  <2>1. WellFormed(seen') 
    BY <1>8 DEF WellFormed
  <2> QED BY <1>8, <2>1 DEF HistoryOK
<1>11. Framed'
  BY <1>2, <1>7, <1>9 DEF Framed
<1>12. Progress'
  BY DEF Progress
<1>13. plan' \in Seq(Calls)
  OBVIOUS
<1> QED BY <1>7, <1>10, <1>11, <1>12, <1>13 DEF IInv, Idle

-----------------------------------------------------------------------------
(* The storage calls of the request in progress *)

LEMMA WorksFacts ==
  /\ \A p : Works(MakeParents(p)) <=> \A q \in Parents[p] : upper[q] \in {"none", "dir"}
  /\ \A p, v : Works(Put(p, v)) <=>
                 Made(p) /\ (upper[p] # "none" => (upper[p] = "dir" <=> v = "dir"))
  /\ \A p : Works(OpenOrCreate(p)) <=> upper[p] # "dir"
  /\ \A p : Works(RemoveEntry(p)) <=> \A q \in Children[p] : upper[q] = "none"
  /\ \A p : Works(CreateWhiteout(p)) <=> \A q \in Parents[p] : white[q] # "file"
  /\ \A p : Works(RemoveWhiteout(p))
  /\ \A h, p : Works(Bind(h, p))
<1>1. \A p : Works(MakeParents(p)) <=> \A q \in Parents[p] : upper[q] \in {"none", "dir"}
  BY DEF Works, MakeParents
<1>2. \A p, v : Works(Put(p, v)) <=>
                 Made(p) /\ (upper[p] # "none" => (upper[p] = "dir" <=> v = "dir"))
  BY DEF Works, Put, Made
<1>3. \A p : Works(OpenOrCreate(p)) <=> upper[p] # "dir"
  BY DEF Works, OpenOrCreate
<1>4. \A p : Works(RemoveEntry(p)) <=> \A q \in Children[p] : upper[q] = "none"
  BY DEF Works, RemoveEntry
<1>5. \A p : Works(CreateWhiteout(p)) <=> \A q \in Parents[p] : white[q] # "file"
  BY DEF Works, CreateWhiteout
<1>6. \A p : Works(RemoveWhiteout(p))
  BY DEF Works, RemoveWhiteout
<1>7. \A h, p : Works(Bind(h, p))
  BY DEF Works, Bind
<1> QED BY <1>1, <1>2, <1>3, <1>4, <1>5, <1>6, <1>7

LEMMA MoveWorks ==
  ASSUME NEW p, NEW to
  PROVE  Works(Move(p, to)) <=>
           \/ upper[to] = "none"
           \/ IsFile(upper[p]) /\ IsFile(upper[to])
           \/ /\ upper[p] = "dir" /\ upper[to] = "dir"
              /\ \A q \in Children[to] : upper[q] = "none"
BY DEF Works, Move

LEMMA CallDone ==
  ASSUME StorageCall
  PROVE  /\ \A p : Head(plan) = MakeParents(p) => DoMakeParents(p)
         /\ \A p, v : Head(plan) = Put(p, v) => DoPut(p, v)
         /\ \A p : Head(plan) = OpenOrCreate(p) => DoOpenOrCreate(p)
         /\ \A p : Head(plan) = RemoveEntry(p) => DoRemove(p)
         /\ \A p, to : Head(plan) = Move(p, to) => DoMove(p, to)
         /\ \A p : Head(plan) = CreateWhiteout(p) => DoCreateWhiteout(p)
         /\ \A p : Head(plan) = RemoveWhiteout(p) => DoRemoveWhiteout(p)
         /\ \A h, p : Head(plan) = Bind(h, p) => DoBind(h, p)
         /\ Works(Head(plan))
         /\ plan # <<>>
         /\ plan' = Tail(plan)
         /\ UNCHANGED <<lower, dirty, cuts>>
         /\ IF plan' = <<>> THEN req' = NoRequest /\ seen' = View'
                            ELSE req' = req /\ seen' = seen
<1> USE DEF StorageCall
<1>1. \A p : Head(plan) = MakeParents(p) => DoMakeParents(p)
  BY DEF MakeParents
<1>2. \A p, v : Head(plan) = Put(p, v) => DoPut(p, v)
  BY DEF Put
<1>3. \A p : Head(plan) = OpenOrCreate(p) => DoOpenOrCreate(p)
  BY DEF OpenOrCreate
<1>4. \A p : Head(plan) = RemoveEntry(p) => DoRemove(p)
  BY DEF RemoveEntry
<1>5. \A p, to : Head(plan) = Move(p, to) => DoMove(p, to)
  BY DEF Move
<1>6. \A p : Head(plan) = CreateWhiteout(p) => DoCreateWhiteout(p)
  BY DEF CreateWhiteout
<1>7. \A p : Head(plan) = RemoveWhiteout(p) => DoRemoveWhiteout(p)
  BY DEF RemoveWhiteout
<1>8. \A h, p : Head(plan) = Bind(h, p) => DoBind(h, p)
  BY DEF Bind
<1>9. Works(Head(plan)) /\ plan # <<>>
  BY DEF Idle
<1>10. /\ plan' = Tail(plan)
       /\ UNCHANGED <<lower, dirty, cuts>>
       /\ IF plan' = <<>> THEN req' = NoRequest /\ seen' = View'
                          ELSE req' = req /\ seen' = seen
  BY DEF Proceed
<1> QED BY <1>1, <1>2, <1>3, <1>4, <1>5, <1>6, <1>7, <1>8, <1>9, <1>10

(* The request goes on, or its last call makes the seen tree an outcome. *)
CarriesOn ==
  /\ TreesOK'
  /\ \A q \in Paths \ Named : Same(q)
  /\ plan' # <<>> => Progress'
  /\ plan' = <<>> =>
       \E t : /\ Outcome(t)
              /\ \A q \in Paths \ (dirty \cup Named) : t[q] = seen[q]
              /\ \A q \in Named \ dirty : (Resolve(q)' = t[q]) /\ ~Hidden(q)'

LEMMA KeptIsSame ==
  ASSUME lower' = lower, NEW S, \A q \in S : Kept(q)
  PROVE  \A q \in S : Same(q)
BY ResolveKept DEF Same

LEMMA MadeKept ==
  ASSUME NEW p \in Paths, Made(p), \A q \in Paths \ Named : Kept(q),
         Named \cap Parents[p] = {}
  PROVE  Made(p)'
BY ParentsArePaths DEF Made, Kept

LEMMA EnsureCall ==
  ASSUME IInv, StorageCall, NEW p \in Paths, EnsureStage(p, plan), Made(p)
  PROVE  CarriesOn
<1>1. /\ req.paths = <<p>> /\ req.op \in {"setattr", "open"}
      /\ Named = {p} /\ Named \cap Parents[p] = {}
      /\ seen[p] \in Node \ {"none"} /\ ~Whiteouted(p)
  BY NamedPaths, ParentsOrder DEF EnsureStage, IInv, HistoryOK
<1>2. TreesOK
  BY DEF IInv
<1>3. /\ plan' = Tail(plan) /\ lower' = lower /\ dirty' = dirty
      /\ plan' # <<>> => req' = req /\ seen' = seen
  BY CallDone
<1>4. PICK e \in Endings(p) :
       /\ e # <<>> => IsFile(seen[p])
       /\ \/ /\ plan = Copying(p, seen[p], Revealing(p, e))
             /\ IsFile(seen[p]) /\ upper[p] = "none"
          \/ /\ plan = Filling(p, seen[p], Revealing(p, e))
             /\ upper[p] = IF IsFile(seen[p]) THEN "torn" ELSE "none"
          \/ /\ plan = Revealing(p, e)
             /\ upper[p] = seen[p]
          \/ /\ plan = e /\ e # <<>>
             /\ upper[p] \in {seen[p], "empty"}
  BY DEF EnsureStage
<1>5. e \in Seq(Calls)
  BY EndingsArePlans
<1>6. Revealing(p, e) \in Seq(Calls) /\ Revealing(p, e) # <<>>
      /\ Head(Revealing(p, e)) = RemoveWhiteout(p) /\ Tail(Revealing(p, e)) = e
  BY <1>5, PlanFacts
<1>7. /\ Filling(p, seen[p], Revealing(p, e)) \in Seq(Calls)
      /\ Filling(p, seen[p], Revealing(p, e)) # <<>>
      /\ Head(Filling(p, seen[p], Revealing(p, e))) = Put(p, seen[p])
      /\ Tail(Filling(p, seen[p], Revealing(p, e))) = Revealing(p, e)
  <2>1. seen[p] \in Node
    BY <1>1
  <2> QED BY <1>6, <2>1, PlanFacts
<1>8. ASSUME TreesOK', \A q \in Paths \ {p} : Kept(q), EnsureStage(p, plan)', plan' # <<>>
      PROVE  CarriesOn
  <2>1. Made(p)'
    BY <1>1, <1>8, MadeKept
  <2>2. Progress'
    BY <1>8, <2>1 DEF Progress, StoreStage
  <2> QED BY <1>1, <1>3, <1>8, <2>2, KeptIsSame DEF CarriesOn
<1>9. ASSUME TreesOK', \A q \in Paths \ {p} : Kept(q), plan' = <<>>,
             ~Whiteouted(p)', upper'[p] = seen[p] \/ (IsFile(seen[p]) /\ upper'[p] = "empty")
      PROVE  CarriesOn
  <2>1. upper'[p] # "none" /\ Resolve(p)' = upper'[p] /\ ~Hidden(p)'
    BY <1>1, <1>9 DEF Resolve, Hidden
  <2>2. \A q \in Paths \ Named : Same(q)
    BY <1>1, <1>3, <1>9, KeptIsSame
  <2>3. CASE upper'[p] = seen[p]
    <3>1. Outcome(seen)
      BY DEF Outcome
    <3> QED BY <1>1, <1>9, <2>1, <2>2, <2>3, <3>1 DEF CarriesOn
  <2>4. CASE IsFile(seen[p]) /\ upper'[p] = "empty"
    <3> DEFINE t == [seen EXCEPT ![p] = "empty"]
    <3>1. Outcome(t)
      BY <2>4 DEF Outcome
    <3>2. t[p] = "empty" /\ \A q \in Paths \ {p} : t[q] = seen[q]
      BY DEF IInv, HistoryOK
    <3> HIDE DEF t
    <3> QED BY <1>1, <1>9, <2>1, <2>2, <2>4, <3>1, <3>2 DEF CarriesOn
  <2> QED BY <1>9, <2>3, <2>4
<1>10. CASE plan = Copying(p, seen[p], Revealing(p, e)) /\ IsFile(seen[p]) /\ upper[p] = "none"
  <2>1. /\ Head(plan) = Put(p, "torn")
        /\ plan' = Filling(p, seen[p], Revealing(p, e))
    BY <1>1, <1>3, <1>6, <1>10, CopyingFacts
  <2>2. DoPut(p, "torn")
    BY <2>1, CallDone
  <2>3. /\ TreesOK' /\ upper'[p] = "torn" /\ ~Whiteouted(p)'
        /\ \A q \in Paths \ {p} : Kept(q)
    BY <1>1, <1>2, <1>3, <1>10, <2>2, Stored DEF DoPut, Node
  <2>4. req' = req /\ seen' = seen /\ plan' # <<>>
    BY <1>3, <1>7, <2>1
  <2>5. EnsureStage(p, plan)'
    BY <1>1, <1>4, <1>10, <2>1, <2>3, <2>4 DEF EnsureStage
  <2> QED BY <1>8, <2>3, <2>4, <2>5
<1>11. CASE /\ plan = Filling(p, seen[p], Revealing(p, e))
            /\ upper[p] = IF IsFile(seen[p]) THEN "torn" ELSE "none"
  <2>1. Head(plan) = Put(p, seen[p]) /\ plan' = Revealing(p, e)
    BY <1>3, <1>7, <1>11
  <2>2. DoPut(p, seen[p])
    BY <2>1, CallDone
  <2>3. /\ TreesOK' /\ upper'[p] = seen[p] /\ ~Whiteouted(p)'
        /\ \A q \in Paths \ {p} : Kept(q)
    BY <1>1, <1>2, <1>3, <1>11, <2>2, Stored DEF DoPut, IsFile
  <2>4. req' = req /\ seen' = seen /\ plan' # <<>>
    BY <1>3, <1>6, <2>1
  <2>5. EnsureStage(p, plan)'
    BY <1>1, <1>4, <2>1, <2>3, <2>4 DEF EnsureStage
  <2> QED BY <1>8, <2>3, <2>4, <2>5
<1>12. CASE plan = Revealing(p, e) /\ upper[p] = seen[p]
  <2>1. Head(plan) = RemoveWhiteout(p) /\ plan' = e
    BY <1>3, <1>6, <1>12
  <2>2. DoRemoveWhiteout(p)
    BY <2>1, CallDone
  <2>3. /\ TreesOK' /\ upper'[p] = seen[p] /\ ~Whiteouted(p)'
        /\ \A q \in Paths \ {p} : Kept(q)
    BY <1>2, <1>3, <1>12, <2>2, WhiteoutRemoved
  <2>4. CASE e = <<>>
    BY <1>9, <2>1, <2>3, <2>4
  <2>5. CASE e # <<>>
    <3>1. req' = req /\ seen' = seen
      BY <1>3, <2>1, <2>5
    <3>2. EnsureStage(p, plan)'
      BY <1>1, <1>4, <2>1, <2>3, <2>5, <3>1 DEF EnsureStage
    <3> QED BY <1>8, <2>1, <2>3, <2>5, <3>2
  <2> QED BY <2>4, <2>5
<1>13. CASE plan = e /\ e # <<>> /\ upper[p] \in {seen[p], "empty"}
  <2>1. IsFile(seen[p]) /\ IsFile(upper[p])
    BY <1>4, <1>13 DEF IsFile
  <2>2. ASSUME NEW h \in Handles, e = Binding(h, p)
        PROVE  CarriesOn
    <3>1. Head(plan) = Bind(h, p) /\ plan' = <<>>
      BY <1>3, <1>13, <2>2, EndFacts
    <3>2. DoBind(h, p)
      BY <3>1, CallDone
    <3>3. TreesOK' /\ \A q \in Paths : Kept(q)
      BY <1>2, <1>3, <2>1, <3>2, Bound
    <3>4. upper'[p] = upper[p] /\ ~Whiteouted(p)'
      BY <1>1, <3>3 DEF Kept
    <3> QED BY <1>9, <1>13, <2>1, <3>1, <3>3, <3>4
  <2>3. ASSUME NEW b \in Bindings(p), e = Filling(p, "empty", b)
        PROVE  CarriesOn
    <3>1. b \in Endings(p) /\ b \in Seq(Calls)
      BY EndingsArePlans DEF Endings
    <3>2. Head(plan) = Put(p, "empty") /\ plan' = b
      BY <1>3, <1>13, <2>3, <3>1, FillingFacts, NodeFacts
    <3>3. DoPut(p, "empty")
      BY <3>2, CallDone
    <3>4. /\ TreesOK' /\ upper'[p] = "empty" /\ ~Whiteouted(p)'
          /\ \A q \in Paths \ {p} : Kept(q)
      BY <1>1, <1>2, <1>3, <2>1, <3>3, Stored DEF DoPut, Node, IsFile
    <3>5. CASE b = <<>>
      BY <1>9, <2>1, <3>2, <3>4, <3>5
    <3>6. CASE b # <<>>
      <4>1. req' = req /\ seen' = seen
        BY <1>3, <3>2, <3>6
      <4>2. EnsureStage(p, plan)'
        BY <1>1, <2>1, <3>1, <3>2, <3>4, <3>6, <4>1 DEF EnsureStage
      <4> QED BY <1>8, <3>2, <3>4, <3>6, <4>2
    <3> QED BY <3>5, <3>6
  <2>4. e \in Bindings(p) => \E h \in Handles : e = Binding(h, p)
    BY <1>13 DEF Bindings
  <2> QED BY <2>2, <2>3, <2>4 DEF Endings
<1> QED BY <1>4, <1>10, <1>11, <1>12, <1>13

LEMMA GoesOn ==
  ASSUME IInv, UNCHANGED <<lower, req, seen, dirty>>, NEW p \in Named, p \in Paths, Made(p),
         TreesOK', \A q \in Paths \ Named : Kept(q),
         StoreStage(p, plan)', plan' # <<>>
  PROVE  CarriesOn
<1>1. Named \cap Parents[p] = {}
  BY NamedApart DEF IInv
<1>2. Made(p)'
  BY <1>1, MadeKept
<1>3. Progress'
  BY <1>2 DEF Progress
<1> QED BY <1>3, KeptIsSame DEF CarriesOn

LEMMA CreateCall ==
  ASSUME IInv, StorageCall, NEW p \in Paths, CreateStage(p, plan), Made(p)
  PROVE  CarriesOn
<1>1. /\ req.paths = <<p>> /\ req.op = "create"
      /\ Named = {p} /\ seen[p] = "none" /\ seen \in [Paths -> Node]
      /\ \A q \in Parents[p] : seen[q] = "dir"
  BY NamedPaths DEF CreateStage, IInv, HistoryOK, Framed
<1>2. TreesOK
  BY DEF IInv
<1>3. /\ plan' = Tail(plan) /\ lower' = lower /\ dirty' = dirty
      /\ plan' # <<>> => req' = req /\ seen' = seen
  BY CallDone
<1>4. PICK h \in Handles :
       \/ /\ plan = Creating(p, Revealing(p, Binding(h, p)))
          /\ p \notin dirty => upper[p] = "none"
       \/ /\ \/ plan = Revealing(p, Binding(h, p))
             \/ plan = Binding(h, p) /\ ~Whiteouted(p)
          /\ IsFile(upper[p])
          /\ p \notin dirty => upper[p] = "empty"
  BY DEF CreateStage
<1>5. /\ Binding(h, p) \in Seq(Calls) /\ Binding(h, p) # <<>>
      /\ Head(Binding(h, p)) = Bind(h, p) /\ Tail(Binding(h, p)) = <<>>
  BY EndFacts
<1>6. /\ Revealing(p, Binding(h, p)) \in Seq(Calls) /\ Revealing(p, Binding(h, p)) # <<>>
      /\ Head(Revealing(p, Binding(h, p))) = RemoveWhiteout(p)
      /\ Tail(Revealing(p, Binding(h, p))) = Binding(h, p)
  BY <1>5, PlanFacts
<1>7. CASE plan = Creating(p, Revealing(p, Binding(h, p))) /\ (p \notin dirty => upper[p] = "none")
  <2>1. Head(plan) = OpenOrCreate(p) /\ plan' = Revealing(p, Binding(h, p))
    BY <1>3, <1>6, <1>7, PlanFacts
  <2>2. DoOpenOrCreate(p) /\ upper[p] # "dir"
    BY <2>1, CallDone, WorksFacts
  <2>3. PICK truncate \in BOOLEAN :
          upper' = [upper EXCEPT ![p] = IF upper[p] = "none" \/ truncate THEN "empty" ELSE upper[p]]
    BY <2>2 DEF DoOpenOrCreate
  <2>4. PICK v \in Node \ {"none", "dir"} :
          upper' = [upper EXCEPT ![p] = v] /\ (upper[p] = "none" => v = "empty")
    BY <1>2, <2>2, <2>3 DEF TreesOK, Node
  <2>5. UNCHANGED <<white, open>>
    BY <2>2 DEF DoOpenOrCreate
  <2>6. /\ TreesOK' /\ upper'[p] = v
        /\ \A q \in Paths \ {p} : Kept(q)
    BY <1>2, <1>3, <2>2, <2>4, <2>5, Stored
  <2>7. req' = req /\ seen' = seen /\ plan' # <<>>
    BY <1>3, <1>6, <2>1
  <2>8. CreateStage(p, plan)'
    BY <1>1, <1>3, <1>7, <2>1, <2>4, <2>6, <2>7 DEF CreateStage, IsFile
  <2> QED BY <1>1, <1>3, <2>6, <2>7, <2>8, GoesOn DEF StoreStage
<1>8. CASE /\ plan = Revealing(p, Binding(h, p)) /\ IsFile(upper[p])
           /\ p \notin dirty => upper[p] = "empty"
  <2>1. Head(plan) = RemoveWhiteout(p) /\ plan' = Binding(h, p)
    BY <1>3, <1>6, <1>8
  <2>2. DoRemoveWhiteout(p)
    BY <2>1, CallDone
  <2>3. /\ TreesOK' /\ upper'[p] = upper[p] /\ ~Whiteouted(p)'
        /\ \A q \in Paths \ {p} : Kept(q)
    BY <1>2, <1>3, <2>2, WhiteoutRemoved
  <2>4. req' = req /\ seen' = seen /\ plan' # <<>>
    BY <1>3, <1>5, <2>1
  <2>5. CreateStage(p, plan)'
    BY <1>1, <1>3, <1>8, <2>1, <2>3, <2>4 DEF CreateStage, IsFile
  <2> QED BY <1>1, <1>3, <2>3, <2>4, <2>5, GoesOn DEF StoreStage
<1>9. CASE /\ plan = Binding(h, p) /\ ~Whiteouted(p) /\ IsFile(upper[p])
           /\ p \notin dirty => upper[p] = "empty"
  <2>1. Head(plan) = Bind(h, p) /\ plan' = <<>>
    BY <1>3, <1>5, <1>9
  <2>2. DoBind(h, p)
    BY <2>1, CallDone
  <2>3. TreesOK' /\ \A q \in Paths : Kept(q)
    BY <1>2, <1>3, <1>9, <2>2, Bound
  <2>4. p \notin dirty => Resolve(p)' = "empty" /\ ~Hidden(p)'
    BY <1>9, <2>3 DEF Kept, Resolve, Hidden
  <2> DEFINE t == [seen EXCEPT ![p] = "empty"]
  <2>5. Outcome(t)
    BY <1>1 DEF Outcome
  <2>6. t[p] = "empty" /\ \A q \in Paths \ {p} : t[q] = seen[q]
    BY <1>1
  <2> HIDE DEF t
  <2>7. \A q \in Paths : Same(q)
    BY <1>3, <2>3, KeptIsSame
  <2> QED BY <1>1, <2>1, <2>3, <2>4, <2>5, <2>6, <2>7 DEF CarriesOn
<1> QED BY <1>4, <1>7, <1>8, <1>9

LEMMA MkdirCall ==
  ASSUME IInv, StorageCall, NEW p \in Paths, MkdirStage(p, plan), Made(p)
  PROVE  CarriesOn
<1>1. /\ req.paths = <<p>> /\ req.op = "mkdir"
      /\ Named = {p} /\ seen[p] = "none" /\ seen \in [Paths -> Node]
      /\ \A q \in Parents[p] : seen[q] = "dir"
  BY NamedPaths DEF MkdirStage, IInv, HistoryOK, Framed
<1>2. TreesOK
  BY DEF IInv
<1>3. /\ plan' = Tail(plan) /\ lower' = lower /\ dirty' = dirty
      /\ plan' # <<>> => req' = req /\ seen' = seen
  BY CallDone
<1>4. /\ Revealing(p, <<>>) \in Seq(Calls) /\ Revealing(p, <<>>) # <<>>
      /\ Head(Revealing(p, <<>>)) = RemoveWhiteout(p)
      /\ Tail(Revealing(p, <<>>)) = <<>>
  BY EndFacts, PlanFacts
<1>5. CASE plan = Filling(p, "dir", Revealing(p, <<>>)) /\ upper[p] = "none"
  <2>1. Head(plan) = Put(p, "dir") /\ plan' = Revealing(p, <<>>)
    BY <1>3, <1>4, <1>5, FillingFacts, NodeFacts
  <2>2. DoPut(p, "dir")
    BY <2>1, CallDone
  <2>3. /\ TreesOK' /\ upper'[p] = "dir"
        /\ \A q \in Paths \ {p} : Kept(q)
    BY <1>2, <1>3, <1>5, <2>2, Stored DEF DoPut, Node
  <2>4. req' = req /\ seen' = seen /\ plan' # <<>>
    BY <1>3, <1>4, <2>1
  <2>5. MkdirStage(p, plan)'
    BY <1>1, <2>1, <2>3, <2>4 DEF MkdirStage
  <2> QED BY <1>1, <1>3, <2>3, <2>4, <2>5, GoesOn DEF StoreStage
<1>6. CASE plan = Revealing(p, <<>>) /\ upper[p] = "dir"
  <2>1. Head(plan) = RemoveWhiteout(p) /\ plan' = <<>>
    BY <1>3, <1>4, <1>6
  <2>2. DoRemoveWhiteout(p)
    BY <2>1, CallDone
  <2>3. /\ TreesOK' /\ upper'[p] = "dir" /\ ~Whiteouted(p)'
        /\ \A q \in Paths \ {p} : Kept(q)
    BY <1>2, <1>3, <1>6, <2>2, WhiteoutRemoved
  <2>4. Resolve(p)' = "dir" /\ ~Hidden(p)'
    BY <2>3 DEF Resolve, Hidden
  <2> DEFINE t == [seen EXCEPT ![p] = "dir"]
  <2>5. Outcome(t)
    BY <1>1 DEF Outcome
  <2>6. t[p] = "dir" /\ \A q \in Paths \ {p} : t[q] = seen[q]
    BY <1>1
  <2> HIDE DEF t
  <2>7. \A q \in Paths \ {p} : Same(q)
    BY <1>3, <2>3, KeptIsSame
  <2> QED BY <1>1, <2>1, <2>3, <2>4, <2>5, <2>6, <2>7 DEF CarriesOn
<1> QED BY <1>5, <1>6 DEF MkdirStage

(* What is removed or moved away is seen no more. *)
LEMMA HidingCall ==
  ASSUME TreesOK, StorageCall, NEW p \in Paths, Head(plan) = UpdateWhiteout(p),
         upper[p] = "none"
  PROVE  /\ TreesOK'
         /\ Resolve(p)' = "none" /\ ~Hidden(p)'
         /\ \A q \in Paths \ {p} : Kept(q)
<1>1. lower' = lower
  BY CallDone
<1>2. CASE lower[p] # "none"
  <2>1. DoCreateWhiteout(p) /\ \A q \in Parents[p] : white[q] # "file"
    BY <1>2, CallDone, WorksFacts DEF UpdateWhiteout
  <2>2. /\ TreesOK' /\ upper'[p] = "none" /\ Whiteouted(p)'
        /\ \A q \in Paths \ {p} : Kept(q)
    BY <1>1, <2>1, WhiteoutCreated
  <2> QED BY <2>2 DEF Resolve, Hidden
<1>3. CASE lower[p] = "none"
  <2>1. DoRemoveWhiteout(p)
    BY <1>3, CallDone DEF UpdateWhiteout
  <2>2. /\ TreesOK' /\ upper'[p] = "none"
        /\ \A q \in Paths \ {p} : Kept(q)
    BY <1>1, <2>1, WhiteoutRemoved
  <2> QED BY <1>1, <1>3, <2>2 DEF Resolve, Hidden
<1> QED BY <1>2, <1>3

LEMMA RemoveCall ==
  ASSUME IInv, StorageCall, NEW p \in Paths, RemoveStage(p, plan)
  PROVE  CarriesOn
<1>1. /\ req.paths = <<p>> /\ req.op \in {"unlink", "rmdir"}
      /\ Named = {p} /\ seen[p] # "none" /\ seen \in [Paths -> Node] /\ ~Whiteouted(p)
      /\ IsFile(seen[p]) \/ \A q \in Children[p] \ dirty : seen[q] = "none"
  BY NamedPaths DEF RemoveStage, IInv, HistoryOK
<1>2. TreesOK
  BY DEF IInv
<1>3. /\ plan' = Tail(plan) /\ lower' = lower /\ dirty' = dirty
      /\ plan' # <<>> => req' = req /\ seen' = seen
  BY CallDone
<1>4. /\ Hiding(p) \in Seq(Calls) /\ Hiding(p) # <<>>
      /\ Head(Hiding(p)) = UpdateWhiteout(p) /\ Tail(Hiding(p)) = <<>>
  BY EndFacts
<1>5. CASE plan = Removing(p, Hiding(p)) /\ upper[p] = seen[p]
  <2>1. Head(plan) = RemoveEntry(p) /\ plan' = Hiding(p)
    BY <1>3, <1>4, <1>5, PlanFacts
  <2>2. DoRemove(p) /\ \A q \in Children[p] : upper[q] = "none"
    BY <2>1, CallDone, WorksFacts
  <2>3. /\ TreesOK' /\ upper'[p] = "none" /\ ~Whiteouted(p)'
        /\ \A q \in Paths \ {p} : Kept(q)
    BY <1>1, <1>2, <1>3, <2>2, Removed
  <2>4. req' = req /\ seen' = seen /\ plan' # <<>>
    BY <1>3, <1>4, <2>1
  <2>5. UpdateWhiteout(p)' = UpdateWhiteout(p)
    BY <1>3 DEF UpdateWhiteout, CreateWhiteout, RemoveWhiteout
  <2>6. plan' = Hiding(p)'
    BY <2>1, <2>5 DEF Hiding
  <2>7. RemoveStage(p, plan)'
    BY <1>1, <1>3, <2>3, <2>4, <2>6 DEF RemoveStage
  <2>8. Progress'
    BY <2>4, <2>7 DEF Progress
  <2> QED BY <1>1, <1>3, <2>3, <2>4, <2>8, KeptIsSame DEF CarriesOn
<1>6. CASE plan = Hiding(p) /\ upper[p] = "none"
  <2>1. Head(plan) = UpdateWhiteout(p) /\ plan' = <<>>
    BY <1>3, <1>4, <1>6
  <2>2. /\ TreesOK' /\ Resolve(p)' = "none" /\ ~Hidden(p)'
        /\ \A q \in Paths \ {p} : Kept(q)
    BY <1>2, <1>6, <2>1, HidingCall
  <2> DEFINE t == [seen EXCEPT ![p] = "none"]
  <2>3. Outcome(t)
    <3>1. CASE IsFile(seen[p])
      BY <3>1 DEF Outcome
    <3>2. CASE ~IsFile(seen[p])
      <4>1. seen[p] = "dir"
        BY <1>1, <3>2 DEF IsFile
      <4> QED BY <1>1, <3>2, <4>1 DEF Outcome
    <3> QED BY <3>1, <3>2
  <2>4. t[p] = "none" /\ \A q \in Paths \ {p} : t[q] = seen[q]
    BY <1>1
  <2> HIDE DEF t
  <2>5. \A q \in Paths \ {p} : Same(q)
    BY <1>3, <2>2, KeptIsSame
  <2> QED BY <1>1, <2>1, <2>2, <2>3, <2>4, <2>5 DEF CarriesOn
<1> QED BY <1>5, <1>6 DEF RemoveStage

LEMMA RenameCall ==
  ASSUME IInv, StorageCall, NEW from \in Paths, NEW to \in Paths,
         RenameStage(from, to, plan), Made(to)
  PROVE  CarriesOn
<1>1. /\ req.paths = <<from, to>> /\ req.op = "rename"
      /\ Named = {from, to} /\ from # to
      /\ to \notin Below[from] /\ from \notin Below[to]
      /\ seen \in [Paths -> Node] /\ IsFile(seen[from]) /\ ~Whiteouted(from)
      /\ seen[to] = "none" \/ IsFile(seen[to])
      /\ \A q \in Parents[to] : seen[q] = "dir"
  BY NamedPaths, BelowIsParents DEF RenameStage, IInv, HistoryOK, Framed
<1>2. TreesOK
  BY DEF IInv
<1>3. /\ plan' = Tail(plan) /\ lower' = lower /\ dirty' = dirty
      /\ plan' # <<>> => req' = req /\ seen' = seen
  BY CallDone
<1>4. /\ Hiding(from) \in Seq(Calls) /\ Hiding(from) # <<>>
      /\ Head(Hiding(from)) = UpdateWhiteout(from) /\ Tail(Hiding(from)) = <<>>
  BY EndFacts
<1> DEFINE e == Revealing(to, Hiding(from))
           v == seen[from]
<1>5. /\ e \in Seq(Calls) /\ e # <<>>
      /\ Head(e) = RemoveWhiteout(to) /\ Tail(e) = Hiding(from)
  BY <1>4, PlanFacts
<1>6. v \in Node \ {"none", "dir"}
  BY <1>1 DEF IsFile
<1>7. /\ Filling(to, v, e) \in Seq(Calls) /\ Filling(to, v, e) # <<>>
      /\ Head(Filling(to, v, e)) = Put(to, v) /\ Tail(Filling(to, v, e)) = e
  BY <1>5, <1>6, FillingFacts
<1>8. Hiding(from)' = Hiding(from)
  BY <1>3 DEF Hiding, UpdateWhiteout, CreateWhiteout, RemoveWhiteout
<1>9. seen' = seen => e' = e /\ v' = v
  BY <1>8 DEF Revealing, RemoveWhiteout
<1>10. ASSUME TreesOK', \A q \in Paths \ {from, to} : Kept(q), RenameStage(from, to, plan)',
              plan' # <<>>
       PROVE  CarriesOn
  BY <1>1, <1>3, <1>10, GoesOn DEF StoreStage
<1>11. CASE /\ req.stored
            /\ plan = Moving(from, to, e)
            /\ upper[from] = seen[from] /\ Resolve(to) = seen[to]
            /\ to \notin dirty => upper[to] # "dir"
  <2>1. Head(plan) = Move(from, to) /\ plan' = e
    BY <1>3, <1>5, <1>11, PlanFacts
  <2>2. DoMove(from, to) /\ Works(Move(from, to))
    BY <2>1, CallDone
  <2>3. upper[to] # "dir"
    BY <1>1, <1>11, <2>2, MoveWorks DEF IsFile
  <2>4. /\ TreesOK' /\ upper'[from] = "none" /\ upper'[to] = v
        /\ ~Whiteouted(from)' /\ (Whiteouted(to)' <=> Whiteouted(to))
        /\ \A q \in Paths \ {from, to} : Kept(q)
    BY <1>1, <1>2, <1>3, <1>11, <2>2, <2>3, FileMoved
  <2>5. req' = req /\ seen' = seen /\ plan' # <<>>
    BY <1>3, <1>5, <2>1
  <2>6. Whiteouted(to) => seen[to] = "none"
    BY <1>11 DEF Resolve
  <2>7. RenameStage(from, to, plan)'
    BY <1>1, <1>9, <2>1, <2>4, <2>5, <2>6 DEF RenameStage
  <2> QED BY <1>10, <2>4, <2>5, <2>7
<1>12. CASE /\ ~req.stored /\ upper[from] = "none" /\ lower[from] = seen[from]
            /\ Whiteouted(to) => seen[to] = "none"
            /\ plan = Copying(to, v, e)
            /\ to \notin dirty => upper[to] # "dir"
  <2>1. Head(plan) = Put(to, "torn") /\ plan' = Filling(to, v, e)
    BY <1>3, <1>5, <1>6, <1>12, CopyingFacts
  <2>2. DoPut(to, "torn") /\ (upper[to] # "none" => upper[to] # "dir")
    BY <2>1, CallDone, WorksFacts
  <2>3. /\ TreesOK' /\ upper'[to] = "torn" /\ (Whiteouted(to)' <=> Whiteouted(to))
        /\ \A q \in Paths \ {to} : Kept(q)
    BY <1>2, <1>3, <2>2, Stored DEF DoPut, Node
  <2>4. upper'[from] = "none" /\ ~Whiteouted(from)'
    BY <1>1, <1>12, <2>3 DEF Kept
  <2>5. req' = req /\ seen' = seen /\ plan' # <<>>
    BY <1>3, <1>7, <2>1
  <2>6. plan' = Filling(to, v, e)'
    BY <1>9, <2>1, <2>5 DEF Filling, Put
  <2>7. RenameStage(from, to, plan)'
    BY <1>1, <1>3, <1>12, <2>3, <2>4, <2>5, <2>6 DEF RenameStage
  <2> QED BY <1>10, <2>3, <2>5, <2>7
<1>13. CASE /\ ~req.stored /\ upper[from] = "none" /\ lower[from] = seen[from]
            /\ Whiteouted(to) => seen[to] = "none"
            /\ plan = Filling(to, v, e)
            /\ upper[to] = "torn"
  <2>1. Head(plan) = Put(to, v) /\ plan' = e
    BY <1>3, <1>7, <1>13
  <2>2. DoPut(to, v)
    BY <2>1, CallDone
  <2>3. /\ TreesOK' /\ upper'[to] = v /\ (Whiteouted(to)' <=> Whiteouted(to))
        /\ \A q \in Paths \ {to} : Kept(q)
    BY <1>2, <1>3, <1>6, <1>13, <2>2, Stored DEF DoPut
  <2>4. upper'[from] = "none" /\ ~Whiteouted(from)'
    BY <1>1, <1>13, <2>3 DEF Kept
  <2>5. req' = req /\ seen' = seen /\ plan' # <<>>
    BY <1>3, <1>5, <2>1
  <2>6. plan' = e'
    BY <1>9, <2>1, <2>5
  <2>7. RenameStage(from, to, plan)'
    BY <1>1, <1>13, <2>3, <2>4, <2>5, <2>6 DEF RenameStage
  <2> QED BY <1>10, <2>3, <2>5, <2>7
<1>14. CASE /\ upper[from] = "none" /\ upper[to] = seen[from]
            /\ plan = e
            /\ Whiteouted(to) => seen[to] = "none"
  <2>1. Head(plan) = RemoveWhiteout(to) /\ plan' = Hiding(from)
    BY <1>3, <1>5, <1>14
  <2>2. DoRemoveWhiteout(to)
    BY <2>1, CallDone
  <2>3. /\ TreesOK' /\ upper'[to] = v /\ ~Whiteouted(to)'
        /\ \A q \in Paths \ {to} : Kept(q)
    BY <1>2, <1>3, <1>14, <2>2, WhiteoutRemoved
  <2>4. upper'[from] = "none" /\ ~Whiteouted(from)'
    BY <1>1, <1>14, <2>3 DEF Kept
  <2>5. req' = req /\ seen' = seen /\ plan' # <<>>
    BY <1>3, <1>4, <2>1
  <2>6. plan' = Hiding(from)'
    BY <1>8, <2>1
  <2>7. RenameStage(from, to, plan)'
    BY <1>1, <2>3, <2>4, <2>5, <2>6 DEF RenameStage
  <2> QED BY <1>10, <2>3, <2>5, <2>7
<1>15. CASE /\ upper[from] = "none" /\ upper[to] = seen[from]
            /\ plan = Hiding(from) /\ ~Whiteouted(to)
  <2>1. Head(plan) = UpdateWhiteout(from) /\ plan' = <<>>
    BY <1>3, <1>4, <1>15
  <2>2. /\ TreesOK' /\ Resolve(from)' = "none" /\ ~Hidden(from)'
        /\ \A q \in Paths \ {from} : Kept(q)
    BY <1>2, <1>15, <2>1, HidingCall
  <2>3. Resolve(to)' = v /\ ~Hidden(to)'
    BY <1>1, <1>6, <1>15, <2>2 DEF Kept, Resolve, Hidden
  <2> DEFINE t == [q \in Paths |-> IF q = from THEN "none"
                                   ELSE IF q = to THEN seen[from] ELSE seen[q]]
  <2>4. Outcome(t)
    BY <1>1 DEF Outcome
  <2>5. /\ t[from] = "none" /\ t[to] = v
        /\ \A q \in Paths \ {from, to} : t[q] = seen[q]
    BY <1>1
  <2> HIDE DEF t
  <2>6. \A q \in Paths \ {from} : Same(q)
    BY <1>3, <2>2, KeptIsSame
  <2> QED BY <1>1, <2>1, <2>2, <2>3, <2>4, <2>5, <2>6 DEF CarriesOn
<1> HIDE DEF e, v
<1> QED BY <1>11, <1>12, <1>13, <1>14, <1>15 DEF RenameStage, e, v

LEMMA ParentsCall ==
  ASSUME IInv, StorageCall, NEW p \in Paths, plan = Making(p, Tail(plan)),
         StoreStage(p, Tail(plan))
  PROVE  CarriesOn
<1>1. TreesOK /\ Framed /\ plan \in Seq(Calls) /\ Progress
  BY DEF IInv
<1>2. Tail(plan) \in Seq(Calls)
  BY <1>1, CallDone
<1>3. Head(plan) = MakeParents(p) /\ plan # <<>>
  <2>1. \A e \in Seq(Calls) : Head(Making(p, e)) = MakeParents(p) /\ Making(p, e) # <<>>
    BY PlanFacts
  <2>2. PICK e \in Seq(Calls) : plan = Making(p, e)
    BY <1>2
  <2> QED BY <2>1, <2>2
<1>4. DoMakeParents(p) /\ plan' = Tail(plan) /\ lower' = lower /\ dirty' = dirty
  BY <1>3, CallDone
<1>5. p \in Named /\ Named \subseteq Paths /\ Named \cap Parents[p] = {}
  <2>1. p \in Named
    BY NamedPaths DEF StoreStage, EnsureStage, CreateStage, MkdirStage, RenameStage
  <2> QED BY <1>1, <2>1, NamedApart
<1>6. Rooted(p)
  BY <1>1, <1>5 DEF Framed
<1>7. /\ TreesOK' /\ Made(p)'
      /\ \A q \in Paths \ Parents[p] : Kept(q)
      /\ \A q \in Paths : Same(q)
  BY <1>1, <1>4, <1>6, ParentsMade DEF Same
<1>8. Tail(plan) # <<>>
  <2>1. ASSUME NEW e \in Endings(p), NEW v \in Node
        PROVE  Revealing(p, e) # <<>> /\ Filling(p, v, Revealing(p, e)) # <<>>
               /\ Copying(p, v, Revealing(p, e)) # <<>>
    BY EndingsArePlans, PlanFacts, FillingFacts, CopyingFacts
  <2>2. ASSUME NEW q \in Paths, NEW e \in Seq(Calls), NEW v \in Node
        PROVE  /\ Revealing(p, e) # <<>> /\ Filling(p, v, Revealing(p, e)) # <<>>
               /\ Copying(p, v, Revealing(p, e)) # <<>>
               /\ Creating(p, e) # <<>> /\ Moving(q, p, e) # <<>>
    <3>1. Revealing(p, e) \in Seq(Calls) /\ Revealing(p, e) # <<>> /\ Creating(p, e) # <<>>
      BY PlanFacts
    <3>2. Moving(q, p, e) # <<>>
      BY PlanFacts
    <3> QED BY <3>1, <3>2, FillingFacts, CopyingFacts
  <2>3. \A q \in Paths : seen[q] \in Node
    BY DEF IInv, HistoryOK
  <2>4. CASE EnsureStage(p, Tail(plan))
    BY <2>1, <2>3, <2>4 DEF EnsureStage
  <2>5. CASE CreateStage(p, Tail(plan))
    <3>1. \A h \in Handles : Binding(h, p) \in Seq(Calls) /\ Binding(h, p) # <<>>
      BY EndFacts
    <3>2. \A e \in Seq(Calls) : Revealing(p, e) \in Seq(Calls) /\ Revealing(p, e) # <<>>
                                /\ Creating(p, e) # <<>>
      BY PlanFacts
    <3> QED BY <2>5, <3>1, <3>2 DEF CreateStage
  <2>6. CASE MkdirStage(p, Tail(plan))
    BY <2>2, <2>3, <2>6, EndFacts, NodeFacts DEF MkdirStage
  <2>7. ASSUME NEW q \in Paths, RenameStage(q, p, Tail(plan))
        PROVE  Tail(plan) # <<>>
    <3>1. Hiding(q) \in Seq(Calls) /\ Hiding(q) # <<>> /\ Revealing(p, Hiding(q)) \in Seq(Calls)
      BY EndFacts, PlanFacts
    <3> QED BY <2>2, <2>3, <2>7, <3>1 DEF RenameStage
  <2> QED BY <2>4, <2>5, <2>6, <2>7 DEF StoreStage
<1>9. req' = req /\ seen' = seen
  BY <1>4, <1>8, CallDone
<1>10. ASSUME NEW q \in Named
       PROVE  /\ q \in Paths /\ upper'[q] = upper[q] /\ (Whiteouted(q)' <=> Whiteouted(q))
              /\ Resolve(q)' = Resolve(q)
  BY <1>5, <1>7 DEF Kept, Same
<1>11. StoreStage(p, plan)'
  <2>1. CASE EnsureStage(p, Tail(plan))
    <3>1. EnsureStage(p, plan)'
      BY <1>4, <1>5, <1>9, <1>10, <2>1 DEF EnsureStage
    <3> QED BY <3>1 DEF StoreStage
  <2>2. CASE CreateStage(p, Tail(plan))
    <3>1. CreateStage(p, plan)'
      BY <1>4, <1>5, <1>9, <1>10, <2>2 DEF CreateStage
    <3> QED BY <3>1 DEF StoreStage
  <2>3. CASE MkdirStage(p, Tail(plan))
    <3>1. MkdirStage(p, plan)'
      BY <1>4, <1>5, <1>9, <1>10, <2>3 DEF MkdirStage
    <3> QED BY <3>1 DEF StoreStage
  <2>4. ASSUME NEW q \in Paths, RenameStage(q, p, Tail(plan))
        PROVE  StoreStage(p, plan)'
    <3>1. q \in Named
      BY <2>4, NamedPaths DEF RenameStage
    <3>2. Hiding(q)' = Hiding(q)
      BY <1>4 DEF Hiding, UpdateWhiteout, CreateWhiteout, RemoveWhiteout
    <3>3. RenameStage(q, p, plan)'
      BY <1>4, <1>5, <1>9, <1>10, <2>4, <3>1, <3>2 DEF RenameStage
    <3> QED BY <3>3 DEF StoreStage
  <2> QED BY <2>1, <2>2, <2>3, <2>4 DEF StoreStage
<1>12. Progress'
  BY <1>4, <1>7, <1>8, <1>11 DEF Progress
<1> QED BY <1>4, <1>7, <1>8, <1>12 DEF CarriesOn

LEMMA StorageCallCarriesOn ==
  ASSUME IInv, StorageCall
  PROVE  CarriesOn
<1>1. plan # <<>> /\ Progress
  BY CallDone DEF IInv
<1>2. PICK p \in Paths :
       \/ RemoveStage(p, plan)
       \/ StoreStage(p, plan) /\ Made(p)
       \/ plan = Making(p, Tail(plan)) /\ StoreStage(p, Tail(plan))
  BY <1>1 DEF Progress
<1> QED BY <1>2, RemoveCall, EnsureCall, CreateCall, MkdirCall, RenameCall, ParentsCall
        DEF StoreStage

(* A call leads to an outcome when it is the last one of its request. *)
LEMMA StorageCallKeeps ==
  ASSUME IInv, StorageCall
  PROVE  /\ IInv'
         /\ \/ UNCHANGED <<seen, dirty>>
            \/ \E t : Outcome(t) /\ dirty' = dirty /\ \A q \in Paths \ dirty : seen'[q] = t[q]
<1>1. /\ CarriesOn /\ TreesOK'
      /\ HistoryOK /\ Framed /\ Progress /\ plan \in Seq(Calls)
      /\ plan # <<>> /\ plan' = Tail(plan)
      /\ UNCHANGED <<lower, dirty, cuts>>
      /\ IF plan' = <<>> THEN req' = NoRequest /\ seen' = View'
                         ELSE req' = req /\ seen' = seen
  BY StorageCallCarriesOn, CallDone DEF IInv, CarriesOn
<1>2. CASE plan' # <<>>
  <2>1. req' = req /\ seen' = seen
    BY <1>1, <1>2
  <2>2. Framed'
    BY <1>1, <2>1, NamedApart, FrameKept DEF CarriesOn
  <2>3. HistoryOK'
    BY <1>1, <2>1 DEF HistoryOK, WellFormed
  <2>4. plan' \in Seq(Calls) /\ Progress'
    BY <1>1, <1>2 DEF CarriesOn
  <2> QED BY <1>1, <1>2, <2>1, <2>2, <2>3, <2>4 DEF IInv, Idle
<1>3. CASE plan' = <<>>
  <2>1. PICK t : /\ Outcome(t)
                 /\ \A q \in Paths \ (dirty \cup Named) : t[q] = seen[q]
                 /\ \A q \in Named \ dirty : (Resolve(q)' = t[q]) /\ ~Hidden(q)'
    BY <1>1, <1>3 DEF CarriesOn
  <2>2. \A q \in Paths \ dirty : (Resolve(q)' = t[q]) /\ ~Hidden(q)'
    BY <1>1, <2>1 DEF CarriesOn, Framed, Same
  <2>3. IInv' /\ \A q \in Paths \ dirty : seen'[q] = t[q]
    BY <1>1, <1>3, <2>1, <2>2, RequestEnds
  <2> QED BY <1>1, <2>1, <2>3
<1> QED BY <1>2, <1>3

-----------------------------------------------------------------------------
(* Requests begin *)

LEMMA IdleFacts ==
  ASSUME IInv, Idle
  PROVE  /\ Named = {} /\ req = NoRequest /\ seen = View
         /\ \A q \in Paths \ dirty : Resolve(q) = seen[q] /\ ~Hidden(q)
         /\ \A p \in Paths : InDirectory(p) =>
              Rooted(p) /\ Resolve(p) = seen[p]
         /\ \A p \in Paths : seen[p] # "none" =>
              /\ InDirectory(p) /\ Rooted(p) /\ Resolve(p) = seen[p] /\ ~Whiteouted(p)
              /\ upper[p] \in {"none", seen[p]}
              /\ upper[p] = "none" => lower[p] = seen[p]
<1>1. req = NoRequest /\ seen = View /\ TreesOK /\ Framed
  BY DEF IInv, Idle, Progress
<1>2. Named = {}
  BY <1>1, NothingNamed
<1>3. ASSUME NEW p \in Paths, InDirectory(p)
      PROVE  Rooted(p) /\ Resolve(p) = seen[p]
  <2>1. Rooted(p)
    BY <1>1, <1>3, ViewFacts, ParentsArePaths DEF InDirectory, Rooted
  <2> QED BY <1>1, <2>1, ViewFacts
<1>4. ASSUME NEW p \in Paths, seen[p] # "none"
      PROVE  /\ InDirectory(p) /\ Rooted(p) /\ Resolve(p) = seen[p] /\ ~Whiteouted(p)
             /\ upper[p] \in {"none", seen[p]}
             /\ upper[p] = "none" => lower[p] = seen[p]
  <2>1. InDirectory(p)
    BY <1>1, <1>4, ViewFacts DEF InDirectory, WellFormed
  <2> QED BY <1>3, <1>4, <2>1 DEF Resolve
<1> QED BY <1>1, <1>2, <1>3, <1>4 DEF Framed

LEMMA Begun ==
  ASSUME IInv, NEW op, NEW paths, NEW calls, Begin(op, paths, calls),
         \A i \in DOMAIN paths : paths[i] \in Paths /\ InDirectory(paths[i]),
         calls \in Seq(Calls), Progress'
  PROVE  IInv'
<1>1. /\ Idle /\ plan' = calls /\ calls # <<>> /\ req'.paths = paths
      /\ UNCHANGED <<lower, upper, white, open, seen, dirty, cuts>>
  BY DEF Begin
<1>2. TreesOK'
  BY <1>1 DEF IInv, TreesOK, WellFormed
<1>3. HistoryOK'
  BY <1>1 DEF IInv, HistoryOK, WellFormed
<1>4. Named' = {paths[i] : i \in DOMAIN paths}
  BY <1>1 DEF Named
<1>5. \A q \in Paths : Resolve(q)' = Resolve(q) /\ (Hidden(q)' <=> Hidden(q))
  BY <1>1 DEF Resolve, Hidden, Whiteouted
<1>6. \A q \in Paths \ dirty : Resolve(q) = seen[q] /\ ~Hidden(q)
  BY <1>1, IdleFacts
<1>7. ASSUME NEW p \in Named'
      PROVE  Rooted(p)' /\ \A q \in Parents[p] : seen'[q] = "dir"
  <2>1. p \in Paths /\ InDirectory(p)
    BY <1>4
  <2>2. Rooted(p)
    BY <1>1, <2>1, IdleFacts
  <2> QED BY <1>1, <1>5, <2>1, <2>2, ParentsArePaths DEF Rooted, InDirectory
<1>8. Framed'
  BY <1>1, <1>5, <1>6, <1>7 DEF Framed
<1> QED BY <1>1, <1>2, <1>3, <1>8 DEF IInv, Idle

LEMMA ConcatAssoc ==
  \A u, v, w \in Seq(Calls) : u \o v \in Seq(Calls) /\ (u \o v) \o w = u \o (v \o w)
OBVIOUS

LEMMA OneThen ==
  ASSUME NEW c \in Calls, NEW e \in Seq(Calls)
  PROVE  <<c>> \in Seq(Calls) /\ <<c>> \o e = Cons(c, e)
BY DEF Cons

LEMMA CopyNodeThen ==
  ASSUME NEW p \in Paths, NEW v \in Node, NEW e \in Seq(Calls)
  PROVE  /\ CopyNode(v, p) \in Seq(Calls)
         /\ CopyNode(v, p) \o e = IF v = "dir" THEN Filling(p, v, e) ELSE Copying(p, v, e)
<1>1. Put(p, v) \in Calls /\ Put(p, "torn") \in Calls
  BY CallsFacts DEF Node
<1>2. <<Put(p, v)>> \in Seq(Calls) /\ <<Put(p, "torn"), Put(p, v)>> \in Seq(Calls)
  BY <1>1
<1>3. <<Put(p, v)>> \o e = Filling(p, v, e)
  BY <1>1, ConsConcat DEF Filling
<1>4. <<Put(p, "torn"), Put(p, v)>> \o e = Copying(p, v, e)
  BY <1>1, ConsConcat DEF Filling, Copying
<1> QED BY <1>2, <1>3, <1>4 DEF CopyNode

LEMMA MakingThen ==
  ASSUME NEW p \in Paths, NEW f \in Seq(Calls), NEW e \in Seq(Calls)
  PROVE  Making(p, f) \o e = Making(p, f \o e)
<1>1. MakeParents(p) \in Calls
  BY CallsFacts
<1> QED BY <1>1, ConsAssoc DEF Making

LEMMA FillingThen ==
  ASSUME NEW p \in Paths, NEW v \in Node, NEW f \in Seq(Calls), NEW e \in Seq(Calls)
  PROVE  Filling(p, v, f) \o e = Filling(p, v, f \o e)
<1>1. Put(p, v) \in Calls
  BY CallsFacts
<1> QED BY <1>1, ConsAssoc DEF Filling

LEMMA CopyingThen ==
  ASSUME NEW p \in Paths, NEW v \in Node, NEW f \in Seq(Calls), NEW e \in Seq(Calls)
  PROVE  Copying(p, v, f) \o e = Copying(p, v, f \o e)
<1>1. Filling(p, v, f) \in Seq(Calls) /\ "torn" \in Node
  BY FillingFacts DEF Node
<1>2. Filling(p, "torn", Filling(p, v, f)) \o e = Filling(p, "torn", Filling(p, v, f) \o e)
  BY <1>1, FillingThen
<1>3. Filling(p, v, f) \o e = Filling(p, v, f \o e)
  BY FillingThen
<1> QED BY <1>2, <1>3 DEF Copying

LEMMA EnsurePlan ==
  ASSUME TreesOK, NEW p \in Paths, NEW e \in Seq(Calls),
         ~Whiteouted(p), Resolve(p) # "none"
  PROVE  /\ EnsureUpperForWrite(p) \in Seq(Calls)
         /\ EnsureUpperForWrite(p) \o e =
              IF upper[p] # "none" THEN e
              ELSE Making(p, IF lower[p] = "dir"
                             THEN Filling(p, lower[p], Revealing(p, e))
                             ELSE Copying(p, lower[p], Revealing(p, e)))
<1>1. CASE upper[p] # "none"
  <2>1. <<>> \in Seq(Calls) /\ <<>> \o e = e
    OBVIOUS
  <2> QED BY <1>1, <2>1 DEF EnsureUpperForWrite
<1>2. CASE upper[p] = "none"
  <2> DEFINE m == <<MakeParents(p)>>
             c == CopyNode(lower[p], p)
             r == <<RemoveWhiteout(p)>>
             Copied(f) == IF lower[p] = "dir" THEN Filling(p, lower[p], f)
                                              ELSE Copying(p, lower[p], f)
  <2>1. EnsureUpperForWrite(p) = (m \o c) \o r
    BY <1>2 DEF EnsureUpperForWrite
  <2>2. lower[p] \in Node
    BY DEF TreesOK, Node
  <2>3. r \in Seq(Calls) /\ r \o e = Revealing(p, e) /\ Revealing(p, e) \in Seq(Calls)
    <3>1. Revealing(p, e) \in Seq(Calls)
      BY PlanFacts
    <3>2. RemoveWhiteout(p) \in Calls
      BY CallsFacts
    <3> QED BY <3>1, <3>2, OneThen DEF Revealing
  <2> HIDE DEF r
  <2>4. c \in Seq(Calls) /\ c \o r = Copied(r) /\ Copied(r) \in Seq(Calls)
    BY <2>2, <2>3, CopyNodeThen, FillingFacts, CopyingFacts
  <2> HIDE DEF c
  <2>5. m \o c = Making(p, c)
    <3>1. MakeParents(p) \in Calls
      BY CallsFacts
    <3> QED BY <2>4, <3>1, OneThen DEF Making
  <2> HIDE DEF m
  <2>6. (m \o c) \o r = Making(p, Copied(r))
    <3>1. Making(p, c) \o r = Making(p, c \o r)
      BY <2>3, <2>4, MakingThen
    <3> HIDE DEF Copied
    <3> QED BY <2>4, <2>5, <3>1
  <2>7. Making(p, Copied(r)) \in Seq(Calls)
    BY <2>4, PlanFacts
  <2>8. Copied(r) \o e = Copied(Revealing(p, e))
    <3>1. Filling(p, lower[p], r) \o e = Filling(p, lower[p], r \o e)
      BY <2>2, <2>3, FillingThen
    <3>2. Copying(p, lower[p], r) \o e = Copying(p, lower[p], r \o e)
      BY <2>2, <2>3, CopyingThen
    <3> QED BY <2>3, <3>1, <3>2
  <2>9. Making(p, Copied(r)) \o e = Making(p, Copied(r) \o e)
    <3> HIDE DEF Copied
    <3> QED BY <2>4, MakingThen
  <2> QED BY <1>2, <2>1, <2>6, <2>7, <2>8, <2>9
<1> QED BY <1>1, <1>2

LEMMA TruncationIsEnding ==
  ASSUME NEW p \in Paths, NEW truncate \in BOOLEAN
  PROVE  /\ Truncation(p, truncate) \in Endings(p)
         /\ Truncation(p, truncate) # <<>> => truncate
         /\ \A h \in Handles : Truncation(p, truncate) \o <<Bind(h, p)>> \in Endings(p)
<1>1. Put(p, "empty") \in Calls
  BY CallsFacts DEF Node
<1>2. <<Put(p, "empty")>> = Filling(p, "empty", <<>>)
  BY <1>1, Cells, EndFacts DEF Filling
<1>3. ASSUME NEW h \in Handles
      PROVE  Truncation(p, truncate) \o <<Bind(h, p)>> \in Endings(p)
  <2>1. Bind(h, p) \in Calls
    BY CallsFacts
  <2>2. <<Bind(h, p)>> = Binding(h, p) /\ Binding(h, p) \in Seq(Calls)
    BY <2>1, Cells, EndFacts DEF Binding
  <2>3. <<>> \o Binding(h, p) = Binding(h, p)
    BY <2>2
  <2>4. <<Put(p, "empty")>> \o Binding(h, p) = Filling(p, "empty", Binding(h, p))
    BY <1>1, <2>2, ConsConcat DEF Filling
  <2> QED BY <2>2, <2>3, <2>4 DEF Truncation, Endings, Bindings
<1>4. Truncation(p, truncate) \in Endings(p)
  BY <1>2 DEF Truncation, Endings, Bindings
<1> QED BY <1>3, <1>4 DEF Truncation

LEMMA EnsureBegins ==
  ASSUME IInv, NEW p \in Paths, NEW op \in {"setattr", "open"}, NEW e \in Endings(p),
         e # <<>> => IsFile(seen[p]), seen[p] # "none",
         Begin(op, <<p>>, EnsureUpperForWrite(p) \o e)
  PROVE  IInv'
<1>1. /\ Idle /\ plan' = EnsureUpperForWrite(p) \o e /\ plan' # <<>>
      /\ req' = [op |-> op, paths |-> <<p>>, stored |-> upper[p] # "none"]
      /\ UNCHANGED <<lower, upper, white, open, seen, dirty, cuts>>
  BY DEF Begin
<1>2. /\ InDirectory(p) /\ Rooted(p) /\ Resolve(p) = seen[p] /\ ~Whiteouted(p)
      /\ upper[p] \in {"none", seen[p]}
      /\ upper[p] = "none" => lower[p] = seen[p]
  BY <1>1, IdleFacts
<1>3. TreesOK /\ e \in Seq(Calls)
  BY EndingsArePlans DEF IInv
<1>4. /\ EnsureUpperForWrite(p) \in Seq(Calls)
      /\ plan' = IF upper[p] # "none" THEN e
                 ELSE Making(p, IF lower[p] = "dir"
                                THEN Filling(p, lower[p], Revealing(p, e))
                                ELSE Copying(p, lower[p], Revealing(p, e)))
  BY <1>1, <1>2, <1>3, EnsurePlan
<1>5. ~Whiteouted(p)' /\ req'.op \in {"setattr", "open"} /\ req'.paths = <<p>>
  BY <1>1, <1>2 DEF Whiteouted
<1>6. Progress'
  <2>1. CASE upper[p] # "none"
    <3>1. EnsureStage(p, plan)'
      BY <1>1, <1>2, <1>4, <1>5, <2>1 DEF EnsureStage
    <3>2. Made(p)'
      BY <1>1, <1>3, <2>1 DEF Made, TreesOK, WellFormed
    <3> QED BY <1>1, <3>1, <3>2 DEF Progress, StoreStage
  <2>2. CASE upper[p] = "none"
    <3>1. PICK rest \in Seq(Calls) :
            /\ plan' = Making(p, rest)
            /\ rest = IF lower[p] = "dir" THEN Filling(p, lower[p], Revealing(p, e))
                                          ELSE Copying(p, lower[p], Revealing(p, e))
      <4>1. Revealing(p, e) \in Seq(Calls) /\ lower[p] \in Node
        BY <1>3, PlanFacts DEF TreesOK, Node
      <4> QED BY <1>4, <2>2, <4>1, FillingFacts, CopyingFacts
    <3>2. Tail(plan') = rest
      BY <3>1, PlanFacts
    <3>3. EnsureStage(p, Tail(plan))'
      BY <1>1, <1>2, <1>5, <2>2, <3>1, <3>2 DEF EnsureStage, IsFile
    <3>4. plan' = Making(p, Tail(plan))'
      BY <3>1, <3>2 DEF Making, MakeParents
    <3> QED BY <1>1, <3>3, <3>4 DEF Progress, StoreStage
  <2> QED BY <2>1, <2>2
<1>7. plan' \in Seq(Calls)
  BY <1>1, <1>3, <1>4, ConcatAssoc
<1>8. \A i \in DOMAIN <<p>> : <<p>>[i] \in Paths /\ InDirectory(<<p>>[i])
  BY <1>2
<1> QED BY <1>1, <1>6, <1>7, <1>8, Begun

LEMMA SetattrBegins ==
  ASSUME IInv, NEW p \in Paths, NEW truncate \in BOOLEAN, Setattr(p, truncate)
  PROVE  IInv'
<1>1. /\ seen[p] # "none" /\ (truncate => IsFile(seen[p]))
      /\ Begin("setattr", <<p>>, EnsureUpperForWrite(p) \o Truncation(p, truncate))
  BY DEF Setattr
<1> QED BY <1>1, TruncationIsEnding, EnsureBegins

LEMMA OpenBegins ==
  ASSUME IInv, NEW p \in Paths, NEW h \in Handles, NEW truncate \in BOOLEAN,
         Open(h, p, truncate)
  PROVE  IInv'
<1> DEFINE e == Truncation(p, truncate) \o <<Bind(h, p)>>
<1>1. /\ IsFile(seen[p]) /\ Idle
      /\ Begin("open", <<p>>, (EnsureUpperForWrite(p) \o Truncation(p, truncate)) \o <<Bind(h, p)>>)
  BY DEF Open, Begin
<1>2. seen[p] # "none"
  BY <1>1 DEF IsFile
<1>3. /\ EnsureUpperForWrite(p) \in Seq(Calls)
      /\ Truncation(p, truncate) \in Seq(Calls) /\ <<Bind(h, p)>> \in Seq(Calls)
  <2>1. Truncation(p, truncate) \in Seq(Calls)
    BY TruncationIsEnding, EndingsArePlans
  <2>2. Bind(h, p) \in Calls
    BY CallsFacts
  <2>3. TreesOK /\ ~Whiteouted(p) /\ Resolve(p) # "none" /\ <<>> \in Seq(Calls)
    BY <1>1, <1>2, IdleFacts, EndFacts DEF IInv
  <2>4. EnsureUpperForWrite(p) \in Seq(Calls)
    BY <2>3, EnsurePlan
  <2> QED BY <2>1, <2>2, <2>4
<1>4. (EnsureUpperForWrite(p) \o Truncation(p, truncate)) \o <<Bind(h, p)>>
        = EnsureUpperForWrite(p) \o e
  BY <1>3, ConcatAssoc
<1>5. e \in Endings(p)
  BY TruncationIsEnding
<1> HIDE DEF e
<1>6. Begin("open", <<p>>, EnsureUpperForWrite(p) \o e)
  BY <1>1, <1>4
<1> QED BY <1>1, <1>2, <1>5, <1>6, EnsureBegins

(* What is not seen between requests is not stored, unless a request was cut  *)
(* off there.                                                                 *)
LEMMA Unseen ==
  ASSUME IInv, Idle, NEW p \in Paths, InDirectory(p)
  PROVE  /\ Whiteouted(p) => seen[p] = "none"
         /\ ~Whiteouted(p) => upper[p] \in {"none", seen[p]}
         /\ p \notin dirty => upper[p] \in {"none", seen[p]}
<1>1. Resolve(p) = seen[p] /\ (p \notin dirty => ~Hidden(p))
  BY IdleFacts
<1> QED BY <1>1 DEF Resolve, Hidden

(* A request whose first call makes the parents. *)
LEMMA MakingBegins ==
  ASSUME IInv, NEW op, NEW paths, NEW p \in Paths, NEW rest \in Seq(Calls),
         Begin(op, paths, Making(p, rest)),
         \A i \in DOMAIN paths : paths[i] \in Paths /\ InDirectory(paths[i]),
         Tail(plan') = rest => StoreStage(p, Tail(plan))'
  PROVE  IInv'
<1>1. plan' = Making(p, rest)
  BY DEF Begin
<1>2. Making(p, rest) \in Seq(Calls) /\ Making(p, rest) # <<>> /\ Tail(Making(p, rest)) = rest
  BY PlanFacts
<1>3. Tail(plan') = rest
  BY <1>1, <1>2
<1>4. plan' = Making(p, Tail(plan))'
  BY <1>1, <1>3 DEF Making, MakeParents
<1>5. Progress'
  BY <1>1, <1>2, <1>3, <1>4 DEF Progress
<1> QED BY <1>2, <1>5, Begun

LEMMA CreateBegins ==
  ASSUME IInv, NEW p \in Paths, NEW h \in Handles, Create(h, p)
  PROVE  IInv'
<1> DEFINE e == Binding(h, p)
           rest == Creating(p, Revealing(p, e))
           calls == <<MakeParents(p), OpenOrCreate(p), RemoveWhiteout(p), Bind(h, p)>>
<1>1. InDirectory(p) /\ seen[p] = "none" /\ Begin("create", <<p>>, calls)
  BY DEF Create
<1>2. calls = Making(p, rest)
  BY CallsFacts, Cells DEF Making, Creating, Revealing, Binding
<1>3. e \in Seq(Calls) /\ Revealing(p, e) \in Seq(Calls) /\ rest \in Seq(Calls)
  BY EndFacts, PlanFacts
<1>4. /\ Idle /\ req'.op = "create" /\ req'.paths = <<p>>
      /\ UNCHANGED <<lower, upper, white, open, seen, dirty, cuts>>
  BY <1>1 DEF Begin
<1>5. p \notin dirty => upper[p] = "none"
  BY <1>1, <1>4, Unseen
<1>6. ASSUME Tail(plan') = rest
      PROVE  StoreStage(p, Tail(plan))'
  <2>1. Tail(plan)' = Creating(p, Revealing(p, Binding(h, p)))
    BY <1>6
  <2>2. CreateStage(p, Tail(plan))'
    BY <1>1, <1>4, <1>5, <2>1 DEF CreateStage
  <2> QED BY <2>2 DEF StoreStage
<1>7. \A i \in DOMAIN <<p>> : <<p>>[i] \in Paths /\ InDirectory(<<p>>[i])
  BY <1>1
<1> HIDE DEF rest, calls
<1> QED BY <1>1, <1>2, <1>3, <1>6, <1>7, MakingBegins

LEMMA MkdirBegins ==
  ASSUME IInv, NEW p \in Paths, Mkdir(p)
  PROVE  IInv'
<1> DEFINE rest == Filling(p, "dir", Revealing(p, <<>>))
           calls == <<MakeParents(p), Put(p, "dir"), RemoveWhiteout(p)>>
<1>1. InDirectory(p) /\ seen[p] = "none" /\ upper[p] = "none" /\ Begin("mkdir", <<p>>, calls)
  BY DEF Mkdir
<1>2. calls = Making(p, rest)
  <2>1. /\ MakeParents(p) \in Calls
        /\ Put(p, "dir") \in Calls
        /\ RemoveWhiteout(p) \in Calls
    BY CallsFacts DEF Node
  <2> QED BY <2>1, Cells DEF Making, Filling, Revealing
<1>3. Revealing(p, <<>>) \in Seq(Calls) /\ rest \in Seq(Calls)
  <2>1. Revealing(p, <<>>) \in Seq(Calls)
    BY EndFacts, PlanFacts
  <2> QED BY <2>1, FillingFacts, NodeFacts
<1>4. /\ req'.op = "mkdir" /\ req'.paths = <<p>>
      /\ UNCHANGED <<lower, upper, white, open, seen, dirty, cuts>>
  BY <1>1 DEF Begin
<1>5. ASSUME Tail(plan') = rest
      PROVE  StoreStage(p, Tail(plan))'
  <2>1. Tail(plan)' = Filling(p, "dir", Revealing(p, <<>>))
    BY <1>5
  <2>2. MkdirStage(p, Tail(plan))'
    BY <1>1, <1>4, <2>1 DEF MkdirStage
  <2> QED BY <2>2 DEF StoreStage
<1>6. \A i \in DOMAIN <<p>> : <<p>>[i] \in Paths /\ InDirectory(<<p>>[i])
  BY <1>1
<1> HIDE DEF rest, calls
<1> QED BY <1>1, <1>2, <1>3, <1>5, <1>6, MakingBegins

LEMMA RemoveBegins ==
  ASSUME IInv, NEW p \in Paths, NEW op \in {"unlink", "rmdir"}, seen[p] # "none",
         IsFile(seen[p]) \/ \A q \in Children[p] \ dirty : seen[q] = "none",
         Begin(op, <<p>>, RemovePlan(p))
  PROVE  IInv'
<1>1. /\ Idle /\ plan' = RemovePlan(p) /\ plan' # <<>>
      /\ req'.op \in {"unlink", "rmdir"} /\ req'.paths = <<p>>
      /\ UNCHANGED <<lower, upper, white, open, seen, dirty, cuts>>
  BY DEF Begin
<1>2. InDirectory(p) /\ ~Whiteouted(p) /\ upper[p] \in {"none", seen[p]}
  BY <1>1, IdleFacts
<1>3. UpdateWhiteout(p) \in Calls /\ RemoveEntry(p) \in Calls
  BY CallsFacts DEF UpdateWhiteout
<1>4. <<UpdateWhiteout(p)>> = Hiding(p) /\ Hiding(p) \in Seq(Calls)
  BY <1>3, Cells, EndFacts DEF Hiding
<1>5. <<RemoveEntry(p)>> \o Hiding(p) = Removing(p, Hiding(p)) /\ <<>> \o Hiding(p) = Hiding(p)
  <2>1. <<>> \o Hiding(p) = Hiding(p)
    BY <1>4
  <2> QED BY <1>3, <1>4, <2>1, OneThen DEF Removing
<1>6. plan' = IF upper[p] # "none" THEN Removing(p, Hiding(p)) ELSE Hiding(p)
  BY <1>1, <1>4, <1>5 DEF RemovePlan
<1>7. plan' \in Seq(Calls)
  BY <1>4, <1>6, PlanFacts
<1>8. Hiding(p)' = Hiding(p)
  BY <1>1 DEF Hiding, UpdateWhiteout, CreateWhiteout, RemoveWhiteout
<1>9. plan' = IF upper[p] # "none" THEN Removing(p, Hiding(p))' ELSE Hiding(p)'
  BY <1>6, <1>8 DEF Removing, RemoveEntry
<1>10. ~Whiteouted(p)'
  BY <1>1, <1>2 DEF Whiteouted
<1>11. RemoveStage(p, plan)'
  BY <1>1, <1>2, <1>9, <1>10 DEF RemoveStage
<1>12. Progress'
  BY <1>1, <1>11 DEF Progress
<1>13. \A i \in DOMAIN <<p>> : <<p>>[i] \in Paths /\ InDirectory(<<p>>[i])
  BY <1>2
<1> QED BY <1>1, <1>7, <1>12, <1>13, Begun

LEMMA RmdirBegins ==
  ASSUME IInv, NEW p \in Paths, Rmdir(p)
  PROVE  IInv'
<1>1. seen[p] = "dir" /\ Listed(p) = {} /\ Begin("rmdir", <<p>>, RemovePlan(p)) /\ Idle
  BY DEF Rmdir, Begin
<1>2. ASSUME NEW q \in Children[p] \ dirty
      PROVE  seen[q] = "none"
  <2>1. q \in Paths /\ Resolve(q) = seen[q]
    BY <1>1, IdleFacts, ChildrenAreBelow
  <2>2. Whiteouted(q) \/ (lower[q] = "none" /\ upper[q] = "none")
    BY <1>1 DEF Listed
  <2> QED BY <2>1, <2>2 DEF Resolve
<1> QED BY <1>1, <1>2, RemoveBegins

LEMMA RenameBegins ==
  ASSUME IInv, RenameDirs = FALSE, NEW from \in Paths, NEW to \in Paths, Rename(from, to)
  PROVE  IInv'
<1> DEFINE e == Revealing(to, Hiding(from))
           rest == IF upper[from] # "none" THEN Moving(from, to, e)
                   ELSE Copying(to, seen[from], e)
<1>1. /\ IsFile(seen[from]) /\ InDirectory(to)
      /\ to \notin Below[from] /\ from \notin Below[to]
      /\ seen[to] = "none" \/ IsFile(seen[to])
      /\ Begin("rename", <<from, to>>, RenamePlan(from, to))
  BY DEF Rename
<1>2. /\ Idle /\ req'.op = "rename" /\ req'.paths = <<from, to>>
      /\ req'.stored <=> upper[from] # "none"
      /\ UNCHANGED <<lower, upper, white, open, seen, dirty, cuts>>
  <2>1. <<from, to>>[1] = from
    OBVIOUS
  <2> QED BY <1>1, <2>1 DEF Begin
<1>3. /\ InDirectory(from) /\ ~Whiteouted(from) /\ upper[from] \in {"none", seen[from]}
      /\ upper[from] = "none" => lower[from] = seen[from]
      /\ seen[from] \in Node
  BY <1>1, <1>2, IdleFacts DEF IsFile, IInv, HistoryOK
<1>4. /\ Resolve(to) = seen[to]
      /\ Whiteouted(to) => seen[to] = "none"
      /\ to \notin dirty => upper[to] # "dir"
  <2>1. upper[to] \in {"none", seen[to]} => upper[to] # "dir"
    BY <1>1 DEF IsFile
  <2> QED BY <1>1, <1>2, <2>1, IdleFacts, Unseen
<1>5. /\ Hiding(from) \in Seq(Calls)
      /\ e \in Seq(Calls)
      /\ Moving(from, to, e) \in Seq(Calls)
      /\ Copying(to, seen[from], e) \in Seq(Calls)
  <2>1. Hiding(from) \in Seq(Calls)
    BY EndFacts
  <2>2. e \in Seq(Calls)
    BY <2>1, PlanFacts
  <2> HIDE DEF e
  <2>3. Moving(from, to, e) \in Seq(Calls)
    BY <2>2, PlanFacts
  <2> QED BY <1>3, <2>1, <2>2, <2>3, CopyingFacts
<1>6. /\ MakeParents(to) \in Calls
      /\ Move(from, to) \in Calls
      /\ RemoveWhiteout(to) \in Calls
      /\ UpdateWhiteout(from) \in Calls
  BY CallsFacts DEF UpdateWhiteout
<1>7. RenamePlan(from, to) = Making(to, rest)
  <2>1. CASE upper[from] # "none"
    <3>1. <<Move(from, to), RemoveWhiteout(to), UpdateWhiteout(from)>> = Moving(from, to, e)
      BY <1>6, Cells DEF Moving, Revealing, Hiding
    <3>2. <<MakeParents(to)>> \o Moving(from, to, e) = Making(to, Moving(from, to, e))
      BY <1>5, <1>6, OneThen DEF Making
    <3> QED BY <2>1, <3>1, <3>2 DEF RenamePlan
  <2>2. CASE upper[from] = "none"
    <3>1. lower[from] = seen[from] /\ lower[from] # "none" /\ IsFile(lower[from])
      BY <1>1, <1>3, <2>2 DEF IsFile
    <3>2. UpdateWhiteout(from) = CreateWhiteout(from)
      BY <3>1 DEF UpdateWhiteout
    <3>3. <<RemoveWhiteout(to), CreateWhiteout(from)>> = e
      BY <1>6, <3>2, Cells DEF Revealing, Hiding
    <3>4. CopyTree(from, to) = CopyNode(seen[from], to)
      BY <3>1, CopyOfFile DEF IInv, TreesOK
    <3>5. CopyNode(seen[from], to) \o e = Copying(to, seen[from], e)
      BY <1>1, <1>3, <1>5, CopyNodeThen DEF IsFile
    <3>6. <<MakeParents(to)>> \o Copying(to, seen[from], e) = Making(to, Copying(to, seen[from], e))
      BY <1>5, <1>6, OneThen DEF Making
    <3> HIDE DEF e
    <3> QED BY <2>2, <3>3, <3>4, <3>5, <3>6 DEF RenamePlan
  <2> QED BY <2>1, <2>2
<1>8. rest \in Seq(Calls)
  BY <1>5
<1>9. Hiding(from)' = Hiding(from)
  BY <1>2 DEF Hiding, UpdateWhiteout, CreateWhiteout, RemoveWhiteout
<1>10. e' = e
  BY <1>9 DEF Revealing, RemoveWhiteout
<1>11. /\ ~Whiteouted(from)' /\ (Whiteouted(to)' <=> Whiteouted(to))
       /\ Resolve(to)' = Resolve(to)
  BY <1>2, <1>3 DEF Whiteouted, Resolve
<1>12. ASSUME Tail(plan') = rest
       PROVE  StoreStage(to, Tail(plan))'
  <2>1. CASE upper[from] # "none"
    <3>1. Tail(plan)' = Moving(from, to, Revealing(to, Hiding(from)))'
      BY <1>10, <1>12, <2>1 DEF Moving, Move
    <3>2. RenameStage(from, to, Tail(plan))'
      BY <1>1, <1>2, <1>3, <1>4, <1>11, <2>1, <3>1 DEF RenameStage
    <3> QED BY <3>2 DEF StoreStage
  <2>2. CASE upper[from] = "none"
    <3>1. Tail(plan)' = Copying(to, seen[from], Revealing(to, Hiding(from)))'
      BY <1>2, <1>10, <1>12, <2>2 DEF Copying, Filling, Put
    <3>2. RenameStage(from, to, Tail(plan))'
      BY <1>1, <1>2, <1>3, <1>4, <1>11, <2>2, <3>1 DEF RenameStage
    <3> QED BY <3>2 DEF StoreStage
  <2> QED BY <2>1, <2>2
<1>13. \A i \in DOMAIN <<from, to>> : <<from, to>>[i] \in Paths /\ InDirectory(<<from, to>>[i])
  BY <1>1, <1>3
<1> HIDE DEF e, rest
<1> QED BY <1>1, <1>7, <1>8, <1>12, <1>13, MakingBegins
-----------------------------------------------------------------------------
(* No storage call fails for what earlier requests have left *)

LEMMA HidingWorks ==
  ASSUME TreesOK, NEW p \in Paths, Rooted(p)
  PROVE  Works(UpdateWhiteout(p))
<1>1. \A q \in Parents[p] : white[q] # "file"
  BY DEF Rooted, Resolve, Whiteouted
<1>2. Works(RemoveWhiteout(p)) /\ Works(CreateWhiteout(p))
  BY <1>1, WorksFacts
<1> QED BY <1>2 DEF UpdateWhiteout

LEMMA NoneFails ==
  ASSUME IInv, cuts = 0, plan # <<>>
  PROVE  Works(Head(plan))
<1>1. dirty = {} /\ TreesOK /\ WellFormed(upper) /\ plan \in Seq(Calls) /\ seen \in [Paths -> Node]
  BY DEF IInv, HistoryOK, TreesOK
<1>2. Named \subseteq Paths /\ \A p \in Named : Named \cap Parents[p] = {}
  BY NamedApart DEF IInv
<1>3. \A p \in Named : Rooted(p)
  BY DEF IInv, Framed
<1>4. ASSUME NEW q \in Paths \ Named
      PROVE  Resolve(q) = seen[q] /\ ~Hidden(q)
  BY <1>1, <1>4 DEF IInv, Framed
<1>5. ASSUME NEW p \in Paths, RemoveStage(p, plan)
      PROVE  Works(Head(plan))
  <2>1. Named = {p}
    BY <1>5, NamedPaths DEF RemoveStage
  <2>2. CASE plan = Hiding(p)
    BY <1>1, <1>3, <2>1, <2>2, HidingWorks, EndFacts
  <2>3. CASE plan = Removing(p, Hiding(p)) /\ upper[p] = seen[p]
    <3>1. Head(plan) = RemoveEntry(p)
      BY <2>3, EndFacts, PlanFacts
    <3>2. ASSUME NEW q \in Children[p]
          PROVE  upper[q] = "none"
      <4>1. q \in Paths /\ p \in Parents[q] /\ q # p
        BY ChildrenAreBelow, ParentsOrder
      <4>2. CASE IsFile(seen[p])
        BY <1>1, <2>3, <4>1, <4>2 DEF WellFormed, IsFile
      <4>3. CASE \A r \in Children[p] \ dirty : seen[r] = "none"
        <5>1. Resolve(q) = "none" /\ ~Hidden(q)
          BY <1>1, <1>4, <2>1, <4>1, <4>3
        <5> QED BY <5>1 DEF Resolve, Hidden
      <4> QED BY <1>5, <4>2, <4>3 DEF RemoveStage
    <3> QED BY <3>1, <3>2, WorksFacts
  <2> QED BY <1>5, <2>2, <2>3 DEF RemoveStage
<1>6. ASSUME NEW p \in Paths, StoreStage(p, Tail(plan)), plan = Making(p, Tail(plan))
      PROVE  Works(Head(plan))
  <2>1. p \in Named
    BY <1>6, NamedPaths DEF StoreStage, EnsureStage, CreateStage, MkdirStage, RenameStage
  <2>2. Tail(plan) \in Seq(Calls)
    BY <1>1
  <2>3. Head(plan) = MakeParents(p)
    BY <1>6, <2>2, PlanFacts
  <2>4. ASSUME NEW q \in Parents[p]
        PROVE  upper[q] \in {"none", "dir"}
    BY <1>3, <2>1 DEF Rooted, Resolve
  <2> QED BY <2>3, <2>4, WorksFacts
<1>7. ASSUME NEW p \in Paths, EnsureStage(p, plan), Made(p)
      PROVE  Works(Head(plan))
  <2>1. PICK e \in Endings(p) :
          /\ e # <<>> => IsFile(seen[p])
          /\ \/ /\ plan = Copying(p, seen[p], Revealing(p, e))
                /\ IsFile(seen[p]) /\ upper[p] = "none"
             \/ /\ plan = Filling(p, seen[p], Revealing(p, e))
                /\ upper[p] = IF IsFile(seen[p]) THEN "torn" ELSE "none"
             \/ /\ plan = Revealing(p, e)
                /\ upper[p] = seen[p]
             \/ /\ plan = e /\ e # <<>>
                /\ upper[p] \in {seen[p], "empty"}
    BY <1>7 DEF EnsureStage
  <2>2. e \in Seq(Calls) /\ Revealing(p, e) \in Seq(Calls)
    BY EndingsArePlans, PlanFacts
  <2>3. seen[p] \in Node /\ "empty" \in Node
    BY <1>1 DEF Node
  <2>4. CASE plan = Copying(p, seen[p], Revealing(p, e)) /\ upper[p] = "none"
    BY <1>7, <2>2, <2>3, <2>4, CopyingFacts, WorksFacts
  <2>5. CASE /\ plan = Filling(p, seen[p], Revealing(p, e))
             /\ upper[p] = IF IsFile(seen[p]) THEN "torn" ELSE "none"
    <3>1. Head(plan) = Put(p, seen[p])
      BY <2>2, <2>3, <2>5, FillingFacts
    <3>2. upper[p] # "none" => (upper[p] = "dir" <=> seen[p] = "dir")
      BY <2>5 DEF IsFile
    <3> QED BY <1>7, <3>1, <3>2, WorksFacts
  <2>6. CASE plan = Revealing(p, e)
    <3>1. Head(plan) = RemoveWhiteout(p)
      BY <2>2, <2>6, PlanFacts
    <3> QED BY <3>1, WorksFacts
  <2>7. CASE plan = e /\ e # <<>> /\ upper[p] \in {seen[p], "empty"}
    <3>1. upper[p] # "dir"
      BY <2>1, <2>7 DEF IsFile
    <3>2. ASSUME NEW h \in Handles, plan = Binding(h, p)
          PROVE  Works(Head(plan))
      BY <3>2, EndFacts, WorksFacts
    <3>3. ASSUME NEW b \in Bindings(p), plan = Filling(p, "empty", b)
          PROVE  Works(Head(plan))
      <4>1. b \in Seq(Calls)
        BY EndFacts DEF Bindings
      <4>2. Head(plan) = Put(p, "empty")
        BY <2>3, <3>3, <4>1, FillingFacts
      <4> QED BY <1>7, <3>1, <4>2, WorksFacts
    <3> QED BY <2>7, <3>2, <3>3 DEF Endings, Bindings
  <2> QED BY <2>1, <2>4, <2>5, <2>6, <2>7
<1>8. ASSUME NEW p \in Paths, CreateStage(p, plan)
      PROVE  Works(Head(plan))
  <2>1. PICK h \in Handles :
          \/ /\ plan = Creating(p, Revealing(p, Binding(h, p)))
             /\ p \notin dirty => upper[p] = "none"
          \/ plan = Revealing(p, Binding(h, p))
          \/ plan = Binding(h, p)
    BY <1>8 DEF CreateStage
  <2>2. Binding(h, p) \in Seq(Calls) /\ Revealing(p, Binding(h, p)) \in Seq(Calls)
    BY EndFacts, PlanFacts
  <2>3. CASE plan = Creating(p, Revealing(p, Binding(h, p))) /\ upper[p] = "none"
    <3>1. Head(plan) = OpenOrCreate(p)
      BY <2>2, <2>3, PlanFacts
    <3> QED BY <2>3, <3>1, WorksFacts
  <2>4. CASE plan = Revealing(p, Binding(h, p))
    <3>1. Head(plan) = RemoveWhiteout(p)
      BY <2>2, <2>4, PlanFacts
    <3> QED BY <3>1, WorksFacts
  <2>5. CASE plan = Binding(h, p)
    BY <2>5, EndFacts, WorksFacts
  <2> QED BY <1>1, <2>1, <2>3, <2>4, <2>5
<1>9. ASSUME NEW p \in Paths, MkdirStage(p, plan), Made(p)
      PROVE  Works(Head(plan))
  <2>1. <<>> \in Seq(Calls) /\ Revealing(p, <<>>) \in Seq(Calls) /\ "dir" \in Node
    BY EndFacts, PlanFacts DEF Node
  <2>2. CASE plan = Filling(p, "dir", Revealing(p, <<>>)) /\ upper[p] = "none"
    BY <1>9, <2>1, <2>2, FillingFacts, WorksFacts
  <2>3. CASE plan = Revealing(p, <<>>)
    <3>1. Head(plan) = RemoveWhiteout(p)
      BY <2>1, <2>3, PlanFacts
    <3> QED BY <3>1, WorksFacts
  <2> QED BY <1>9, <2>2, <2>3 DEF MkdirStage
<1>10. ASSUME NEW from \in Paths, NEW to \in Paths, RenameStage(from, to, plan), Made(to)
       PROVE  Works(Head(plan))
  <2>1. Named = {from, to} /\ IsFile(seen[from])
    BY <1>10, NamedPaths DEF RenameStage
  <2> DEFINE tail == Revealing(to, Hiding(from))
  <2>2. tail \in Seq(Calls) /\ seen[from] \in Node /\ seen[from] # "dir"
    BY <1>1, <2>1, EndFacts, PlanFacts DEF IsFile
  <2>3. CASE plan = tail
    <3>1. Head(plan) = RemoveWhiteout(to)
      BY <2>3, EndFacts, PlanFacts
    <3> QED BY <3>1, WorksFacts
  <2>4. CASE plan = Hiding(from)
    BY <1>1, <1>3, <2>1, <2>4, HidingWorks, EndFacts
  <2> HIDE DEF tail
  <2>5. CASE plan = Moving(from, to, tail) /\ upper[from] = seen[from] /\ upper[to] # "dir"
    <3>1. Head(plan) = Move(from, to)
      BY <2>2, <2>5, PlanFacts
    <3>2. upper[to] = "none" \/ (IsFile(upper[from]) /\ IsFile(upper[to]))
      BY <2>1, <2>5 DEF IsFile
    <3> QED BY <3>1, <3>2, MoveWorks
  <2>6. CASE plan = Copying(to, seen[from], tail) /\ upper[to] # "dir"
    BY <1>10, <2>2, <2>6, CopyingFacts, WorksFacts
  <2>7. CASE plan = Filling(to, seen[from], tail) /\ upper[to] = "torn"
    <3>1. Head(plan) = Put(to, seen[from])
      BY <2>2, <2>7, FillingFacts
    <3> QED BY <1>10, <2>2, <2>7, <3>1, WorksFacts
  <2> QED BY <1>1, <1>10, <2>3, <2>4, <2>5, <2>6, <2>7 DEF RenameStage, tail
<1> QED BY <1>5, <1>6, <1>7, <1>8, <1>9, <1>10 DEF IInv, Progress, StoreStage

-----------------------------------------------------------------------------
(* The steps that are not storage calls *)

LEMMA AbandonKeeps ==
  ASSUME IInv, Abandon
  PROVE  /\ IInv'
         /\ dirty' = dirty \cup UNION {Below[p] : p \in Named}
         /\ \A q \in Paths \ dirty' : seen'[q] = seen[q]
<1>1. /\ dirty' = dirty \cup UNION {Below[p] : p \in Named}
      /\ plan # <<>> /\ plan' = <<>> /\ req' = NoRequest /\ seen' = View
      /\ UNCHANGED <<lower, upper, white, open>>
  BY DEF Abandon, Named, Idle
<1>2. Named \subseteq Paths
  BY NamedApart DEF IInv
<1>3. /\ TreesOK /\ HistoryOK /\ WellFormed(seen)
      /\ \A q \in Paths \ (dirty \cup Named) : Resolve(q) = seen[q] /\ ~Hidden(q)
  BY DEF IInv, HistoryOK, Framed
<1>4. \A q \in Paths \ dirty' : q \in Paths \ (dirty \cup Named)
  <2>1. \A p \in Paths : p \in Below[p]
    BY BelowIsParents
  <2> QED BY <1>1, <1>2, <2>1
<1>5. \A p \in dirty' : Below[p] \subseteq dirty'
  <2>1. ASSUME NEW r \in Named, NEW p \in Below[r], NEW q \in Below[p]
        PROVE  q \in Below[r]
    <3>1. r \in Paths /\ p \in Paths /\ q \in Paths
      BY <1>2, ParentsArePaths
    <3> QED BY <3>1, BelowIsParents, ParentsOrder
  <2> QED BY <1>1, <1>3, <2>1 DEF HistoryOK
<1>6. ASSUME NEW q \in Paths \ dirty'
      PROVE  View[q] = seen[q]
  <2>1. ASSUME NEW r \in Parents[q]
        PROVE  Resolve(r) = seen[r]
    <3>1. r \in Paths /\ q \in Below[r]
      BY ParentsArePaths, BelowIsParents
    <3>2. r \notin dirty'
      BY <1>5, <3>1
    <3> QED BY <1>3, <1>4, <3>1, <3>2
  <2>2. Resolve(q) = seen[q]
    BY <1>3, <1>4
  <2>3. seen[q] # "none" => \A r \in Parents[q] : seen[r] = "dir"
    BY <1>3 DEF WellFormed
  <2> QED BY <2>1, <2>2, <2>3 DEF View
<1>7. cuts' \in 0..MaxCuts /\ (cuts' = 0 => dirty' = {})
  <2>1. cuts \in 0..MaxCuts /\ MaxCuts \in Nat
    BY <1>3, BoundsAssumption DEF HistoryOK
  <2>2. CASE ~Works(Head(plan)) /\ cuts' = cuts
    BY <1>1, <2>1, <2>2, NoneFails
  <2>3. CASE cuts < MaxCuts /\ cuts' = cuts + 1
    BY <2>1, <2>3
  <2> QED BY <2>2, <2>3 DEF Abandon
<1>8. View' = View /\ (\A q : (Resolve(q)' = Resolve(q)) /\ (Hidden(q)' <=> Hidden(q)))
  BY <1>1 DEF View, Resolve, Hidden, Whiteouted
<1>9. HistoryOK'
  <2>1. View \in [Paths -> Node] /\ WellFormed(View)
    BY <1>3, ViewIsTree
  <2>2. dirty' \subseteq Paths
    BY <1>1, <1>2, <1>3, ParentsArePaths DEF HistoryOK
  <2>3. WellFormed(seen)'
    BY <1>1, <2>1 DEF WellFormed
  <2> QED BY <1>1, <1>5, <1>7, <2>1, <2>2, <2>3 DEF HistoryOK
<1>10. TreesOK'
  BY <1>1, <1>3 DEF TreesOK, WellFormed
<1>11. Named' = {}
  <2>1. (req = NoRequest => Named = {})'
    BY NothingNamed, PTL
  <2> QED BY <1>1, <2>1 DEF NoRequest
<1>12. Framed'
  BY <1>1, <1>3, <1>4, <1>6, <1>8, <1>11 DEF Framed
<1>13. Progress' /\ plan' \in Seq(Calls)
  BY <1>1 DEF Progress, NoRequest
<1>14. (Idle => seen = View)'
  BY <1>1, <1>8
<1> QED BY <1>1, <1>6, <1>9, <1>10, <1>12, <1>13, <1>14 DEF IInv

LEMMA WriteKeeps ==
  ASSUME IInv, NEW h \in Handles, NEW c \in Contents, Write(h, c)
  PROVE  /\ IInv' /\ UNCHANGED dirty
         /\ \E t : Outcome(t) /\ \A q \in Paths \ dirty : seen'[q] = t[q]
<1>1. PICK p \in Paths :
      /\ p = open[h] /\ plan = <<>> /\ plan' = <<>>
      /\ upper' = [upper EXCEPT ![p] = c] /\ seen' = View'
      /\ UNCHANGED <<lower, white, open, req, dirty, cuts>>
  BY DEF Write, Idle
<1>2. TreesOK /\ HistoryOK
  BY DEF IInv
<1>3. req = NoRequest /\ \A q \in Paths \ dirty : Resolve(q) = seen[q] /\ ~Hidden(q)
  BY <1>1, IdleFacts DEF Idle
<1>4. IsFile(upper[p]) /\ Made(p)
  BY <1>1, <1>2 DEF TreesOK, WellFormed, IsFile, Made
<1>5. c \in Node \ {"none"} /\ c # "dir"
  BY NodeFacts
<1>6. /\ TreesOK' /\ upper'[p] = c
      /\ Whiteouted(p)' <=> Whiteouted(p)
      /\ \A q \in Paths \ {p} : Kept(q)
  <2>1. upper[p] # "none" => (upper[p] = "dir" <=> c = "dir")
    BY <1>4, <1>5 DEF IsFile
  <2> QED BY <1>1, <1>2, <1>4, <1>5, <2>1, Stored
<1>7. \A q \in Paths \ (dirty \cup {p}) : (Resolve(q)' = seen[q]) /\ ~Hidden(q)'
  BY <1>1, <1>3, <1>6, ResolveKept
<1>8. CASE p \in dirty
  <2>1. \A q \in Paths \ dirty : (Resolve(q)' = seen[q]) /\ ~Hidden(q)'
    BY <1>7, <1>8
  <2>2. Outcome(seen)
    BY DEF Outcome
  <2>3. IInv' /\ \A q \in Paths \ dirty : seen'[q] = seen[q]
    BY <1>1, <1>2, <1>3, <1>6, <2>1, <2>2, RequestEnds
  <2> QED BY <1>1, <2>2, <2>3
<1>9. CASE p \notin dirty
  <2> DEFINE t == [seen EXCEPT ![p] = c]
  <2>1. ~Whiteouted(p) /\ seen[p] = upper[p]
    BY <1>1, <1>3, <1>4, <1>9 DEF Hidden, Resolve, IsFile
  <2>2. (Resolve(p)' = c) /\ ~Hidden(p)'
    BY <1>5, <1>6, <2>1 DEF Resolve, Hidden
  <2>3. t[p] = c /\ \A q \in Paths \ {p} : t[q] = seen[q]
    BY <1>1, <1>2 DEF HistoryOK
  <2>4. Outcome(t)
    <3>1. IsFile(seen[p]) /\ c \in Contents \cup {"empty", "none"}
      BY <1>4, <2>1
    <3> QED BY <3>1 DEF Outcome
  <2> HIDE DEF t
  <2>5. \A q \in Paths \ dirty : (Resolve(q)' = t[q]) /\ ~Hidden(q)'
    BY <1>7, <2>2, <2>3
  <2>6. IInv' /\ \A q \in Paths \ dirty : seen'[q] = t[q]
    BY <1>1, <1>2, <1>3, <1>6, <2>4, <2>5, RequestEnds
  <2> QED BY <1>1, <2>4, <2>6
<1> QED BY <1>8, <1>9

(* Nothing the invariant speaks of but the handles changes. *)
LEMMA HandlesOnly ==
  ASSUME IInv, UNCHANGED <<lower, upper, white, plan, req, seen, dirty, cuts>>,
         open' \in [Handles -> Paths \cup {Closed, Gone}],
         \A h \in Handles : open'[h] \in Paths => open'[h] = open[h]
  PROVE  IInv'
<1>1. TreesOK'
  BY DEF IInv, TreesOK, WellFormed
<1>2. HistoryOK'
  BY DEF IInv, HistoryOK, WellFormed
<1>3. Named' = Named /\ View' = View
  BY DEF Named, View, Resolve, Whiteouted
<1>4. \A q : /\ Resolve(q)' = Resolve(q) /\ (Hidden(q)' <=> Hidden(q))
             /\ (Rooted(q)' <=> Rooted(q)) /\ (Made(q)' <=> Made(q))
             /\ (Whiteouted(q)' <=> Whiteouted(q))
  BY DEF Resolve, Hidden, Rooted, Made, Whiteouted
<1>5. Framed'
  BY <1>3, <1>4 DEF IInv, Framed
<1>6. \A p, rest : /\ RemoveStage(p, rest)' <=> RemoveStage(p, rest)
                   /\ EnsureStage(p, rest)' <=> EnsureStage(p, rest)
                   /\ CreateStage(p, rest)' <=> CreateStage(p, rest)
                   /\ MkdirStage(p, rest)' <=> MkdirStage(p, rest)
  BY DEF RemoveStage, EnsureStage, CreateStage, MkdirStage, Whiteouted, Hiding,
         UpdateWhiteout
<1>7. \A from, p, rest : RenameStage(from, p, rest)' <=> RenameStage(from, p, rest)
  BY DEF RenameStage, Whiteouted, Resolve, Hiding, UpdateWhiteout
<1>8. Progress'
  BY <1>4, <1>6, <1>7 DEF IInv, Progress, StoreStage
<1> QED BY <1>1, <1>2, <1>3, <1>5, <1>8 DEF IInv, Idle

LEMMA ReleaseKeeps ==
  ASSUME IInv, NEW h \in Handles, Release(h)
  PROVE  IInv'
<1>1. /\ open \in [Handles -> Paths \cup {Closed, Gone}]
      /\ open' = [open EXCEPT ![h] = Closed]
      /\ UNCHANGED <<lower, upper, white, plan, req, seen, dirty, cuts>>
  BY DEF IInv, TreesOK, Release
<1>2. \A g \in Handles : open'[g] \in Paths => open'[g] = open[g]
  BY <1>1, HandlesAssumption
<1> QED BY <1>1, <1>2, HandlesOnly

LEMMA InitHolds == Init => IInv
<1> SUFFICES ASSUME Init
             PROVE  IInv
  OBVIOUS
<1>1. TreesOK
  BY HandlesAssumption DEF Init, TreesOK, WellFormed, Node
<1>2. \A q \in Paths : Resolve(q) = lower[q] /\ ~Hidden(q)
  BY DEF Init, Resolve, Hidden, Whiteouted
<1>3. \A q \in Paths : View[q] = lower[q]
  BY <1>1, <1>2, ParentsArePaths DEF View, TreesOK, WellFormed
<1>4. Named = {}
  BY NothingNamed DEF Init
<1>5. HistoryOK
  <2>1. View \in [Paths -> Node] /\ WellFormed(View)
    BY <1>1, ViewIsTree
  <2>2. cuts \in 0..MaxCuts
    BY BoundsAssumption DEF Init
  <2>3. seen = View /\ dirty = {}
    BY DEF Init
  <2> QED BY <2>1, <2>2, <2>3 DEF HistoryOK
<1>6. Framed
  BY <1>2, <1>3, <1>4 DEF Framed, Init
<1>7. plan \in Seq(Calls) /\ Progress /\ (Idle => seen = View)
  BY DEF Init, Progress
<1> QED BY <1>1, <1>5, <1>6, <1>7 DEF IInv

(* Every step keeps the invariant, and of what is seen changes no more than *)
(* an outcome, or the paths of the request that is cut off.                  *)
LEMMA StepKeeps ==
  ASSUME IInv, RenameDirs = FALSE, [Next]_vars
  PROVE  /\ IInv'
         /\ \/ UNCHANGED <<seen, dirty>>
            \/ \E t : Outcome(t) /\ dirty' = dirty /\ \A q \in Paths \ dirty : seen'[q] = t[q]
            \/ /\ dirty' = dirty \cup UNION {Below[p] : p \in Named}
               /\ \A q \in Paths \ dirty' : seen'[q] = seen[q]
<1>1. CASE UNCHANGED vars
  <2>1. \A h \in Handles : open'[h] = open[h]
    BY <1>1 DEF vars
  <2>2. open' \in [Handles -> Paths \cup {Closed, Gone}]
    BY <1>1 DEF vars, IInv, TreesOK
  <2> QED BY <1>1, <2>1, <2>2, HandlesOnly DEF vars
<1>2. ASSUME NEW p \in Paths, NEW truncate \in BOOLEAN, Setattr(p, truncate)
      PROVE  IInv' /\ UNCHANGED <<seen, dirty>>
  BY <1>2, SetattrBegins DEF Setattr, Begin
<1>3. ASSUME NEW p \in Paths, NEW truncate \in BOOLEAN, NEW h \in Handles, Open(h, p, truncate)
      PROVE  IInv' /\ UNCHANGED <<seen, dirty>>
  BY <1>3, OpenBegins DEF Open, Begin
<1>4. ASSUME NEW p \in Paths, NEW h \in Handles, Create(h, p)
      PROVE  IInv' /\ UNCHANGED <<seen, dirty>>
  BY <1>4, CreateBegins DEF Create, Begin
<1>5. ASSUME NEW p \in Paths, Mkdir(p)
      PROVE  IInv' /\ UNCHANGED <<seen, dirty>>
  BY <1>5, MkdirBegins DEF Mkdir, Begin
<1>6. ASSUME NEW p \in Paths, Unlink(p)
      PROVE  IInv' /\ UNCHANGED <<seen, dirty>>
  <2>1. IsFile(seen[p]) /\ Begin("unlink", <<p>>, RemovePlan(p))
    BY <1>6 DEF Unlink
  <2>2. seen[p] # "none" /\ "unlink" \in {"unlink", "rmdir"}
    BY <2>1 DEF IsFile
  <2> QED BY <2>1, <2>2, RemoveBegins DEF Begin
<1>7. ASSUME NEW p \in Paths, Rmdir(p)
      PROVE  IInv' /\ UNCHANGED <<seen, dirty>>
  BY <1>7, RmdirBegins DEF Rmdir, Begin
<1>8. ASSUME NEW p \in Paths, NEW to \in Paths, Rename(p, to)
      PROVE  IInv' /\ UNCHANGED <<seen, dirty>>
  BY <1>8, RenameBegins DEF Rename, Begin
<1>9. ASSUME NEW h \in Handles, Release(h)
      PROVE  IInv' /\ UNCHANGED <<seen, dirty>>
  BY <1>9, ReleaseKeeps DEF Release
<1>10. ASSUME NEW h \in Handles, NEW c \in Contents, Write(h, c)
       PROVE  /\ IInv' /\ UNCHANGED dirty
              /\ \E t : Outcome(t) /\ \A q \in Paths \ dirty : seen'[q] = t[q]
  BY <1>10, WriteKeeps
<1> QED BY <1>1, <1>2, <1>3, <1>4, <1>5, <1>6, <1>7, <1>8, <1>9, <1>10,
           StorageCallKeeps, AbandonKeeps DEF Next

-----------------------------------------------------------------------------
(* Induction over the numbers, for a set *)

Less == {ss \in Nat \X Nat : ss[1] < ss[2]}
LEMMA LessIsWellFounded == IsWellFoundedOn(Less, Nat)
<1>1. OpToRel(<, Nat) = Less
  BY DEF OpToRel, Less
<1> QED BY <1>1, NatLessThanWellFounded

LEMMA SetInduction ==
  ASSUME NEW S, 0 \in S, \A n \in Nat : n \in S => n + 1 \in S
  PROVE  \A n \in Nat : n \in S
<1> DEFINE T == Nat \ S
<1>1. SUFFICES ASSUME T # {} PROVE FALSE
  OBVIOUS
<1>2. PICK x \in T : \A y \in T : <<y, x>> \notin Less
  BY <1>1, LessIsWellFounded, WFMin
<1>3. x \in Nat /\ x # 0 /\ x - 1 \in Nat
  OBVIOUS
<1>4. <<x - 1, x>> \in Less
  BY <1>3 DEF Less
<1>5. x - 1 \in S
  BY <1>2, <1>3, <1>4
<1> QED BY <1>3, <1>5

-----------------------------------------------------------------------------
(* A directory's copy is a plan *)

(* What FlattenSeq chooses for the first n of the sequences. *)
Flattens(seqs, n, f) ==
  f = [i \in 1..n |-> IF i = 1 THEN seqs[i] ELSE f[i - 1] \o seqs[i]]

LEMMA FlattenIsChosen ==
  ASSUME NEW seqs
  PROVE  FlattenSeq(seqs) = IF Len(seqs) = 0 THEN seqs
                            ELSE (CHOOSE f : Flattens(seqs, Len(seqs), f))[Len(seqs)]
BY DEF FlattenSeq, Flattens

LEMMA FlattenExists ==
  ASSUME NEW seqs PROVE \A n \in Nat : \E f : Flattens(seqs, n, f)
<1> DEFINE S == {n \in Nat : \E f : Flattens(seqs, n, f)}
<1>1. 0 \in S
  <2>1. 1..0 = {}
    OBVIOUS
  <2>2. Flattens(seqs, 0, [i \in {} |-> <<>>])
    BY <2>1 DEF Flattens
  <2> QED BY <2>2
<1>2. ASSUME NEW n \in Nat, n \in S PROVE n + 1 \in S
  <2>1. PICK f : Flattens(seqs, n, f)
    BY <1>2
  <2> DEFINE g == [i \in 1..n + 1 |->
                     IF i = 1 THEN seqs[i] ELSE f[i - 1] \o seqs[i]]
  <2>2. ASSUME NEW i \in 1..n PROVE g[i] = f[i]
    <3>1. f[i] = IF i = 1 THEN seqs[i] ELSE f[i - 1] \o seqs[i]
      BY <2>1 DEF Flattens
    <3>2. i \in 1..n + 1
      OBVIOUS
    <3> HIDE <2>1
    <3> QED BY <3>1, <3>2, Zenon
  <2>3. ASSUME NEW i \in 1..n + 1
        PROVE  g[i] = IF i = 1 THEN seqs[i] ELSE g[i - 1] \o seqs[i]
    <3>1. i # 1 => i - 1 \in 1..n
      OBVIOUS
    <3> QED BY <2>2, <3>1
  <2> HIDE DEF g
  <2>4. g = [i \in 1..n + 1 |-> g[i]]
    BY DEF g
  <2>5. Flattens(seqs, n + 1, g)
    BY <2>3, <2>4 DEF Flattens
  <2> QED BY <2>5
<1> HIDE DEF S
<1>3. \A n \in Nat : n \in S
  BY <1>1, <1>2, SetInduction
<1> QED BY <1>3 DEF S

LEMMA FlattenedType ==
  ASSUME NEW S, NEW seqs \in Seq(Seq(S))
  PROVE  FlattenSeq(seqs) \in Seq(S)
<1> DEFINE m == Len(seqs)
           f == CHOOSE g : Flattens(seqs, m, g)
<1>1. m \in Nat /\ \A i \in 1..m : seqs[i] \in Seq(S)
  OBVIOUS
<1>2. Flattens(seqs, m, f)
  BY <1>1, FlattenExists
<1>3. FlattenSeq(seqs) = IF m = 0 THEN seqs ELSE f[m]
  BY FlattenIsChosen
<1>4. m = 0 => seqs = <<>> /\ <<>> \in Seq(S)
  OBVIOUS
<1> HIDE DEF f, m
<1>5. \A i \in 1..m : f[i] = IF i = 1 THEN seqs[i] ELSE f[i - 1] \o seqs[i]
  BY <1>2 DEF Flattens
<1> DEFINE Good == {n \in Nat : n \in 1..m => f[n] \in Seq(S)}
<1>6. 0 \in Good
  OBVIOUS
<1>7. ASSUME NEW n \in Nat, n \in Good PROVE n + 1 \in Good
  <2> SUFFICES ASSUME n + 1 \in 1..m PROVE f[n + 1] \in Seq(S)
    OBVIOUS
  <2>1. CASE n = 0
    <3>1. f[1] = seqs[1]
      BY <1>5, <2>1
    <3> QED BY <1>1, <2>1, <3>1
  <2>2. CASE n # 0
    <3>1. n \in 1..m /\ n + 1 # 1 /\ (n + 1) - 1 = n
      BY <1>1, <2>2
    <3>2. f[n + 1] = f[n] \o seqs[n + 1]
      BY <1>5, <3>1
    <3>3. f[n] \in Seq(S) /\ seqs[n + 1] \in Seq(S)
      BY <1>1, <1>7, <3>1
    <3> QED BY <3>2, <3>3, ConcatFacts
  <2> QED BY <2>1, <2>2
<1> HIDE DEF Good
<1>8. \A n \in Nat : n \in Good
  BY <1>6, <1>7, SetInduction
<1> QED BY <1>1, <1>3, <1>4, <1>8 DEF Good

(* Any finite set of paths can be put in an order with parents first. *)
ByLength(s) == \A i, j \in DOMAIN s : i < j => s[i] # s[j] /\ Len(s[i]) <= Len(s[j])

LEMMA LongestOfMany ==
  ASSUME NEW T \in SUBSET Paths, T # {}
  PROVE  \E p \in T : \A q \in T : Len(q) <= Len(p)
<1>1. IsFiniteSet(T)
  BY PathsAssumption, FS_Subset
<1> DEFINE S == {n \in Nat : \A U \in SUBSET Paths :
                   IsFiniteSet(U) /\ Cardinality(U) = n /\ U # {} =>
                     \E p \in U : \A q \in U : Len(q) <= Len(p)}
<1>2. 0 \in S
  BY FS_EmptySet
<1>3. ASSUME NEW n \in Nat, n \in S PROVE n + 1 \in S
  <2> SUFFICES ASSUME NEW U \in SUBSET Paths, IsFiniteSet(U), Cardinality(U) = n + 1
               PROVE  \E p \in U : \A q \in U : Len(q) <= Len(p)
    OBVIOUS
  <2>1. PICK r \in U : TRUE
    BY FS_EmptySet
  <2> DEFINE V == U \ {r}
  <2>2. IsFiniteSet(V) /\ Cardinality(V) = n
    BY FS_RemoveElement
  <2>3. \A q \in U : Len(q) \in Nat
    BY PathsAreSequences
  <2>4. CASE V = {}
    <3>1. \A q \in U : q = r
      BY <2>4
    <3> QED BY <2>3, <3>1
  <2>5. CASE V # {}
    <3>1. PICK p \in V : \A q \in V : Len(q) <= Len(p)
      BY <1>3, <2>2, <2>5
    <3>2. CASE Len(r) <= Len(p)
      BY <3>1, <3>2
    <3>3. CASE Len(p) <= Len(r)
      BY <2>3, <3>1, <3>3
    <3> QED BY <2>3, <3>1, <3>2, <3>3
  <2> QED BY <2>4, <2>5
<1> HIDE DEF S
<1>4. \A n \in Nat : n \in S
  BY <1>2, <1>3, SetInduction
<1>5. Cardinality(T) \in Nat
  BY <1>1, FS_CardinalityType
<1> QED BY <1>1, <1>4, <1>5 DEF S

LEMMA OrdersExist ==
  ASSUME NEW T \in SUBSET Paths
  PROVE  \E s \in [1..Cardinality(T) -> T] : ByLength(s)
<1>1. IsFiniteSet(T)
  BY PathsAssumption, FS_Subset
<1> DEFINE S == {n \in Nat : \A U \in SUBSET Paths :
                   IsFiniteSet(U) /\ Cardinality(U) = n =>
                     \E s \in [1..n -> U] : ByLength(s)}
<1>2. 0 \in S
  <2> SUFFICES ASSUME NEW U \in SUBSET Paths
               PROVE  \E s \in [1..0 -> U] : ByLength(s)
    OBVIOUS
  <2>1. 1..0 = {}
    OBVIOUS
  <2>2. [i \in {} |-> <<>>] \in [{} -> U] /\ ByLength([i \in {} |-> <<>>])
    BY DEF ByLength
  <2> QED BY <2>1, <2>2
<1>3. ASSUME NEW n \in Nat, n \in S PROVE n + 1 \in S
  <2> SUFFICES ASSUME NEW U \in SUBSET Paths, IsFiniteSet(U), Cardinality(U) = n + 1
               PROVE  \E s \in [1..n + 1 -> U] : ByLength(s)
    OBVIOUS
  <2>1. PICK r \in U : \A q \in U : Len(q) <= Len(r)
    BY FS_EmptySet, LongestOfMany
  <2> DEFINE V == U \ {r}
  <2>2. IsFiniteSet(V) /\ Cardinality(V) = n
    BY FS_RemoveElement
  <2>3. PICK s \in [1..n -> V] : ByLength(s)
    BY <1>3, <2>2
  <2> DEFINE t == [i \in 1..n + 1 |-> IF i = n + 1 THEN r ELSE s[i]]
  <2>4. t \in [1..n + 1 -> U]
    OBVIOUS
  <2>5. ASSUME NEW i \in 1..n + 1, NEW j \in 1..n + 1, i < j
        PROVE  t[i] # t[j] /\ Len(t[i]) <= Len(t[j])
    <3>1. i \in 1..n /\ i # n + 1 /\ t[i] = s[i] /\ s[i] \in V
      BY <2>5
    <3>2. CASE j = n + 1
      BY <2>1, <3>1, <3>2
    <3>3. CASE j # n + 1
      <4>1. j \in 1..n /\ t[j] = s[j]
        BY <3>3
      <4>2. s[i] # s[j] /\ Len(s[i]) <= Len(s[j])
        BY <2>3, <2>5, <3>1, <4>1 DEF ByLength
      <4> QED BY <3>1, <4>1, <4>2
    <3> QED BY <3>2, <3>3
  <2>6. DOMAIN t = 1..n + 1
    OBVIOUS
  <2> HIDE DEF t
  <2>7. ByLength(t)
    BY <2>5, <2>6 DEF ByLength
  <2> QED BY <2>4, <2>7
<1> HIDE DEF S
<1>4. \A n \in Nat : n \in S
  BY <1>2, <1>3, SetInduction
<1>5. Cardinality(T) \in Nat
  BY <1>1, FS_CardinalityType
<1> QED BY <1>1, <1>4, <1>5 DEF S

(* The calls that keep the trees whatever the trees are. *)
SimpleCalls ==
  {c \in Calls : /\ c.call \in {"parents", "put", "remove", "white", "unwhite"}
                 /\ c.call = "put" => c.value # "none"}

LEMMA SimpleFacts ==
  ASSUME NEW p \in Paths
  PROVE  /\ MakeParents(p) \in SimpleCalls
         /\ RemoveEntry(p) \in SimpleCalls
         /\ UpdateWhiteout(p) \in SimpleCalls
         /\ CreateWhiteout(p) \in SimpleCalls
         /\ RemoveWhiteout(p) \in SimpleCalls
         /\ \A v \in Node \ {"none"} : Put(p, v) \in SimpleCalls
<1>1. /\ MakeParents(p) \in SimpleCalls
      /\ RemoveEntry(p) \in SimpleCalls
      /\ CreateWhiteout(p) \in SimpleCalls
      /\ RemoveWhiteout(p) \in SimpleCalls
  BY CallsFacts DEF SimpleCalls, MakeParents, RemoveEntry, CreateWhiteout, RemoveWhiteout
<1>2. UpdateWhiteout(p) \in SimpleCalls
  BY <1>1 DEF UpdateWhiteout
<1>3. \A v \in Node \ {"none"} : Put(p, v) \in SimpleCalls
  BY CallsFacts DEF SimpleCalls, Put
<1> QED BY <1>1, <1>2, <1>3

LEMMA CopyNodeSimple ==
  ASSUME NEW p \in Paths, NEW v \in Node \ {"none"}
  PROVE  CopyNode(v, p) \in Seq(SimpleCalls)
<1>1. Put(p, v) \in SimpleCalls /\ Put(p, "torn") \in SimpleCalls
  BY SimpleFacts DEF Node
<1>2. <<Put(p, v)>> \in Seq(SimpleCalls) /\ <<Put(p, "torn"), Put(p, v)>> \in Seq(SimpleCalls)
  BY <1>1
<1> QED BY <1>2 DEF CopyNode

LEMMA CopyTreeSimple ==
  ASSUME lower \in [Paths -> Node], NEW from \in Paths, NEW to \in Paths,
         \A q \in Below[from] : Moved(q, from, to) \in Paths
  PROVE  CopyTree(from, to) \in Seq(SimpleCalls)
<1> DEFINE tree == {q \in Below[from] : lower[q] # "none"}
           Copied(i, nodes) == CopyNode(lower[nodes[i]], Moved(nodes[i], from, to))
           nodes == CHOOSE s \in [1..Cardinality(tree) -> tree] : ByLength(s)
           seqs == [i \in DOMAIN nodes |-> Copied(i, nodes)]
<1>1. tree \in SUBSET Paths
  BY ParentsArePaths
<1>2. CopyTree(from, to) = FlattenSeq(seqs)
  BY DEF CopyTree, ByLength
<1>3. nodes \in [1..Cardinality(tree) -> tree]
  BY <1>1, OrdersExist
<1>4. Cardinality(tree) \in Nat
  BY <1>1, PathsAssumption, FS_Subset, FS_CardinalityType
<1> HIDE DEF nodes
<1>5. ASSUME NEW i \in 1..Cardinality(tree)
      PROVE  Copied(i, nodes) \in Seq(SimpleCalls)
  <2>1. nodes[i] \in tree
    BY <1>3
  <2>2. lower[nodes[i]] \in Node \ {"none"} /\ Moved(nodes[i], from, to) \in Paths
    BY <1>1, <2>1
  <2> QED BY <2>2, CopyNodeSimple
<1> HIDE DEF tree, Copied
<1>6. seqs \in Seq(Seq(SimpleCalls))
  BY <1>3, <1>4, <1>5
<1> HIDE DEF seqs
<1> QED BY <1>2, <1>6, FlattenedType

-----------------------------------------------------------------------------
(* A directory moves *)

LEMMA MovedParts ==
  ASSUME NEW p \in Paths, NEW q \in Paths, NEW r \in Paths, q \in Below[p]
  PROVE  /\ Moved(q, p, r) \in Seq(Names)
         /\ Len(Moved(q, p, r)) = Len(r) + (Len(q) - Len(p))
         /\ \A i \in 1..Len(r) : Moved(q, p, r)[i] = r[i]
         /\ \A i \in 1..Len(q) - Len(p) : Moved(q, p, r)[Len(r) + i] = q[Len(p) + i]
<1> DEFINE t == SubSeq(q, Len(p) + 1, Len(q))
<1>1. /\ p \in Seq(Names) /\ q \in Seq(Names) /\ r \in Seq(Names)
      /\ Len(p) \in Nat /\ Len(q) \in Nat /\ Len(r) \in Nat
  BY PathsAreSequences
<1>2. Len(p) <= Len(q)
  BY <1>1, PrefixElements DEF Below
<1>3. /\ t \in Seq(Names) /\ Len(t) = Len(q) - Len(p)
      /\ \A i \in 1..Len(q) - Len(p) : t[i] = q[Len(p) + i]
  BY <1>1, <1>2
<1>4. Moved(q, p, r) = r \o t
  BY DEF Moved
<1> HIDE DEF t
<1>5. /\ r \o t \in Seq(Names) /\ Len(r \o t) = Len(r) + Len(t)
      /\ \A i \in 1..Len(r) : (r \o t)[i] = r[i]
      /\ \A i \in 1..Len(t) : (r \o t)[Len(r) + i] = t[i]
  <2>1. PICK u \in Seq(Names) : u = t
    BY <1>3
  <2>2. /\ r \o u \in Seq(Names) /\ Len(r \o u) = Len(r) + Len(u)
        /\ \A i \in 1..Len(r) : (r \o u)[i] = r[i]
        /\ \A i \in 1..Len(u) : (r \o u)[Len(r) + i] = u[i]
    BY <1>1, ConcatFacts
  <2> QED BY <2>1, <2>2
<1> QED BY <1>3, <1>4, <1>5

LEMMA PrefixIsPath ==
  ASSUME NEW p \in Paths, NEW q \in Seq(Names), q # <<>>, Len(q) < Len(p),
         \A i \in 1..Len(q) : q[i] = p[i]
  PROVE  q \in Parents[p]
<1>1. p \in Seq(Names) /\ Len(p) \in Nat /\ Len(q) \in Nat
  BY PathsAreSequences
<1>2. IsPrefix(q, p) /\ q # p
  BY <1>1, PrefixElements
<1>3. q \in Prefixes(p)
  <2>1. SubSeq(p, 1, Len(q)) = q
    BY <1>1
  <2>2. Len(q) \in 0..Len(p)
    BY <1>1
  <2> QED BY <2>1, <2>2 DEF Prefixes
<1>4. q \in Paths
  BY <1>3, PathsAssumption
<1> QED BY <1>2, <1>4 DEF Parents, IsStrictPrefix

LEMMA ParentsMove ==
  ASSUME NEW from \in Paths, NEW to \in Paths, NEW q \in Paths, NEW r \in Paths,
         r \in Below[to], r \in Parents[q], Moved(q, to, from) \in Paths
  PROVE  Moved(r, to, from) \in Parents[Moved(q, to, from)]
<1> DEFINE m == Moved(q, to, from)
           n == Moved(r, to, from)
<1>1. /\ from \in Seq(Names) /\ to \in Seq(Names) /\ q \in Seq(Names) /\ r \in Seq(Names)
      /\ Len(from) \in Nat /\ Len(to) \in Nat /\ Len(q) \in Nat /\ Len(r) \in Nat
      /\ Len(from) > 0
  BY PathsAreSequences
<1>2. Len(r) < Len(q) /\ \A i \in 1..Len(r) : r[i] = q[i]
  BY ParentElements
<1>3. Len(to) <= Len(r)
  BY <1>1, PrefixElements DEF Below
<1>4. q \in Below[to]
  BY BelowIsParents, ParentsOrder
<1>5. /\ m \in Seq(Names) /\ Len(m) = Len(from) + (Len(q) - Len(to))
      /\ \A i \in 1..Len(from) : m[i] = from[i]
      /\ \A i \in 1..Len(q) - Len(to) : m[Len(from) + i] = q[Len(to) + i]
  <2>1. m \in Seq(Names) /\ Len(m) = Len(from) + (Len(q) - Len(to))
    BY <1>4, MovedParts
  <2>2. \A i \in 1..Len(from) : m[i] = from[i]
    BY <1>4, MovedParts
  <2>3. \A i \in 1..Len(q) - Len(to) : m[Len(from) + i] = q[Len(to) + i]
    BY <1>4, MovedParts
  <2> QED BY <2>1, <2>2, <2>3
<1>6. /\ n \in Seq(Names) /\ Len(n) = Len(from) + (Len(r) - Len(to))
      /\ \A i \in 1..Len(from) : n[i] = from[i]
      /\ \A i \in 1..Len(r) - Len(to) : n[Len(from) + i] = r[Len(to) + i]
  <2>1. n \in Seq(Names) /\ Len(n) = Len(from) + (Len(r) - Len(to))
    BY MovedParts
  <2>2. \A i \in 1..Len(from) : n[i] = from[i]
    BY MovedParts
  <2>3. \A i \in 1..Len(r) - Len(to) : n[Len(from) + i] = r[Len(to) + i]
    BY MovedParts
  <2> QED BY <2>1, <2>2, <2>3
<1> HIDE DEF m, n
<1>7. Len(n) < Len(m) /\ Len(n) > 0 /\ n # <<>>
  BY <1>1, <1>2, <1>3, <1>5, <1>6
<1>8. ASSUME NEW i \in 1..Len(n)
      PROVE  n[i] = m[i]
  <2>1. CASE i <= Len(from)
    BY <1>1, <1>5, <1>6, <2>1
  <2>2. CASE i > Len(from)
    <3> DEFINE k == i - Len(from)
    <3>1. k \in 1..Len(r) - Len(to) /\ k \in 1..Len(q) - Len(to) /\ i = Len(from) + k
      BY <1>1, <1>2, <1>3, <1>6, <2>2
    <3>2. Len(to) + k \in 1..Len(r)
      BY <1>1, <3>1
    <3> HIDE DEF k
    <3>3. n[Len(from) + k] = r[Len(to) + k] /\ m[Len(from) + k] = q[Len(to) + k]
      BY <1>5, <1>6, <3>1
    <3> QED BY <1>2, <3>1, <3>2, <3>3
  <2> QED BY <1>1, <1>6, <2>1, <2>2
<1>9. m \in Paths
  BY DEF m
<1>10. n \in Parents[m]
  BY <1>6, <1>7, <1>8, <1>9, PrefixIsPath
<1> QED BY <1>10 DEF m, n

LEMMA MovedBack ==
  ASSUME NEW from \in Paths, NEW to \in Paths, NEW q \in Paths, q \in Below[from],
         Moved(q, from, to) \in Paths
  PROVE  /\ Moved(q, from, to) \in Below[to]
         /\ Moved(Moved(q, from, to), to, from) = q
<1> DEFINE m == Moved(q, from, to)
<1>1. m \in Below[to]
  <2>1. CASE q = from
    BY <2>1, MovedItself, BelowIsParents
  <2>2. CASE from \in Parents[q]
    BY <2>2, MovedBelow, BelowIsParents
  <2> QED BY <2>1, <2>2, BelowIsParents
<1> DEFINE n == Moved(m, to, from)
<1>2. /\ from \in Seq(Names) /\ to \in Seq(Names) /\ q \in Seq(Names)
      /\ Len(from) \in Nat /\ Len(to) \in Nat /\ Len(q) \in Nat
  BY PathsAreSequences
<1>3. Len(from) <= Len(q) /\ \A i \in 1..Len(from) : from[i] = q[i]
  BY <1>2, PrefixElements DEF Below
<1>4. /\ m \in Seq(Names) /\ Len(m) = Len(to) + (Len(q) - Len(from))
      /\ \A i \in 1..Len(q) - Len(from) : m[Len(to) + i] = q[Len(from) + i]
  BY MovedParts
<1>5. /\ n \in Seq(Names) /\ Len(n) = Len(from) + (Len(m) - Len(to))
      /\ \A i \in 1..Len(from) : n[i] = from[i]
      /\ \A i \in 1..Len(m) - Len(to) : n[Len(from) + i] = m[Len(to) + i]
  <2>1. n \in Seq(Names) /\ Len(n) = Len(from) + (Len(m) - Len(to))
    BY <1>1, MovedParts
  <2>2. \A i \in 1..Len(from) : n[i] = from[i]
    BY <1>1, MovedParts
  <2>3. \A i \in 1..Len(m) - Len(to) : n[Len(from) + i] = m[Len(to) + i]
    BY <1>1, MovedParts
  <2> QED BY <2>1, <2>2, <2>3
<1> HIDE DEF m, n
<1>6. Len(n) = Len(q)
  BY <1>2, <1>4, <1>5
<1>7. ASSUME NEW i \in 1..Len(n)
      PROVE  n[i] = q[i]
  <2>1. CASE i <= Len(from)
    BY <1>2, <1>3, <1>5, <2>1
  <2>2. CASE i > Len(from)
    <3> DEFINE k == i - Len(from)
    <3>1. k \in 1..Len(q) - Len(from) /\ k \in 1..Len(m) - Len(to) /\ i = Len(from) + k
      BY <1>2, <1>4, <1>6, <2>2
    <3> HIDE DEF k
    <3> QED BY <1>4, <1>5, <3>1
  <2> QED BY <1>2, <1>6, <2>1, <2>2
<1>8. n = q
  BY <1>2, <1>5, <1>6, <1>7, SequencesEqual
<1> QED BY <1>1, <1>8 DEF m, n

(* What moves takes along what is below it, and the handles of both. *)
LEMMA TreeMoved ==
  ASSUME TreesOK, NEW from \in Paths, NEW to \in Paths,
         to \notin Below[from], from \notin Below[to],
         \A q \in Below[from] : Moved(q, from, to) \in Paths,
         Made(to), Works(Move(from, to)), DoMove(from, to), lower' = lower
  PROVE  TreesOK'
<1> USE DEF TreesOK
<1>1. white' = white
  BY DEF DoMove
<1>0. Below[from] \cap Below[to] = {}
  BY BelowApart
<1>2. /\ upper' = [q \in Paths |-> upper'[q]]
      /\ \A q \in Paths : q \in Below[from] => upper'[q] = "none"
  BY <1>0 DEF DoMove
<1>3. \A q \in Paths : q \notin Below[from] /\ q \notin Below[to] => upper'[q] = upper[q]
  BY DEF DoMove
<1>5. \A q \in Paths : q \in Below[to] =>
        upper'[q] = IF Moved(q, to, from) \in Paths THEN upper[Moved(q, to, from)] ELSE "none"
  BY <1>0 DEF DoMove
<1>6. upper' \in [Paths -> Node]
  <2>1. \A q \in Paths : upper'[q] \in Node
    BY <1>2, <1>3, <1>5 DEF Node
  <2> QED BY <1>2, <2>1
<1>7. WellFormed(upper')
  <2> SUFFICES ASSUME NEW q \in Paths, upper'[q] # "none", NEW r \in Parents[q]
               PROVE  upper'[r] = "dir"
    BY DEF WellFormed
  <2>1. r \in Paths /\ q \notin Below[from]
    BY <1>2, ParentsArePaths
  <2>2. r \notin Below[from]
    <3> SUFFICES ASSUME r \in Below[from] PROVE FALSE
      OBVIOUS
    <3>1. q \in Below[from]
      BY <2>1, BelowIsParents, ParentsOrder
    <3> QED BY <2>1, <3>1
  <2>3. CASE q \in Below[to] /\ r \in Below[to]
    <3>1. Moved(q, to, from) \in Paths /\ upper[Moved(q, to, from)] # "none"
      BY <1>5, <2>3
    <3>2. Moved(r, to, from) \in Parents[Moved(q, to, from)]
      BY <2>1, <2>3, <3>1, ParentsMove
    <3>3. Moved(r, to, from) \in Paths /\ upper[Moved(r, to, from)] = "dir"
      BY <3>1, <3>2, ParentsArePaths DEF WellFormed
    <3> QED BY <1>5, <2>1, <2>3, <3>3
  <2>4. CASE q \in Below[to] /\ r \notin Below[to]
    <3>1. r \in Parents[to]
      <4>1. q \in Below[r]
        BY <2>1, BelowIsParents
      <4>2. to \in Below[r]
        BY <2>1, <2>4, <4>1, BelowApart
      <4>3. r # to
        BY <2>4, BelowIsParents
      <4> QED BY <2>1, <4>2, <4>3, BelowIsParents
    <3>2. upper[r] = "dir"
      BY <3>1 DEF Made
    <3> QED BY <1>3, <2>1, <2>2, <2>4, <3>2
  <2>5. CASE q \notin Below[to]
    <3>1. upper[r] = "dir"
      BY <1>3, <2>1, <2>5 DEF WellFormed
    <3>2. r \notin Below[to]
      BY <2>1, <2>5, BelowIsParents, ParentsOrder
    <3> QED BY <1>3, <2>1, <2>2, <3>1, <3>2
  <2> QED BY <2>3, <2>4, <2>5
<1>8. ASSUME NEW h \in Handles
      PROVE  /\ open'[h] \in Paths \cup {Closed, Gone}
             /\ open'[h] \in Paths => IsFile(upper'[open'[h]])
  <2>1. CASE open[h] \in Below[from]
    <3>1. PICK p \in Paths : p = open[h] /\ p \in Below[from] /\ IsFile(upper[p])
      BY <2>1, ParentsArePaths
    <3>2. PICK m \in Paths : m = Moved(p, from, to)
      BY <3>1
    <3>3. open'[h] = m
      BY <2>1, <3>1, <3>2 DEF DoMove
    <3>4. m \in Below[to] /\ Moved(m, to, from) = p
      BY <3>1, <3>2, MovedBack
    <3>5. upper'[m] = upper[p]
      BY <1>5, <3>1, <3>4
    <3> QED BY <3>1, <3>3, <3>5
  <2>2. CASE open[h] \notin Below[from] /\ open[h] = to
    BY <2>2, HandlesAssumption DEF DoMove
  <2>3. CASE open[h] \notin Below[from] /\ open[h] # to
    <3>1. open'[h] = open[h]
      BY <2>3 DEF DoMove
    <3>2. ASSUME open[h] \in Paths PROVE IsFile(upper'[open[h]])
      <4>1. PICK p \in Paths : p = open[h] /\ IsFile(upper[p])
        BY <3>2
      <4>2. p \notin Below[to]
        <5> SUFFICES ASSUME to \in Parents[p] PROVE FALSE
          BY <2>3, <4>1, BelowIsParents
        <5>1. upper[p] # "none"
          BY <4>1 DEF IsFile
        <5>2. upper[to] = "dir"
          BY <5>1 DEF WellFormed
        <5>3. \A q \in Children[to] : upper[q] = "none"
          BY <5>2, MoveWorks DEF IsFile
        <5>4. PICK c \in Children[to] : p \in Below[c]
          BY ChildOnTheWay
        <5>5. c \in Paths
          BY ChildrenAreBelow
        <5>6. upper[c] # "none"
          BY <5>1, <5>4, <5>5, BelowIsParents DEF WellFormed
        <5> QED BY <5>3, <5>6
      <4> QED BY <1>3, <2>3, <4>1, <4>2
    <3> QED BY <3>1, <3>2
  <2> QED BY <2>1, <2>2, <2>3
<1>9. open' \in [Handles -> Paths \cup {Closed, Gone}]
  <2>1. open' = [h \in Handles |-> open'[h]]
    BY DEF DoMove
  <2> QED BY <1>8, <2>1
<1>10. WellFormed(lower')
  BY DEF WellFormed
<1> QED BY <1>1, <1>6, <1>7, <1>8, <1>9, <1>10

(* The parents are made, seen or not. *)
LEMMA ParentsDone ==
  ASSUME TreesOK, NEW p \in Paths, \A q \in Parents[p] : upper[q] \in {"none", "dir"},
         DoMakeParents(p), lower' = lower
  PROVE  TreesOK' /\ Made(p)' /\ \A q \in Paths : IsFile(upper[q]) => upper'[q] = upper[q]
<1> USE DEF TreesOK
<1>1. upper' = [q \in Paths |-> IF q \in Parents[p] THEN "dir" ELSE upper[q]]
  BY DEF DoMakeParents
<1>2. white' = white /\ open' = open
  BY DEF DoMakeParents
<1>3. upper' \in [Paths -> Node]
  BY <1>1 DEF Node
<1>4. \A q \in Parents[p] : q \in Paths /\ upper'[q] = "dir" /\ upper[q] \in {"none", "dir"}
  BY <1>1, ParentsArePaths
<1>5. \A q \in Paths : q \notin Parents[p] => upper'[q] = upper[q]
  BY <1>1
<1>6. WellFormed(upper')
  <2> SUFFICES ASSUME NEW q \in Paths, upper'[q] # "none", NEW r \in Parents[q]
               PROVE  upper'[r] = "dir"
    BY DEF WellFormed
  <2>1. r \in Paths
    BY ParentsArePaths
  <2>2. CASE q \in Parents[p]
    BY <1>4, <2>2, ParentsOrder
  <2>3. CASE q \notin Parents[p]
    <3>1. upper[r] = "dir"
      BY <1>5, <2>3 DEF WellFormed
    <3> QED BY <1>1, <2>1, <3>1
  <2> QED BY <2>2, <2>3
<1>7. \A q \in Paths : IsFile(upper[q]) => upper'[q] = upper[q]
  BY <1>4, <1>5 DEF IsFile
<1>8. \A h \in Handles : open'[h] \in Paths => IsFile(upper'[open'[h]])
  BY <1>2, <1>7
<1>9. WellFormed(lower')
  BY DEF WellFormed
<1>10. Made(p)'
  BY <1>4 DEF Made
<1> QED BY <1>2, <1>3, <1>6, <1>7, <1>8, <1>9, <1>10

-----------------------------------------------------------------------------
(* What holds whatever programs rename *)

(* A handle is bound to what the calls before have stored, or to what was there. *)
OpenStage(h, p) ==
  \E e \in {Binding(h, p), Filling(p, "empty", Binding(h, p))} :
    \/ \E v \in Node :
         /\ IsFile(v)
         /\ \/ plan = Making(p, Copying(p, v, Revealing(p, e)))
            \/ plan = Copying(p, v, Revealing(p, e))
            \/ plan = Filling(p, v, Revealing(p, e))
    \/ IsFile(upper[p]) /\ plan = Revealing(p, e)
    \/ IsFile(upper[p]) /\ plan = e

(* A file is made in a directory of the upper tree. *)
MakeStage(h, p) ==
  \/ plan = Making(p, Creating(p, Revealing(p, Binding(h, p))))
  \/ plan = Creating(p, Revealing(p, Binding(h, p))) /\ Made(p)

(* A file or a directory moves to a directory of the upper tree. *)
MoveStage(from, to) ==
  /\ to \notin Below[from] /\ from \notin Below[to]
  /\ \A q \in Below[from] : Moved(q, from, to) \in Paths
  /\ \E e \in Seq(SimpleCalls) :
       \/ plan = Making(to, Moving(from, to, e))
       \/ plan = Moving(from, to, e) /\ Made(to)

PlanOK ==
  \/ plan \in Seq(SimpleCalls)
  \/ \E p \in Paths, h \in Handles : OpenStage(h, p) \/ MakeStage(h, p)
  \/ \E from, to \in Paths : MoveStage(from, to)

(* A stored file is renamed: the target shows what it showed, or that file. *)
SaveStage(from, to) ==
  LET e == Revealing(to, Hiding(from))
  IN  /\ to \notin Below[from] /\ from \notin Below[to] /\ Rooted(to)
      /\ \/ /\ \/ plan = Making(to, Moving(from, to, e))
               \/ plan = Moving(from, to, e) /\ Made(to)
            /\ upper[from] = seen[from] /\ Resolve(to) = seen[to]
            /\ Whiteouted(to) => seen[to] = "none"
         \/ /\ upper[to] = seen[from]
            /\ \/ plan = e /\ (Whiteouted(to) => seen[to] = "none")
               \/ plan = Hiding(from) /\ ~Whiteouted(to)

Saving == req.op = "rename" /\ req.stored /\ IsFile(seen[req.paths[1]])

SaveOK ==
  Saving => \E from, to \in Paths : req.paths = <<from, to>> /\ SaveStage(from, to)

StorageInv ==
  /\ TreesOK
  /\ plan \in Seq(Calls) /\ PlanOK
  /\ Idle <=> req = NoRequest
  /\ Idle => seen = View
  /\ \A i \in DOMAIN req.paths : req.paths[i] \in Paths
  /\ SaveOK
  /\ dirty \subseteq Paths
  /\ cuts \in 0..MaxCuts

LEMMA SimpleShapes ==
  ASSUME NEW c \in SimpleCalls
  PROVE  \E p \in Paths :
           \/ c = MakeParents(p) \/ c = RemoveEntry(p)
           \/ c = CreateWhiteout(p) \/ c = RemoveWhiteout(p)
           \/ \E v \in Node \ {"none"} : c = Put(p, v)
<1>1. CASE c \in [call : {"parents", "create", "remove", "white", "unwhite"}, at : Paths]
  BY <1>1 DEF SimpleCalls, MakeParents, RemoveEntry, CreateWhiteout, RemoveWhiteout
<1>2. CASE c \in [call : {"put"}, at : Paths, value : Node]
  BY <1>2 DEF SimpleCalls, Put
<1>3. CASE c \in [call : {"move"}, at : Paths, to : Paths]
           \cup [call : {"bind"}, at : Paths, handle : Handles]
  BY <1>3 DEF SimpleCalls
<1> QED BY <1>1, <1>2, <1>3 DEF SimpleCalls, Calls

LEMMA StoredPut ==
  ASSUME TreesOK, StorageCall, NEW p \in Paths, NEW v \in Node \ {"none"}, Head(plan) = Put(p, v)
  PROVE  TreesOK' /\ upper'[p] = v
<1>1. /\ DoPut(p, v) /\ Works(Put(p, v)) /\ lower' = lower
  BY CallDone
<1>2. Made(p) /\ (upper[p] # "none" => (upper[p] = "dir" <=> v = "dir"))
  BY <1>1, WorksFacts
<1>3. upper' = [upper EXCEPT ![p] = v] /\ UNCHANGED <<lower, white, open>>
  BY <1>1 DEF DoPut
<1> QED BY <1>2, <1>3, Stored

LEMMA SimpleCallKeeps ==
  ASSUME TreesOK, StorageCall, Head(plan) \in SimpleCalls
  PROVE  TreesOK'
<1>1. PICK p \in Paths :
           \/ Head(plan) = MakeParents(p) \/ Head(plan) = RemoveEntry(p)
           \/ Head(plan) = CreateWhiteout(p) \/ Head(plan) = RemoveWhiteout(p)
           \/ \E v \in Node \ {"none"} : Head(plan) = Put(p, v)
  BY SimpleShapes
<1>2. lower' = lower /\ Works(Head(plan))
  BY CallDone
<1>3. CASE Head(plan) = MakeParents(p)
  <2>1. DoMakeParents(p) /\ \A q \in Parents[p] : upper[q] \in {"none", "dir"}
    BY <1>2, <1>3, CallDone, WorksFacts
  <2> QED BY <1>2, <2>1, ParentsDone
<1>4. CASE Head(plan) = RemoveEntry(p)
  <2>1. DoRemove(p) /\ \A q \in Children[p] : upper[q] = "none"
    BY <1>2, <1>4, CallDone, WorksFacts
  <2> QED BY <1>2, <2>1, Removed
<1>5. CASE Head(plan) = CreateWhiteout(p)
  <2>1. DoCreateWhiteout(p) /\ \A q \in Parents[p] : white[q] # "file"
    BY <1>2, <1>5, CallDone, WorksFacts
  <2> QED BY <1>2, <2>1, WhiteoutCreated
<1>6. CASE Head(plan) = RemoveWhiteout(p)
  <2>1. DoRemoveWhiteout(p)
    BY <1>6, CallDone
  <2> QED BY <1>2, <2>1, WhiteoutRemoved
<1>7. CASE \E v \in Node \ {"none"} : Head(plan) = Put(p, v)
  BY <1>7, StoredPut
<1> QED BY <1>1, <1>3, <1>4, <1>5, <1>6, <1>7

LEMMA SimplePlans ==
  /\ SimpleCalls \subseteq Calls
  /\ \A e : e \in Seq(SimpleCalls) => e \in Seq(Calls)
  /\ \A e \in Seq(SimpleCalls) : e # <<>> => Head(e) \in SimpleCalls /\ Tail(e) \in Seq(SimpleCalls)
  /\ <<>> \in Seq(SimpleCalls)
<1>1. SimpleCalls \subseteq Calls
  BY DEF SimpleCalls
<1>2. \A e : e \in Seq(SimpleCalls) => e \in Seq(Calls)
  BY <1>1
<1>3. \A e \in Seq(SimpleCalls) :
        e # <<>> => Head(e) \in SimpleCalls /\ Tail(e) \in Seq(SimpleCalls)
  OBVIOUS
<1>4. <<>> \in Seq(SimpleCalls)
  OBVIOUS
<1> QED BY <1>1, <1>2, <1>3, <1>4

LEMMA BindCall ==
  ASSUME TreesOK, StorageCall, NEW h \in Handles, NEW p \in Paths, plan = Binding(h, p),
         IsFile(upper[p])
  PROVE  TreesOK' /\ plan' = <<>>
<1>1. Head(plan) = Bind(h, p) /\ Tail(plan) = <<>>
  BY EndFacts
<1>2. DoBind(h, p) /\ plan' = <<>> /\ lower' = lower
  BY <1>1, CallDone
<1> QED BY <1>2, Bound

LEMMA OpenCall ==
  ASSUME TreesOK, StorageCall, NEW h \in Handles, NEW p \in Paths, OpenStage(h, p)
  PROVE  TreesOK' /\ (plan' = <<>> \/ OpenStage(h, p)')
<1>1. /\ plan' = Tail(plan) /\ lower' = lower
  BY CallDone
<1>2. /\ Binding(h, p) \in Seq(Calls)
      /\ Filling(p, "empty", Binding(h, p)) \in Seq(Calls)
      /\ Head(Filling(p, "empty", Binding(h, p))) = Put(p, "empty")
      /\ Tail(Filling(p, "empty", Binding(h, p))) = Binding(h, p)
  BY EndFacts, FillingFacts, NodeFacts
<1>3. PICK e \in {Binding(h, p), Filling(p, "empty", Binding(h, p))} :
    \/ \E v \in Node :
         /\ IsFile(v)
         /\ \/ plan = Making(p, Copying(p, v, Revealing(p, e)))
            \/ plan = Copying(p, v, Revealing(p, e))
            \/ plan = Filling(p, v, Revealing(p, e))
    \/ IsFile(upper[p]) /\ plan = Revealing(p, e)
    \/ IsFile(upper[p]) /\ plan = e
  BY DEF OpenStage
<1>4. e \in Seq(Calls) /\ Revealing(p, e) \in Seq(Calls)
  BY <1>2, PlanFacts
<1>5. ASSUME NEW v \in Node, IsFile(v)
      PROVE  /\ Filling(p, v, Revealing(p, e)) \in Seq(Calls)
             /\ Head(Filling(p, v, Revealing(p, e))) = Put(p, v)
             /\ Tail(Filling(p, v, Revealing(p, e))) = Revealing(p, e)
             /\ Copying(p, v, Revealing(p, e)) \in Seq(Calls)
             /\ Head(Copying(p, v, Revealing(p, e))) = Put(p, "torn")
             /\ Tail(Copying(p, v, Revealing(p, e))) = Filling(p, v, Revealing(p, e))
  BY <1>4, FillingFacts, CopyingFacts
<1>6. ASSUME NEW v \in Node, IsFile(v), plan = Making(p, Copying(p, v, Revealing(p, e)))
      PROVE  TreesOK' /\ OpenStage(h, p)'
  <2>1. /\ Head(plan) = MakeParents(p) /\ Tail(plan) = Copying(p, v, Revealing(p, e))
    BY <1>5, <1>6, PlanFacts
  <2>2. TreesOK'
    BY <2>1, SimpleFacts, SimpleCallKeeps
  <2>3. plan' = Copying(p, v, Revealing(p, e))
    BY <1>1, <2>1
  <2> QED BY <1>6, <2>2, <2>3 DEF OpenStage
<1>7. ASSUME NEW v \in Node, IsFile(v), plan = Copying(p, v, Revealing(p, e))
      PROVE  TreesOK' /\ OpenStage(h, p)'
  <2>1. /\ Head(plan) = Put(p, "torn") /\ plan' = Filling(p, v, Revealing(p, e))
    BY <1>1, <1>5, <1>7
  <2>2. TreesOK'
    BY <2>1, StoredPut DEF Node
  <2> QED BY <1>7, <2>1, <2>2 DEF OpenStage
<1>8. ASSUME NEW v \in Node, IsFile(v), plan = Filling(p, v, Revealing(p, e))
      PROVE  TreesOK' /\ OpenStage(h, p)'
  <2>1. /\ Head(plan) = Put(p, v) /\ plan' = Revealing(p, e)
    BY <1>1, <1>5, <1>8
  <2>2. v \in Node \ {"none"}
    BY <1>8 DEF IsFile
  <2>3. TreesOK' /\ IsFile(upper'[p])
    BY <1>8, <2>1, <2>2, StoredPut
  <2> QED BY <2>1, <2>3 DEF OpenStage
<1>9. ASSUME IsFile(upper[p]), plan = Revealing(p, e)
      PROVE  TreesOK' /\ OpenStage(h, p)'
  <2>1. Head(plan) = RemoveWhiteout(p) /\ plan' = e
    BY <1>1, <1>4, <1>9, PlanFacts
  <2>2. DoRemoveWhiteout(p)
    BY <2>1, CallDone
  <2>3. TreesOK' /\ upper'[p] = upper[p]
    BY <1>1, <2>2, WhiteoutRemoved
  <2> QED BY <1>9, <2>1, <2>3 DEF OpenStage
<1>10. ASSUME IsFile(upper[p]), plan = Filling(p, "empty", Binding(h, p))
       PROVE  TreesOK' /\ OpenStage(h, p)'
  <2>1. Head(plan) = Put(p, "empty") /\ plan' = Binding(h, p)
    BY <1>1, <1>2, <1>10
  <2>2. TreesOK' /\ upper'[p] = "empty"
    BY <2>1, StoredPut DEF Node
  <2>3. IsFile(upper'[p])
    BY <2>2 DEF IsFile
  <2> QED BY <2>1, <2>2, <2>3 DEF OpenStage
<1> QED BY <1>3, <1>6, <1>7, <1>8, <1>9, <1>10, BindCall

LEMMA MakeCall ==
  ASSUME TreesOK, StorageCall, NEW h \in Handles, NEW p \in Paths, MakeStage(h, p)
  PROVE  TreesOK' /\ (MakeStage(h, p) \/ OpenStage(h, p))'
<1> DEFINE e == Revealing(p, Binding(h, p))
<1>1. /\ plan' = Tail(plan) /\ lower' = lower /\ Works(Head(plan))
  BY CallDone
<1>2. /\ e \in Seq(Calls) /\ Creating(p, e) \in Seq(Calls)
      /\ Head(Creating(p, e)) = OpenOrCreate(p) /\ Tail(Creating(p, e)) = e
      /\ Head(Making(p, Creating(p, e))) = MakeParents(p)
      /\ Tail(Making(p, Creating(p, e))) = Creating(p, e)
  <2>1. e \in Seq(Calls)
    BY EndFacts, PlanFacts
  <2> HIDE DEF e
  <2>2. /\ Creating(p, e) \in Seq(Calls)
        /\ Head(Creating(p, e)) = OpenOrCreate(p) /\ Tail(Creating(p, e)) = e
    BY <2>1, PlanFacts
  <2> QED BY <2>1, <2>2, PlanFacts
<1>3. CASE plan = Making(p, Creating(p, e))
  <2>1. Head(plan) = MakeParents(p) /\ plan' = Creating(p, e)
    BY <1>1, <1>2, <1>3
  <2>2. DoMakeParents(p) /\ \A q \in Parents[p] : upper[q] \in {"none", "dir"}
    BY <1>1, <2>1, CallDone, WorksFacts
  <2>3. TreesOK' /\ Made(p)'
    BY <1>1, <2>2, ParentsDone
  <2> QED BY <2>1, <2>3 DEF MakeStage
<1>4. CASE plan = Creating(p, e) /\ Made(p)
  <2>1. Head(plan) = OpenOrCreate(p) /\ plan' = e
    BY <1>1, <1>2, <1>4
  <2>2. DoOpenOrCreate(p) /\ upper[p] # "dir"
    BY <1>1, <2>1, CallDone, WorksFacts
  <2>3. PICK v \in Node \ {"none"} : upper' = [upper EXCEPT ![p] = v] /\ IsFile(v)
    <3>1. upper[p] \in Node
      BY DEF TreesOK
    <3>2. PICK truncate \in BOOLEAN :
            upper' = [upper EXCEPT ![p] = IF @ = "none" \/ truncate THEN "empty" ELSE @]
      BY <2>2 DEF DoOpenOrCreate
    <3> DEFINE v == IF upper[p] = "none" \/ truncate THEN "empty" ELSE upper[p]
    <3>3. v \in Node \ {"none"} /\ IsFile(v)
      BY <2>2, <3>1 DEF Node, IsFile
    <3>4. upper' = [upper EXCEPT ![p] = v]
      BY <3>2
    <3> QED BY <3>3, <3>4
  <2>4. UNCHANGED <<lower, white, open>>
    BY <1>1, <2>2 DEF DoOpenOrCreate
  <2>5. upper[p] # "none" => (upper[p] = "dir" <=> v = "dir")
    BY <2>2, <2>3 DEF IsFile
  <2>6. TreesOK' /\ upper'[p] = v
    BY <1>4, <2>3, <2>4, <2>5, Stored
  <2>7. OpenStage(h, p)'
    BY <2>1, <2>3, <2>6 DEF OpenStage
  <2> QED BY <2>6, <2>7
<1> QED BY <1>3, <1>4 DEF MakeStage

LEMMA MoveCall ==
  ASSUME TreesOK, StorageCall, NEW from \in Paths, NEW to \in Paths, MoveStage(from, to)
  PROVE  TreesOK' /\ (MoveStage(from, to)' \/ plan' \in Seq(SimpleCalls))
<1>1. /\ plan' = Tail(plan) /\ lower' = lower /\ Works(Head(plan))
  BY CallDone
<1>2. PICK e \in Seq(SimpleCalls) :
       \/ plan = Making(to, Moving(from, to, e))
       \/ plan = Moving(from, to, e) /\ Made(to)
  BY DEF MoveStage
<1>3. /\ e \in Seq(Calls) /\ Moving(from, to, e) \in Seq(Calls)
      /\ Head(Moving(from, to, e)) = Move(from, to) /\ Tail(Moving(from, to, e)) = e
      /\ Head(Making(to, Moving(from, to, e))) = MakeParents(to)
      /\ Tail(Making(to, Moving(from, to, e))) = Moving(from, to, e)
  BY SimplePlans, PlanFacts
<1>4. CASE plan = Making(to, Moving(from, to, e))
  <2>1. Head(plan) = MakeParents(to) /\ plan' = Moving(from, to, e)
    BY <1>1, <1>3, <1>4
  <2>2. DoMakeParents(to) /\ \A q \in Parents[to] : upper[q] \in {"none", "dir"}
    BY <1>1, <2>1, CallDone, WorksFacts
  <2>3. TreesOK' /\ Made(to)'
    BY <1>1, <2>2, ParentsDone
  <2> QED BY <2>1, <2>3 DEF MoveStage
<1>5. CASE plan = Moving(from, to, e) /\ Made(to)
  <2>1. Head(plan) = Move(from, to) /\ plan' = e
    BY <1>1, <1>3, <1>5
  <2>2. DoMove(from, to) /\ Works(Move(from, to))
    BY <1>1, <2>1, CallDone
  <2>3. TreesOK'
    BY <1>1, <1>5, <2>2, TreeMoved DEF MoveStage
  <2> QED BY <2>1, <2>3
<1> QED BY <1>2, <1>4, <1>5

LEMMA StorageCallKeepsTrees ==
  ASSUME TreesOK, PlanOK, StorageCall
  PROVE  TreesOK' /\ PlanOK'
<1>1. plan # <<>> /\ plan' = Tail(plan)
  BY CallDone
<1>2. CASE plan \in Seq(SimpleCalls)
  BY <1>1, <1>2, SimplePlans, SimpleCallKeeps DEF PlanOK
<1>3. ASSUME NEW p \in Paths, NEW h \in Handles, OpenStage(h, p)
      PROVE  TreesOK' /\ PlanOK'
  BY <1>3, OpenCall, SimplePlans DEF PlanOK
<1>4. ASSUME NEW p \in Paths, NEW h \in Handles, MakeStage(h, p)
      PROVE  TreesOK' /\ PlanOK'
  BY <1>4, MakeCall DEF PlanOK
<1>5. ASSUME NEW from \in Paths, NEW to \in Paths, MoveStage(from, to)
      PROVE  TreesOK' /\ PlanOK'
  BY <1>5, MoveCall DEF PlanOK
<1> QED BY <1>2, <1>3, <1>4, <1>5 DEF PlanOK

LEMMA SaveCall ==
  ASSUME TreesOK, StorageCall, NEW from \in Paths, NEW to \in Paths, SaveStage(from, to),
         IsFile(seen[from]), plan' # <<>>
  PROVE  SaveStage(from, to)'
<1> DEFINE e == Revealing(to, Hiding(from))
<1>1. /\ plan' = Tail(plan) /\ lower' = lower /\ Works(Head(plan)) /\ seen' = seen
  BY CallDone
<1>2. /\ to \notin Below[from] /\ from \notin Below[to] /\ Rooted(to)
      /\ from # to /\ from \notin Parents[to] /\ to \notin Parents[to]
  BY BelowIsParents, ParentsOrder DEF SaveStage
<1>3. /\ e \in Seq(Calls) /\ Head(e) = RemoveWhiteout(to) /\ Tail(e) = Hiding(from)
      /\ Moving(from, to, e) \in Seq(Calls)
      /\ Head(Moving(from, to, e)) = Move(from, to) /\ Tail(Moving(from, to, e)) = e
      /\ Head(Making(to, Moving(from, to, e))) = MakeParents(to)
      /\ Tail(Making(to, Moving(from, to, e))) = Moving(from, to, e)
      /\ Tail(Hiding(from)) = <<>>
  <2>1. Hiding(from) \in Seq(Calls) /\ Tail(Hiding(from)) = <<>>
    BY EndFacts
  <2>2. e \in Seq(Calls) /\ Head(e) = RemoveWhiteout(to) /\ Tail(e) = Hiding(from)
    BY <2>1, PlanFacts
  <2> HIDE DEF e
  <2>3. /\ Moving(from, to, e) \in Seq(Calls)
        /\ Head(Moving(from, to, e)) = Move(from, to) /\ Tail(Moving(from, to, e)) = e
    BY <2>2, PlanFacts
  <2> QED BY <2>1, <2>2, <2>3, PlanFacts
<1>4. e' = e /\ Hiding(from)' = Hiding(from)
  BY <1>1 DEF Revealing, Hiding, UpdateWhiteout, CreateWhiteout, RemoveWhiteout
<1>5. \A q \in Parents[to] : q \in Paths /\ q # from /\ q # to /\ Resolve(q) = "dir"
  BY <1>2, ParentsArePaths DEF Rooted
<1>6. CASE /\ plan = Making(to, Moving(from, to, e))
           /\ upper[from] = seen[from] /\ Resolve(to) = seen[to]
           /\ Whiteouted(to) => seen[to] = "none"
  <2>1. DoMakeParents(to) /\ plan' = Moving(from, to, e)
    BY <1>1, <1>3, <1>6, CallDone
  <2>2. /\ Made(to)' /\ \A q \in Paths \ Parents[to] : Kept(q)
        /\ \A q \in Paths : Resolve(q)' = Resolve(q)
    BY <1>1, <1>2, <2>1, ParentsMade
  <2>3. Rooted(to)'
    BY <1>5, <2>2 DEF Rooted
  <2>4. upper'[from] = seen'[from] /\ Resolve(to)' = seen'[to]
        /\ (Whiteouted(to)' => seen'[to] = "none")
    BY <1>1, <1>2, <1>6, <2>2 DEF Kept
  <2>5. plan' = Moving(from, to, Revealing(to, Hiding(from)))'
    BY <1>4, <2>1 DEF Moving, Move
  <2> QED BY <1>2, <2>2, <2>3, <2>4, <2>5 DEF SaveStage
<1>7. CASE /\ plan = Moving(from, to, e) /\ Made(to)
           /\ upper[from] = seen[from] /\ Resolve(to) = seen[to]
           /\ Whiteouted(to) => seen[to] = "none"
  <2>1. DoMove(from, to) /\ Works(Move(from, to)) /\ plan' = e
    BY <1>1, <1>3, <1>7, CallDone
  <2>2. IsFile(upper[from]) /\ upper[to] # "dir"
    BY <1>7, <2>1, MoveWorks DEF IsFile
  <2>3. /\ upper'[to] = upper[from] /\ (Whiteouted(to)' <=> Whiteouted(to))
        /\ \A q \in Paths \ {from, to} : Kept(q)
    BY <1>1, <1>2, <1>7, <2>1, <2>2, FileMoved
  <2>4. Rooted(to)'
    BY <1>1, <1>5, <2>3, ResolveKept DEF Rooted
  <2>5. plan' = Revealing(to, Hiding(from))'
    BY <1>4, <2>1
  <2> QED BY <1>1, <1>2, <1>7, <2>3, <2>4, <2>5 DEF SaveStage
<1>8. CASE plan = e /\ upper[to] = seen[from]
  <2>1. DoRemoveWhiteout(to) /\ plan' = Hiding(from)
    BY <1>1, <1>3, <1>8, CallDone
  <2>2. /\ upper'[to] = upper[to] /\ ~Whiteouted(to)'
        /\ \A q \in Paths \ {to} : Kept(q)
    BY <1>1, <2>1, WhiteoutRemoved
  <2>3. Rooted(to)'
    BY <1>1, <1>5, <2>2, ResolveKept DEF Rooted
  <2>4. plan' = Hiding(from)'
    BY <1>4, <2>1
  <2> QED BY <1>1, <1>2, <1>8, <2>2, <2>3, <2>4 DEF SaveStage
<1>9. plan # Hiding(from)
  BY <1>1, <1>3
<1> QED BY <1>6, <1>7, <1>8, <1>9 DEF SaveStage

LEMMA SimpleConcat ==
  \A u, v \in Seq(SimpleCalls) : u \o v \in Seq(SimpleCalls)
OBVIOUS

LEMMA SimpleOne ==
  \A c \in SimpleCalls : <<c>> \in Seq(SimpleCalls)
OBVIOUS

LEMMA SimpleCons ==
  ASSUME NEW c \in SimpleCalls, NEW e \in Seq(SimpleCalls)
  PROVE  Cons(c, e) \in Seq(SimpleCalls)
<1>1. <<c>> \in Seq(SimpleCalls)
  BY SimpleOne
<1>2. <<c>> \o e \in Seq(SimpleCalls)
  BY <1>1, SimpleConcat
<1> QED BY <1>2 DEF Cons

LEMMA EnsureSimple ==
  ASSUME TreesOK, NEW p \in Paths
  PROVE  EnsureUpperForWrite(p) \in Seq(SimpleCalls)
<1> DEFINE copy == IF Resolve(p) = "none" THEN <<Put(p, "empty")>> ELSE CopyNode(lower[p], p)
<1>1. CASE upper[p] # "none"
  BY <1>1, SimplePlans DEF EnsureUpperForWrite
<1>2. CASE upper[p] = "none"
  <2>1. MakeParents(p) \in SimpleCalls /\ RemoveWhiteout(p) \in SimpleCalls
        /\ Put(p, "empty") \in SimpleCalls
    BY SimpleFacts DEF Node
  <2>2. <<MakeParents(p)>> \in Seq(SimpleCalls) /\ <<RemoveWhiteout(p)>> \in Seq(SimpleCalls)
        /\ <<Put(p, "empty")>> \in Seq(SimpleCalls)
    BY <2>1, SimpleOne
  <2>3. Resolve(p) # "none" => lower[p] \in Node \ {"none"}
    BY <1>2 DEF Resolve, TreesOK
  <2>4. copy \in Seq(SimpleCalls)
    BY <2>2, <2>3, CopyNodeSimple
  <2>5. EnsureUpperForWrite(p) = (<<MakeParents(p)>> \o copy) \o <<RemoveWhiteout(p)>>
    BY <1>2 DEF EnsureUpperForWrite
  <2> HIDE DEF copy
  <2>6. <<MakeParents(p)>> \o copy \in Seq(SimpleCalls)
    BY <2>2, <2>4, SimpleConcat
  <2> QED BY <2>2, <2>5, <2>6, SimpleConcat
<1> QED BY <1>1, <1>2

LEMMA RemovePlanSimple ==
  ASSUME NEW p \in Paths
  PROVE  RemovePlan(p) \in Seq(SimpleCalls)
<1>1. <<RemoveEntry(p)>> \in Seq(SimpleCalls) /\ <<UpdateWhiteout(p)>> \in Seq(SimpleCalls)
  BY SimpleFacts, SimpleOne
<1> QED BY <1>1, SimplePlans, SimpleConcat DEF RemovePlan

(* What lookups show is what the trees hold. *)
LEMMA SeenFacts ==
  ASSUME TreesOK, seen = View, NEW p \in Paths
  PROVE  /\ InDirectory(p) => Rooted(p) /\ Resolve(p) = seen[p]
         /\ seen[p] # "none" =>
              /\ InDirectory(p) /\ Rooted(p) /\ Resolve(p) = seen[p] /\ ~Whiteouted(p)
              /\ upper[p] \in {"none", seen[p]}
              /\ upper[p] = "none" => lower[p] = seen[p]
<1>1. ASSUME InDirectory(p)
      PROVE  Rooted(p) /\ Resolve(p) = seen[p]
  <2>1. Rooted(p)
    BY <1>1, ViewFacts, ParentsArePaths DEF InDirectory, Rooted
  <2> QED BY <2>1, ViewFacts
<1>2. ASSUME seen[p] # "none"
      PROVE  /\ InDirectory(p) /\ Rooted(p) /\ Resolve(p) = seen[p] /\ ~Whiteouted(p)
             /\ upper[p] \in {"none", seen[p]}
             /\ upper[p] = "none" => lower[p] = seen[p]
  <2>1. InDirectory(p)
    BY <1>2, ViewFacts DEF InDirectory, WellFormed
  <2> QED BY <1>1, <1>2, <2>1 DEF Resolve
<1> QED BY <1>1, <1>2

(* A request that keeps the trees so far only has its plan. *)
LEMMA PlanBegins ==
  ASSUME StorageInv, NEW op, NEW paths, NEW calls, Begin(op, paths, calls), op # "none",
         \A i \in DOMAIN paths : paths[i] \in Paths,
         calls \in Seq(Calls), PlanOK', SaveOK'
  PROVE  StorageInv'
<1>1. /\ Idle /\ plan' = calls /\ calls # <<>>
      /\ req' = [op |-> op, paths |-> paths, stored |-> upper[paths[1]] # "none"]
      /\ UNCHANGED <<lower, upper, white, open, seen, dirty, cuts>>
  BY DEF Begin
<1>2. TreesOK'
  BY <1>1 DEF StorageInv, TreesOK, WellFormed
<1>3. req'.paths = paths /\ req' # NoRequest
  <2>1. req'.op = op /\ NoRequest.op = "none" /\ req'.paths = paths
    BY <1>1 DEF NoRequest
  <2> QED BY <2>1
<1>4. ~Idle'
  BY <1>1 DEF Idle
<1> QED BY <1>1, <1>2, <1>3, <1>4 DEF StorageInv, Idle, NoRequest

LEMMA SimpleBegins ==
  ASSUME StorageInv, NEW op, NEW p \in Paths, NEW calls, Begin(op, <<p>>, calls),
         op \notin {"none", "rename"}, calls \in Seq(SimpleCalls)
  PROVE  StorageInv'
<1>1. plan' = calls /\ req'.op = op
  BY DEF Begin
<1>2. PlanOK'
  BY <1>1 DEF PlanOK
<1>3. SaveOK'
  BY <1>1 DEF SaveOK, Saving
<1>4. \A i \in DOMAIN <<p>> : <<p>>[i] \in Paths
  OBVIOUS
<1>5. calls \in Seq(Calls)
  BY SimplePlans
<1> QED BY <1>2, <1>3, <1>4, <1>5, PlanBegins

LEMMA SetattrKeeps ==
  ASSUME StorageInv, NEW p \in Paths, NEW truncate \in BOOLEAN, Setattr(p, truncate)
  PROVE  StorageInv'
<1>1. Begin("setattr", <<p>>, EnsureUpperForWrite(p) \o Truncation(p, truncate))
  BY DEF Setattr
<1>2. Truncation(p, truncate) \in Seq(SimpleCalls)
  <2>1. Put(p, "empty") \in SimpleCalls
    BY SimpleFacts DEF Node
  <2> QED BY <2>1, SimpleOne, SimplePlans DEF Truncation
<1>3. EnsureUpperForWrite(p) \o Truncation(p, truncate) \in Seq(SimpleCalls)
  BY <1>2, EnsureSimple, SimpleConcat DEF StorageInv
<1> DEFINE calls == EnsureUpperForWrite(p) \o Truncation(p, truncate)
<1>4. Begin("setattr", <<p>>, calls) /\ calls \in Seq(SimpleCalls)
  BY <1>1, <1>3
<1> HIDE DEF calls
<1> QED BY <1>4, SimpleBegins

LEMMA RemoveKeeps ==
  ASSUME StorageInv, NEW p \in Paths, NEW op \in {"unlink", "rmdir"},
         Begin(op, <<p>>, RemovePlan(p))
  PROVE  StorageInv'
BY RemovePlanSimple, SimpleBegins

LEMMA MkdirKeeps ==
  ASSUME StorageInv, NEW p \in Paths, Mkdir(p)
  PROVE  StorageInv'
<1> DEFINE calls == <<MakeParents(p), Put(p, "dir"), RemoveWhiteout(p)>>
<1>1. Begin("mkdir", <<p>>, calls)
  BY DEF Mkdir
<1>2. calls \in Seq(SimpleCalls)
  <2>1. /\ MakeParents(p) \in SimpleCalls
        /\ Put(p, "dir") \in SimpleCalls
        /\ RemoveWhiteout(p) \in SimpleCalls
    BY SimpleFacts DEF Node
  <2> QED BY <2>1
<1> HIDE DEF calls
<1> QED BY <1>1, <1>2, SimpleBegins

LEMMA CreateKeeps ==
  ASSUME StorageInv, NEW p \in Paths, NEW h \in Handles, Create(h, p)
  PROVE  StorageInv'
<1> DEFINE rest == Creating(p, Revealing(p, Binding(h, p)))
           calls == <<MakeParents(p), OpenOrCreate(p), RemoveWhiteout(p), Bind(h, p)>>
<1>1. Begin("create", <<p>>, calls)
  BY DEF Create
<1>2. calls = Making(p, rest)
  BY CallsFacts, Cells DEF Making, Creating, Revealing, Binding
<1>3. plan' = calls /\ req'.op = "create"
  BY <1>1 DEF Begin
<1>4. PlanOK'
  <2>1. MakeStage(h, p)'
    BY <1>2, <1>3 DEF MakeStage
  <2> QED BY <2>1 DEF PlanOK
<1>5. SaveOK'
  BY <1>3 DEF SaveOK, Saving
<1>6. \A i \in DOMAIN <<p>> : <<p>>[i] \in Paths
  OBVIOUS
<1>7. calls \in Seq(Calls)
  <2>1. Revealing(p, Binding(h, p)) \in Seq(Calls)
    BY EndFacts, PlanFacts
  <2>2. rest \in Seq(Calls)
    BY <2>1, PlanFacts
  <2> HIDE DEF rest
  <2> QED BY <1>2, <2>2, PlanFacts
<1> HIDE DEF calls
<1> QED BY <1>1, <1>4, <1>5, <1>6, <1>7, PlanBegins

LEMMA OpenKeeps ==
  ASSUME StorageInv, NEW p \in Paths, NEW h \in Handles, NEW truncate \in BOOLEAN,
         Open(h, p, truncate)
  PROVE  StorageInv'
<1> DEFINE e == Truncation(p, truncate) \o <<Bind(h, p)>>
           calls == (EnsureUpperForWrite(p) \o Truncation(p, truncate)) \o <<Bind(h, p)>>
<1>1. IsFile(seen[p]) /\ Idle /\ Begin("open", <<p>>, calls)
  BY DEF Open, Begin
<1>2. TreesOK /\ seen = View /\ seen[p] # "none"
  BY <1>1 DEF StorageInv, IsFile
<1>3. /\ ~Whiteouted(p) /\ Resolve(p) # "none" /\ upper[p] \in {"none", seen[p]}
      /\ upper[p] = "none" => lower[p] = seen[p]
  BY <1>2, SeenFacts
<1>4. EnsureUpperForWrite(p) \in Seq(Calls)
  BY <1>2, EnsureSimple, SimplePlans
<1>5. e \in {Binding(h, p), Filling(p, "empty", Binding(h, p))} /\ e \in Seq(Calls)
      /\ Truncation(p, truncate) \in Seq(Calls) /\ <<Bind(h, p)>> \in Seq(Calls)
  <2>1. Bind(h, p) \in Calls /\ Put(p, "empty") \in Calls
    BY CallsFacts DEF Node
  <2>2. <<Bind(h, p)>> = Binding(h, p) /\ Binding(h, p) \in Seq(Calls)
    BY <2>1, Cells, EndFacts DEF Binding
  <2>3. <<>> \o Binding(h, p) = Binding(h, p)
    BY <2>2
  <2>4. <<Put(p, "empty")>> \o Binding(h, p) = Filling(p, "empty", Binding(h, p))
    BY <2>1, <2>2, ConsConcat DEF Filling
  <2>5. Filling(p, "empty", Binding(h, p)) \in Seq(Calls)
    BY <2>2, FillingFacts, NodeFacts
  <2>6. Truncation(p, truncate) \in Seq(Calls)
    BY <2>1 DEF Truncation
  <2> QED BY <2>2, <2>3, <2>4, <2>5, <2>6 DEF Truncation
<1>6. calls = EnsureUpperForWrite(p) \o e
  BY <1>4, <1>5, ConcatAssoc
<1> HIDE DEF e
<1>7. calls = IF upper[p] # "none" THEN e
              ELSE Making(p, IF lower[p] = "dir"
                             THEN Filling(p, lower[p], Revealing(p, e))
                             ELSE Copying(p, lower[p], Revealing(p, e)))
  BY <1>2, <1>3, <1>5, <1>6, EnsurePlan
<1>8. calls \in Seq(Calls)
  BY <1>4, <1>5, <1>6, ConcatAssoc
<1> HIDE DEF calls
<1>9. plan' = calls /\ req'.op = "open" /\ upper' = upper
  BY <1>1 DEF Begin
<1>10. OpenStage(h, p)'
  <2>1. CASE upper[p] # "none"
    <3>1. IsFile(upper'[p]) /\ plan' = e
      BY <1>1, <1>3, <1>7, <1>9, <2>1
    <3> QED BY <1>5, <3>1 DEF OpenStage
  <2>2. CASE upper[p] = "none"
    <3>1. PICK v \in Node : v = lower[p] /\ IsFile(v) /\ v # "dir"
      BY <1>1, <1>2, <1>3, <2>2 DEF TreesOK, IsFile
    <3>2. plan' = Making(p, Copying(p, v, Revealing(p, e)))
      BY <1>7, <1>9, <2>2, <3>1
    <3> QED BY <1>5, <3>1, <3>2 DEF OpenStage
  <2> QED BY <2>1, <2>2
<1>11. PlanOK'
  BY <1>10 DEF PlanOK
<1>12. SaveOK'
  BY <1>9 DEF SaveOK, Saving
<1>13. \A i \in DOMAIN <<p>> : <<p>>[i] \in Paths
  OBVIOUS
<1> QED BY <1>1, <1>8, <1>11, <1>12, <1>13, PlanBegins

LEMMA RenameKeeps ==
  ASSUME StorageInv, NEW from \in Paths, NEW to \in Paths, Rename(from, to)
  PROVE  StorageInv'
<1> DEFINE e == Revealing(to, Hiding(from))
<1>1. /\ seen[from] # "none" /\ InDirectory(to)
      /\ to \notin Below[from] /\ from \notin Below[to]
      /\ \A q \in Below[from] : Moved(q, from, to) \in Paths
      /\ Begin("rename", <<from, to>>, RenamePlan(from, to))
  BY DEF Rename
<1>2. /\ Idle /\ plan' = RenamePlan(from, to) /\ req'.paths = <<from, to>>
      /\ req'.stored <=> upper[from] # "none"
      /\ UNCHANGED <<lower, upper, white, open, seen, dirty, cuts>>
  <2>1. <<from, to>>[1] = from
    OBVIOUS
  <2> QED BY <1>1, <2>1 DEF Begin
<1>3. TreesOK /\ seen = View /\ lower \in [Paths -> Node]
  BY <1>2 DEF StorageInv, TreesOK
<1>4. /\ MakeParents(to) \in SimpleCalls /\ MakeParents(to) \in Calls
      /\ RemoveWhiteout(to) \in SimpleCalls /\ RemoveWhiteout(to) \in Calls
      /\ CreateWhiteout(from) \in SimpleCalls
      /\ UpdateWhiteout(from) \in SimpleCalls /\ UpdateWhiteout(from) \in Calls
      /\ Move(from, to) \in Calls
  BY SimpleFacts, CallsFacts, SimplePlans
<1>5. e \in Seq(SimpleCalls) /\ e \in Seq(Calls)
  <2>1. Hiding(from) \in Seq(SimpleCalls)
    BY <1>4, SimpleCons, SimplePlans DEF Hiding
  <2>2. e \in Seq(SimpleCalls)
    BY <1>4, <2>1, SimpleCons DEF Revealing
  <2> QED BY <2>2, SimplePlans
<1>6. CASE upper[from] # "none"
  <2>1. <<Move(from, to), RemoveWhiteout(to), UpdateWhiteout(from)>> = Moving(from, to, e)
    BY <1>4, Cells DEF Moving, Revealing, Hiding
  <2> HIDE DEF e
  <2>2. Moving(from, to, e) \in Seq(Calls)
    BY <1>5, PlanFacts
  <2>3. <<MakeParents(to)>> \o Moving(from, to, e) = Making(to, Moving(from, to, e))
    BY <1>4, <2>2, OneThen DEF Making
  <2>4. plan' = Making(to, Moving(from, to, e)) /\ plan' \in Seq(Calls)
    <3>1. RenamePlan(from, to) = Making(to, Moving(from, to, e))
      BY <1>6, <2>1, <2>3 DEF RenamePlan
    <3>2. Making(to, Moving(from, to, e)) \in Seq(Calls)
      BY <2>2, PlanFacts
    <3> QED BY <1>2, <3>1, <3>2
  <2>5. MoveStage(from, to)'
    BY <1>1, <1>5, <2>4 DEF MoveStage
  <2>6. PlanOK'
    BY <2>5 DEF PlanOK
  <2>7. SaveOK'
    <3>1. /\ Rooted(to) /\ Resolve(to) = seen[to] /\ upper[from] = seen[from]
          /\ Whiteouted(to) => seen[to] = "none"
      BY <1>1, <1>3, <1>6, SeenFacts DEF Resolve
    <3>2. /\ Rooted(to)' /\ (Resolve(to)' = seen'[to]) /\ upper'[from] = seen'[from]
          /\ Whiteouted(to)' => seen'[to] = "none"
      BY <1>2, <3>1 DEF Rooted, Resolve, Whiteouted
    <3>3. Hiding(from)' = Hiding(from)
      BY <1>2 DEF Hiding, UpdateWhiteout, CreateWhiteout, RemoveWhiteout
    <3>4. plan' = Making(to, Moving(from, to, Revealing(to, Hiding(from))))'
      BY <2>4, <3>3 DEF e, Making, Moving, Revealing, MakeParents, Move, RemoveWhiteout
    <3>5. SaveStage(from, to)'
      BY <1>1, <3>2, <3>4 DEF SaveStage
    <3> QED BY <1>2, <3>5 DEF SaveOK
  <2> QED BY <1>1, <1>2, <2>4, <2>6, <2>7, PlanBegins
<1>7. CASE upper[from] = "none"
  <2> DEFINE copy == CopyTree(from, to)
             last == <<RemoveWhiteout(to), CreateWhiteout(from)>>
             first == <<MakeParents(to)>>
  <2>1. copy \in Seq(SimpleCalls)
    BY <1>1, <1>3, CopyTreeSimple
  <2>2. last \in Seq(SimpleCalls) /\ first \in Seq(SimpleCalls)
    BY <1>4
  <2>3. plan' = first \o (copy \o last)
    BY <1>2, <1>7 DEF RenamePlan
  <2> HIDE DEF copy, last, first
  <2>4. plan' \in Seq(SimpleCalls)
    BY <2>1, <2>2, <2>3, SimpleConcat
  <2>5. plan' \in Seq(Calls) /\ PlanOK'
    BY <2>4, SimplePlans DEF PlanOK
  <2>6. SaveOK'
    BY <1>2, <1>7 DEF SaveOK, Saving
  <2> QED BY <1>1, <1>2, <2>5, <2>6, PlanBegins
<1> QED BY <1>6, <1>7

LEMMA CallKeeps ==
  ASSUME StorageInv, StorageCall
  PROVE  StorageInv'
<1>1. /\ plan # <<>> /\ plan' = Tail(plan) /\ UNCHANGED <<lower, dirty, cuts>>
      /\ IF plan' = <<>> THEN req' = NoRequest /\ seen' = View'
                         ELSE req' = req /\ seen' = seen
  BY CallDone
<1>2. TreesOK' /\ PlanOK'
  BY StorageCallKeepsTrees DEF StorageInv
<1>3. plan' \in Seq(Calls)
  BY <1>1 DEF StorageInv
<1>4. SaveOK'
  <2>1. CASE plan' = <<>>
    BY <1>1, <2>1 DEF SaveOK, Saving, NoRequest
  <2>2. CASE plan' # <<>>
    <3> SUFFICES ASSUME Saving'
                 PROVE  \E from, to \in Paths : req'.paths = <<from, to>> /\ SaveStage(from, to)'
      BY DEF SaveOK
    <3>1. Saving /\ req' = req
      BY <1>1, <2>2 DEF Saving
    <3>2. PICK from \in Paths, to \in Paths : req.paths = <<from, to>> /\ SaveStage(from, to)
      BY <3>1 DEF StorageInv, SaveOK
    <3>3. IsFile(seen[from])
      BY <3>1, <3>2 DEF Saving
    <3>4. SaveStage(from, to)'
      BY <2>2, <3>2, <3>3, SaveCall DEF StorageInv
    <3> QED BY <3>1, <3>2, <3>4
  <2> QED BY <2>1, <2>2
<1>5. (Idle <=> req = NoRequest)' /\ (Idle => seen = View)'
  BY <1>1 DEF StorageInv, Idle
<1>6. \A i \in DOMAIN req'.paths : req'.paths[i] \in Paths
  BY <1>1 DEF StorageInv, NoRequest
<1> QED BY <1>1, <1>2, <1>3, <1>4, <1>5, <1>6 DEF StorageInv

LEMMA CutOffKeeps ==
  ASSUME StorageInv, Abandon
  PROVE  StorageInv'
<1>1. /\ plan' = <<>> /\ req' = NoRequest /\ seen' = View
      /\ dirty' = dirty \cup UNION {Below[req.paths[i]] : i \in DOMAIN req.paths}
      /\ UNCHANGED <<lower, upper, white, open>>
  BY DEF Abandon
<1>2. TreesOK'
  BY <1>1 DEF StorageInv, TreesOK, WellFormed
<1>3. View' = View
  BY <1>1 DEF View, Resolve, Whiteouted
<1>4. dirty' \subseteq Paths
  BY <1>1, ParentsArePaths DEF StorageInv
<1>5. cuts' \in 0..MaxCuts
  BY BoundsAssumption DEF StorageInv, Abandon
<1>6. PlanOK' /\ plan' \in Seq(Calls)
  BY <1>1, SimplePlans DEF PlanOK
<1>7. SaveOK' /\ \A i \in DOMAIN req'.paths : req'.paths[i] \in Paths
  BY <1>1 DEF SaveOK, Saving, NoRequest
<1> QED BY <1>1, <1>2, <1>3, <1>4, <1>5, <1>6, <1>7 DEF StorageInv, Idle

(* Between requests the trees may change in any way that keeps them. *)
LEMMA QuietKeeps ==
  ASSUME StorageInv, Idle, TreesOK', UNCHANGED <<plan, req>>, seen' = View',
         dirty' \subseteq Paths, cuts' \in 0..MaxCuts
  PROVE  StorageInv'
<1>1. plan = <<>> /\ req = NoRequest
  BY DEF StorageInv, Idle
<1>2. PlanOK' /\ plan' \in Seq(Calls)
  BY <1>1, SimplePlans DEF PlanOK
<1>3. SaveOK' /\ \A i \in DOMAIN req'.paths : req'.paths[i] \in Paths
  BY <1>1 DEF SaveOK, Saving, NoRequest
<1> QED BY <1>1, <1>2, <1>3 DEF StorageInv, Idle

LEMMA WriteQuiet ==
  ASSUME StorageInv, NEW h \in Handles, NEW c \in Contents, Write(h, c)
  PROVE  StorageInv'
<1>1. PICK p \in Paths :
      /\ p = open[h] /\ Idle
      /\ upper' = [upper EXCEPT ![p] = c] /\ seen' = View'
      /\ UNCHANGED <<lower, white, open, plan, req, dirty, cuts>>
  BY DEF Write
<1>2. IsFile(upper[p]) /\ Made(p)
  BY <1>1 DEF StorageInv, TreesOK, WellFormed, IsFile, Made
<1>3. c \in Node \ {"none"} /\ c # "dir"
  BY NodeFacts
<1>4. upper[p] # "none" => (upper[p] = "dir" <=> c = "dir")
  BY <1>2, <1>3 DEF IsFile
<1>5. TreesOK'
  BY <1>1, <1>2, <1>3, <1>4, Stored DEF StorageInv
<1> QED BY <1>1, <1>5, QuietKeeps DEF StorageInv

LEMMA ReleaseQuiet ==
  ASSUME StorageInv, NEW h \in Handles, Release(h)
  PROVE  StorageInv'
<1>1. /\ open \in [Handles -> Paths \cup {Closed, Gone}]
      /\ open' = [open EXCEPT ![h] = Closed] /\ Idle
      /\ UNCHANGED <<lower, upper, white, plan, req, seen, dirty, cuts>>
  BY DEF StorageInv, TreesOK, Release
<1>2. \A g \in Handles : open'[g] \in Paths => open'[g] = open[g]
  BY <1>1, HandlesAssumption
<1>3. TreesOK'
  BY <1>1, <1>2 DEF StorageInv, TreesOK, WellFormed
<1>4. seen' = View'
  BY <1>1 DEF StorageInv, View, Resolve, Whiteouted
<1> QED BY <1>1, <1>3, <1>4, QuietKeeps DEF StorageInv

LEMMA StorageInit == Init => StorageInv
<1> SUFFICES ASSUME Init
             PROVE  StorageInv
  OBVIOUS
<1>1. IInv /\ plan = <<>> /\ req = NoRequest
  BY InitHolds DEF Init
<1>2. PlanOK
  BY <1>1, SimplePlans DEF PlanOK
<1>3. SaveOK /\ \A i \in DOMAIN req.paths : req.paths[i] \in Paths
  BY <1>1 DEF SaveOK, Saving, NoRequest
<1> QED BY <1>1, <1>2, <1>3 DEF StorageInv, IInv, HistoryOK, Idle

LEMMA StorageStep ==
  ASSUME StorageInv, [Next]_vars
  PROVE  StorageInv'
<1>1. CASE UNCHANGED vars
  <2>1. TreesOK'
    BY <1>1 DEF vars, StorageInv, TreesOK, WellFormed
  <2>2. PlanOK'
    BY <1>1 DEF vars, StorageInv, PlanOK, OpenStage, MakeStage, MoveStage, Made
  <2>3. SaveOK'
    <3>1. \A from, to : /\ (Rooted(to)' <=> Rooted(to)) /\ (Made(to)' <=> Made(to))
                        /\ (Resolve(to)' = Resolve(to)) /\ (Whiteouted(to)' <=> Whiteouted(to))
                        /\ Hiding(from)' = Hiding(from)
      BY <1>1 DEF vars, Rooted, Made, Resolve, Whiteouted, Hiding, UpdateWhiteout,
                  CreateWhiteout, RemoveWhiteout
    <3>2. \A from, to : Revealing(to, Hiding(from))' = Revealing(to, Hiding(from))
      BY <3>1 DEF Revealing, RemoveWhiteout
    <3>3. \A from, to : SaveStage(from, to) => SaveStage(from, to)'
      BY <1>1, <3>1, <3>2 DEF vars, SaveStage, Making, Moving, MakeParents, Move
    <3> QED BY <1>1, <3>3 DEF vars, StorageInv, SaveOK, Saving
  <2>4. View' = View
    BY <1>1 DEF vars, View, Resolve, Whiteouted
  <2> QED BY <1>1, <2>1, <2>2, <2>3, <2>4 DEF vars, StorageInv, Idle
<1>2. ASSUME NEW p \in Paths, Unlink(p) \/ Rmdir(p)
      PROVE  StorageInv'
  BY <1>2, RemoveKeeps DEF Unlink, Rmdir
<1> QED BY <1>1, <1>2, SetattrKeeps, OpenKeeps, CreateKeeps, MkdirKeeps, RenameKeeps,
           ReleaseQuiet, WriteQuiet, CallKeeps, CutOffKeeps DEF Next

-----------------------------------------------------------------------------
(* What the invariant says *)

(* No request writes the snapshot. *)
AsCloned == lower \in [Paths -> {"none", "dir", Original}]

LEMMA LowerKept == ASSUME [Next]_vars PROVE lower' = lower
<1>1. ASSUME StorageCall \/ Abandon
      PROVE  lower' = lower
  BY <1>1 DEF StorageCall, Proceed, Abandon
<1>2. ASSUME NEW h \in Handles, Release(h) \/ \E c \in Contents : Write(h, c)
      PROVE  lower' = lower
  BY <1>2 DEF Release, Write, Begin
<1>3. ASSUME NEW p \in Paths, NEW truncate \in BOOLEAN,
             Setattr(p, truncate) \/ \E h \in Handles : Open(h, p, truncate)
      PROVE  lower' = lower
  BY <1>3 DEF Setattr, Open, Begin
<1>4. ASSUME NEW p \in Paths,
             \/ Mkdir(p) \/ Unlink(p) \/ Rmdir(p)
             \/ \E h \in Handles : Create(h, p)
             \/ \E to \in Paths : Rename(p, to)
      PROVE  lower' = lower
  BY <1>4 DEF Mkdir, Unlink, Rmdir, Create, Rename, Begin
<1> QED BY <1>1, <1>2, <1>3, <1>4 DEF Next, vars

LEMMA TypeFromStorage == StorageInv /\ AsCloned => OverlayTypeOK
BY DEF StorageInv, AsCloned, TreesOK, OverlayTypeOK

LEMMA SafeSaveFromStorage == StorageInv => SafeSaveAtomic
<1> SUFFICES ASSUME StorageInv, Saving
             PROVE  View[req.paths[2]] \in {seen[req.paths[1]], seen[req.paths[2]]}
  BY DEF SafeSaveAtomic, Saving
<1>1. PICK from \in Paths, to \in Paths : req.paths = <<from, to>> /\ SaveStage(from, to)
  BY DEF StorageInv, SaveOK
<1>2. req.paths[1] = from /\ req.paths[2] = to /\ IsFile(seen[from])
  BY <1>1 DEF Saving
<1>3. View[to] = Resolve(to)
  BY <1>1, ViewFacts DEF StorageInv, SaveStage
<1>4. CASE Resolve(to) = seen[to]
  BY <1>2, <1>3, <1>4
<1>5. CASE upper[to] = seen[from] /\ (Whiteouted(to) => seen[to] = "none")
  BY <1>2, <1>3, <1>5 DEF Resolve, IsFile
<1> QED BY <1>1, <1>4, <1>5 DEF SaveStage

-----------------------------------------------------------------------------
(* The file tree *)

LEMMA TreeNames ==
  /\ Tree!Below = Below /\ Tree!Parents = Parents /\ Tree!Children = Children
  /\ Tree!Node = Node /\ Tree!vars = <<seen, dirty>>
  /\ \A v : Tree!IsFile(v) <=> IsFile(v)
  /\ \A q, from, to : Tree!Moved(q, from, to) = Moved(q, from, to)
<1>1. Tree!Below = Below /\ Tree!Parents = Parents /\ Tree!Children = Children
  <2>1. \A p, q : /\ Tree!IsPrefix(p, q) <=> IsPrefix(p, q)
                  /\ Tree!IsStrictPrefix(p, q) <=> IsStrictPrefix(p, q)
    BY DEF Tree!IsPrefix, IsPrefix, Tree!IsStrictPrefix, IsStrictPrefix
  <2> QED BY <2>1 DEF Tree!Below, Below, Tree!Parents, Parents, Tree!Children, Children
<1>2. Tree!Node = Node /\ Tree!vars = <<seen, dirty>>
  BY DEF Tree!Node, Node, Tree!vars
<1>3. \A v : Tree!IsFile(v) <=> IsFile(v)
  BY DEF Tree!IsFile, IsFile
<1>4. \A q, from, to : Tree!Moved(q, from, to) = Moved(q, from, to)
  BY DEF Tree!Moved, Moved
<1> QED BY <1>1, <1>2, <1>3, <1>4

(* For a file, a rename of FileTree is the exchange of two entries. *)
LEMMA RenamedFile ==
  ASSUME WellFormed(seen), seen \in [Paths -> Node],
         NEW from \in Paths, NEW to \in Paths, IsFile(seen[from]),
         to \notin Below[from], from \notin Below[to],
         seen[to] = "none" \/ IsFile(seen[to])
  PROVE  Tree!AfterRename(from, to) =
           [q \in Paths |-> IF q = from THEN "none"
                            ELSE IF q = to THEN seen[from] ELSE seen[q]]
<1>1. Below[from] \cap Below[to] = {} /\ from \in Below[from] /\ to \in Below[to]
  BY BelowApart, BelowIsParents
<1>2. ASSUME NEW p \in {from, to}, NEW q \in Paths, p \in Parents[q]
      PROVE  seen[q] = "none"
  BY <1>2 DEF WellFormed, IsFile
<1> DEFINE old(q) == IF Moved(q, to, from) \in Paths THEN seen[Moved(q, to, from)] ELSE "none"
           new(q) == CASE q \in Below[from] -> "none"
                       [] q \in Below[to] -> old(q)
                       [] OTHER -> seen[q]
<1>3. Tree!AfterRename(from, to) = [q \in Paths |-> new(q)]
  BY TreeNames DEF Tree!AfterRename
<1>4. ASSUME NEW q \in Paths
      PROVE  new(q) = IF q = from THEN "none" ELSE IF q = to THEN seen[from] ELSE seen[q]
  <2>1. CASE q \in Below[from]
    <3>1. q # to /\ new(q) = "none"
      BY <1>1, <2>1
    <3>2. q = from \/ seen[q] = "none"
      BY <1>2, <2>1, BelowIsParents
    <3> HIDE DEF new
    <3> QED BY <3>1, <3>2
  <2>2. CASE q \in Below[to]
    <3>1. q # from /\ new(q) = old(q)
      BY <1>1, <2>2
    <3>2. CASE q = to
      <4>1. Moved(q, to, from) = from
        BY <3>2, MovedItself
      <4> QED BY <3>1, <3>2, <4>1
    <3>3. CASE to \in Parents[q]
      <4>1. q # to /\ seen[q] = "none"
        BY <1>2, <3>3, ParentsOrder
      <4>2. Moved(q, to, from) \in Paths => seen[Moved(q, to, from)] = "none"
        BY <1>2, <3>3, MovedBelow
      <4> QED BY <3>1, <4>1, <4>2
    <3> QED BY <2>2, <3>2, <3>3, BelowIsParents
  <2>3. CASE q \notin Below[from] /\ q \notin Below[to]
    BY <1>1, <2>3
  <2> QED BY <2>1, <2>2, <2>3
<1> HIDE DEF new
<1> QED BY <1>3, <1>4

(* What a request does to the tree that is seen, FileTree allows. *)
LEMMA OutcomeIsStep ==
  ASSUME HistoryOK, HistoryOK', NEW t, Outcome(t), dirty' = dirty,
         \A q \in Paths \ dirty : seen'[q] = t[q]
  PROVE  Tree!Next
<1>1. seen \in [Paths -> Node] /\ WellFormed(seen) /\ seen' \in [Paths -> Node]
  BY DEF HistoryOK
<1>2. Tree!Becomes(t)
  BY <1>1, TreeNames DEF Tree!Becomes
<1>3. CASE t = seen
  <2>1. {} \in SUBSET Paths /\ UNION {Tree!Below[p] : p \in {}} = {}
    OBVIOUS
  <2>2. Tree!CutOff({})
    BY <1>1, <1>3, <2>1, TreeNames DEF Tree!CutOff
  <2> QED BY <2>1, <2>2 DEF Tree!Next
<1>4. ASSUME NEW p \in Paths, seen[p] = "none", \A q \in Parents[p] : seen[q] = "dir",
             t \in {[seen EXCEPT ![p] = "empty"], [seen EXCEPT ![p] = "dir"]}
      PROVE  Tree!Next
  <2>1. Tree!Create(p) \/ Tree!Mkdir(p)
    BY <1>2, <1>4, TreeNames DEF Tree!Create, Tree!Mkdir
  <2> QED BY <2>1 DEF Tree!Next
<1>5. ASSUME NEW p \in Paths, IsFile(seen[p]), NEW c \in Contents \cup {"empty", "none"},
             t = [seen EXCEPT ![p] = c]
      PROVE  Tree!Next
  <2>1. \/ Tree!Truncate(p) \/ Tree!Unlink(p)
        \/ \E d \in Contents \cup {Original} : Tree!Write(p, d)
    BY <1>2, <1>5, TreeNames DEF Tree!Truncate, Tree!Unlink, Tree!Write
  <2> QED BY <2>1 DEF Tree!Next
<1>6. ASSUME NEW p \in Paths, seen[p] = "dir", \A q \in Children[p] \ dirty : seen[q] = "none",
             t = [seen EXCEPT ![p] = "none"]
      PROVE  Tree!Next
  <2>1. Tree!Rmdir(p)
    BY <1>2, <1>6, TreeNames DEF Tree!Rmdir
  <2> QED BY <2>1 DEF Tree!Next
<1>7. ASSUME NEW from \in Paths, NEW to \in Paths, IsFile(seen[from]),
             to \notin Below[from], from \notin Below[to],
             \A q \in Parents[to] : seen[q] = "dir",
             seen[to] = "none" \/ IsFile(seen[to]),
             t = [q \in Paths |-> IF q = from THEN "none"
                                  ELSE IF q = to THEN seen[from] ELSE seen[q]]
      PROVE  Tree!Next
  <2>1. Tree!AfterRename(from, to) = t
    BY <1>1, <1>7, RenamedFile
  <2>2. Tree!Rename(from, to)
    <3>1. Tree!Becomes(Tree!AfterRename(from, to))
      BY <1>2, <2>1
    <3>2. seen[from] # "none"
      BY <1>7 DEF IsFile
    <3> QED BY <1>7, <3>1, <3>2, TreeNames DEF Tree!Rename
  <2> QED BY <2>2 DEF Tree!Next
<1> QED BY <1>3, <1>4, <1>5, <1>6, <1>7 DEF Outcome

LEMMA StepIsTreeStep ==
  ASSUME IInv, RenameDirs = FALSE, [Next]_vars
  PROVE  [Tree!Next]_(Tree!vars)
<1>1. IInv' /\ HistoryOK' /\ HistoryOK
  BY StepKeeps DEF IInv
<1>2. CASE UNCHANGED <<seen, dirty>>
  BY <1>2 DEF Tree!vars
<1>3. ASSUME NEW t, Outcome(t), dirty' = dirty, \A q \in Paths \ dirty : seen'[q] = t[q]
      PROVE  Tree!Next
  BY <1>1, <1>3, OutcomeIsStep
<1>4. CASE /\ dirty' = dirty \cup UNION {Below[p] : p \in Named}
           /\ \A q \in Paths \ dirty' : seen'[q] = seen[q]
  <2>1. Named \in SUBSET Paths
    BY NamedApart DEF IInv
  <2>2. Tree!CutOff(Named)
    BY <1>1, <1>4, TreeNames DEF Tree!CutOff, HistoryOK
  <2> QED BY <2>1, <2>2 DEF Tree!Next
<1> QED BY <1>2, <1>3, <1>4, StepKeeps

-----------------------------------------------------------------------------
(* Theorems: for any tree of paths, any snapshot, any contents and any       *)
(* number of open files and of requests cut off.  The first three hold       *)
(* whatever programs rename; the others speak of programs that rename files  *)
(* and not directories: the plan of a directory's rename does not keep the   *)
(* tree that is seen (RenameMovesTree).                                      *)

(* What the trees and the plan promise each other holds in every state. *)
THEOREM StorageInvariantHolds == Spec => []StorageInv
<1>1. StorageInv /\ [Next]_vars => StorageInv'
  BY StorageStep
<1> QED BY <1>1, StorageInit, PTL DEF Spec

(* The lower, the upper and the whiteout tree stay trees, and a handle stays *)
(* bound to a file of the upper tree, whatever request path_overlay.rs       *)
(* answers and wherever it is cut off.                                       *)
THEOREM OverlayTypeCorrect == Spec => []OverlayTypeOK
<1>1. Init => AsCloned
  BY DEF Init, AsCloned
<1>2. AsCloned /\ [Next]_vars => AsCloned'
  BY LowerKept DEF AsCloned
<1> QED BY <1>1, <1>2, StorageInvariantHolds, TypeFromStorage, PTL DEF Spec

(* A safe save: wherever the rename of a stored file over another is cut     *)
(* off, the target shows the old file or the new one.                        *)
THEOREM SafeSaveIsAtomic == Spec => []SafeSaveAtomic
BY StorageInvariantHolds, SafeSaveFromStorage, PTL

(* The stages of every request hold in every state. *)
THEOREM InvariantHolds ==
  ASSUME RenameDirs = FALSE
  PROVE  Spec => []IInv
<1>1. IInv /\ [Next]_vars => IInv'
  BY StepKeeps
<1> QED BY <1>1, InitHolds, PTL DEF Spec

(* Between requests no whiteout hides what the environment has stored at the *)
(* same path, but where a request was cut off.                               *)
THEOREM NothingStoredIsHidden ==
  ASSUME RenameDirs = FALSE
  PROVE  Spec => []NoHiddenUpper
<1>1. IInv => NoHiddenUpper
  BY IdleFacts DEF NoHiddenUpper, Hidden
<1> QED BY <1>1, InvariantHolds, PTL

(* What the request has still to call succeeds on the trees as the earlier   *)
(* requests have left them, if none of those was cut off.                    *)
THEOREM RequestsAreCarriedOut ==
  ASSUME RenameDirs = FALSE
  PROVE  Spec => []NoneFailsHalfway
<1>1. IInv => NoneFailsHalfway
  BY NoneFails DEF NoneFailsHalfway, Idle
<1> QED BY <1>1, InvariantHolds, PTL

(* The three trees implement one tree of files: each request the overlay     *)
(* answers changes what is seen as FileTree's request of the same name does, *)
(* and one that is cut off spoils only the paths it named.                   *)
THEOREM OverlayIsFileTree ==
  ASSUME RenameDirs = FALSE
  PROVE  Spec => ImplementsTree
<1>1. Init => Tree!Init
  <2>1. Init => IInv /\ dirty = {}
    BY InitHolds DEF Init
  <2> QED BY <2>1, TreeNames DEF Tree!Init, IInv, HistoryOK
<1>2. IInv /\ [Next]_vars => [Tree!Next]_(Tree!vars)
  BY StepIsTreeStep
<1> QED BY <1>1, <1>2, InvariantHolds, PTL DEF Spec, Tree!Spec, ImplementsTree

=============================================================================
