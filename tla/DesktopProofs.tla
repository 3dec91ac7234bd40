---------------------------- MODULE DesktopProofs ----------------------------
(***************************************************************************)
(* Proofs about DesktopSessions, with one client at a time: bases stay as  *)
(* they are, what has a record has the whole tree, the sessions it names   *)
(* have files, the pid file of a session goes on naming its process, and   *)
(* an overlay env of a plain source can be entered.  Programs, agent-viewd *)
(* and crashes go on in between.                                           *)
(***************************************************************************)
EXTENDS DesktopSessions, WellFoundedInduction, TLAPS

OneClient == \A c, d \in Clients : c = d

\* Steps at which a directory is being made.
Making == {"mkdir", "clone", "copy", "clean", "write"}

\* Steps of a request that has yet to make a base or an env.
ToMake == {"ensureBase", "freeze", "ensureEnv", "create"} \cup Making

\* Steps of a request that is going to write back the record it has read.
Holding == {"back", "running", "spawn", "named", "logged", "filed", "signal", "unname", "sync"}

Stages == {"idle", "started", "start", "target", "unmount", "wipe"} \cup ToMake \cup Holding

RequestOps == {"none", "new", "lane", "base_freeze", "session_create", "kill"}

Requests == [at : Stages, op : RequestOps, env : Envs \cup {None}, base : Bases \cup {None},
             source : Sources \cup {None}, backend : Backends \cup {None}, d : Ids \cup {None},
             todo : SUBSET Parts, copy : EnvRec \cup {None}]

\* What a request knows of the directories at each of its steps.
Fits(r, trees, records, wiped) ==
  /\ r.at # "idle" => r.env \in Envs
  /\ r.at \in ToMake => r.base \in Bases
  /\ r.at \in {"ensureBase", "freeze"} => r.source \in Sources
  /\ r.at = "freeze" => r.backend \in Backends
  /\ r.at \in Making =>
       /\ r.backend \in Backends
       /\ records[r.d] = None
       /\ \/ r.d = r.base /\ r.source \in Sources
          \/ r.d = r.env /\ records[r.base] # None
  /\ r.at = "copy" => trees[r.d] \cup r.todo = Parts
  /\ r.at = "write" => trees[r.d] = Parts
  /\ r.at \in Holding => records[r.env] # None /\ r.copy \in EnvRec
  /\ r.at = "wipe" => r.env \in wiped

StoreOK ==
  /\ made \in [Ids -> BOOLEAN]
  /\ tree \in [Ids -> SUBSET Parts]
  /\ rec \in [Ids -> BaseRec \cup EnvRec \cup {None}]
  /\ \A b \in Bases : rec[b] \in BaseRec \cup {None}
  /\ \A e \in Envs : rec[e] \in EnvRec \cup {None}
  /\ wiping \subseteq Envs
  /\ \A d \in Ids : rec[d] # None => made[d]
  /\ WholeTrees

DesktopInv ==
  /\ StoreOK
  /\ req \in [Clients -> Requests]
  /\ \A c \in Clients : Fits(req[c], tree, rec, wiping)

\* What BaseStaysFrozen says of one step.
BasesKept == \A b \in Bases : rec[b] # None => rec'[b] = rec[b] /\ tree'[b] = tree[b]

-----------------------------------------------------------------------------
(* Ids and requests.                                                       *)

LEMMA IdFacts ==
  /\ \A b \in Bases : b \in Ids /\ b \notin Envs
  /\ \A e \in Envs : e \in Ids /\ e \notin Bases
  /\ None \notin Ids /\ None \notin Envs /\ None \notin Bases
  /\ None \notin Backends /\ None \notin BaseRec /\ None \notin EnvRec
BY DesktopAssumption DEF Ids

LEMMA RootIsAPart == Root \in Parts
BY DesktopAssumption

LEMMA IdleRequest == Idle \in Requests /\ Idle.at = "idle"
BY DEF Idle, Requests, Stages, RequestOps

LEMMA IdleFits ==
  ASSUME NEW r, NEW trees, NEW records, NEW wiped, r.at = "idle"
  PROVE  Fits(r, trees, records, wiped)
BY DEF Fits, ToMake, Making, Holding

LEMMA ReqSet ==
  ASSUME OneClient, DesktopInv, NEW c \in Clients, NEW r \in Requests,
         req' = [req EXCEPT ![c] = r], StoreOK', Fits(r, tree', rec', wiping')
  PROVE  DesktopInv'
<1>1. \A d \in Clients : req'[d] = r
  BY DEF OneClient, DesktopInv
<1>2. req' \in [Clients -> Requests]
  BY DEF DesktopInv
<1> QED BY <1>1, <1>2 DEF DesktopInv

LEMMA QuietStore ==
  ASSUME DesktopInv, UNCHANGED <<made, tree, rec, wiping>>
  PROVE  StoreOK' /\ BasesKept
BY DEF DesktopInv, StoreOK, WholeTrees, BasesKept

LEMMA QuietSet ==
  ASSUME OneClient, DesktopInv, UNCHANGED <<made, tree, rec, wiping>>,
         NEW c \in Clients, NEW r \in Requests,
         req' = [req EXCEPT ![c] = r], Fits(r, tree, rec, wiping)
  PROVE  DesktopInv' /\ BasesKept
BY QuietStore, ReqSet

LEMMA QuietFinish ==
  ASSUME OneClient, DesktopInv, UNCHANGED <<made, tree, rec, wiping>>,
         NEW c \in Clients, Finish(c)
  PROVE  DesktopInv' /\ BasesKept
BY QuietSet, IdleRequest, IdleFits DEF Finish

LEMMA QuietReq ==
  ASSUME DesktopInv, UNCHANGED <<made, tree, rec, wiping, req>>
  PROVE  DesktopInv' /\ BasesKept
BY QuietStore DEF DesktopInv

\* A request goes on with nothing new but its step.
LEMMA GotoRequest ==
  ASSUME DesktopInv, NEW c \in Clients, NEW stage \in Stages
  PROVE  LET r == Changed(req[c], [at |-> stage])
         IN /\ r \in Requests
            /\ r = [at |-> stage, op |-> req[c].op, env |-> req[c].env, base |-> req[c].base,
                    source |-> req[c].source, backend |-> req[c].backend, d |-> req[c].d,
                    todo |-> req[c].todo, copy |-> req[c].copy]
BY DEF DesktopInv, Changed, Requests

LEMMA GoesOn ==
  ASSUME OneClient, DesktopInv, UNCHANGED <<made, tree, rec, wiping>>,
         NEW c \in Clients, NEW stage \in Stages, Goto(c, stage),
         \/ req[c].at \in Holding /\ stage \in Holding
         \/ req[c].at # "idle" /\ stage \in {"started", "start", "target"}
         \/ req[c].at \in ToMake /\ stage \in {"create", "ensureEnv"}
         \/ req[c].at \in Making /\ stage = "clean"
  PROVE  DesktopInv' /\ BasesKept
<1> DEFINE r == Changed(req[c], [at |-> stage])
<1>1. r \in Requests /\ r = [at |-> stage, op |-> req[c].op, env |-> req[c].env, base |-> req[c].base,
                    source |-> req[c].source, backend |-> req[c].backend, d |-> req[c].d,
                    todo |-> req[c].todo, copy |-> req[c].copy]
  BY GotoRequest
<1>2. req' = [req EXCEPT ![c] = r]
  BY DEF Goto, Update
<1>3. Fits(req[c], tree, rec, wiping)
  BY DEF DesktopInv
<1> HIDE DEF r
<1>4. Fits(r, tree, rec, wiping)
  BY <1>1, <1>3 DEF Fits, ToMake, Making, Holding
<1> QED BY <1>1, <1>2, <1>4, QuietSet

\* The making goes on: the next step knows of the directory what it should.
LEMMA Advance ==
  ASSUME DesktopInv, NEW c \in Clients, NEW stage \in Stages, NEW todo \in SUBSET Parts,
         NEW fields, fields \in {[at |-> stage], [at |-> stage, todo |-> todo]}
  PROVE  LET r == Changed(req[c], fields)
         IN /\ r \in Requests
            /\ r.at = stage /\ r.env = req[c].env /\ r.base = req[c].base
            /\ r.source = req[c].source /\ r.backend = req[c].backend /\ r.d = req[c].d
            /\ fields = [at |-> stage, todo |-> todo] => r.todo = todo
<1>1. CASE fields = [at |-> stage]
  BY <1>1 DEF DesktopInv, Changed, Requests
<1>2. CASE fields = [at |-> stage, todo |-> todo]
  BY <1>2 DEF DesktopInv, Changed, Requests
<1> QED BY <1>1, <1>2

LEMMA ContinueSet ==
  ASSUME OneClient, DesktopInv, NEW c \in Clients,
         NEW stage \in {"idle", "create", "ensureEnv", "started", "start"},
         req[c].at \in ToMake, Continue(c, stage), StoreOK'
  PROVE  DesktopInv'
<1>1. CASE stage = "idle"
  BY <1>1, ReqSet, IdleRequest, IdleFits DEF Continue, Finish
<1>2. CASE stage # "idle"
  <2> DEFINE r == Changed(req[c], [at |-> stage, source |-> None, backend |-> None, d |-> None,
                                   todo |-> {}])
  <2>1. req' = [req EXCEPT ![c] = r]
    BY <1>2 DEF Continue, Update
  <2>2. r \in Requests /\ r.at = stage /\ r.env = req[c].env /\ r.base = req[c].base
    <3>1. stage \in Stages
      BY DEF Stages, ToMake
    <3> QED BY <3>1 DEF DesktopInv, Changed, Requests
  <2>3. req[c].env \in Envs /\ req[c].base \in Bases
    BY DEF DesktopInv, Fits, ToMake, Making
  <2> HIDE DEF r
  <2>4. Fits(r, tree', rec', wiping')
    BY <1>2, <2>2, <2>3 DEF Fits, Making, Holding
  <2> QED BY <2>1, <2>2, <2>4, ReqSet
<1> QED BY <1>1, <1>2

LEMMA MakingFacts ==
  ASSUME DesktopInv, NEW c \in Clients, req[c].at \in Making
  PROVE  /\ req[c] \in Requests
         /\ req[c].env \in Envs /\ req[c].base \in Bases /\ req[c].backend \in Backends
         /\ req[c].d \in Ids /\ rec[req[c].d] = None
         /\ \/ req[c].d = req[c].base /\ req[c].source \in Sources
            \/ req[c].d = req[c].env /\ rec[req[c].base] # None
BY IdFacts DEF DesktopInv, Fits, ToMake, Making

\* Only the directory that is being made changes, and it has no record.
LEMMA MakingStore ==
  ASSUME DesktopInv, NEW d \in Ids, rec[d] = None, UNCHANGED <<rec, wiping>>,
         made' \in [Ids -> BOOLEAN], tree' \in [Ids -> SUBSET Parts],
         \A x \in Ids \ {d} : made'[x] = made[x] /\ tree'[x] = tree[x]
  PROVE  StoreOK' /\ BasesKept
BY IdFacts DEF DesktopInv, StoreOK, WholeTrees, BasesKept

LEMMA FreezeStep ==
  ASSUME OneClient, DesktopInv, NEW c \in Clients, Freeze(c) \/ Create(c) \/ EnsureBase(c)
  PROVE  DesktopInv' /\ BasesKept
<1>1. req[c].at \in ToMake /\ UNCHANGED <<made, tree, rec, wiping>>
  BY DEF Freeze, Create, EnsureBase, Quiet, ToMake
<1>2. req[c] \in Requests /\ req[c].env \in Envs /\ req[c].base \in Bases
  BY <1>1 DEF DesktopInv, Fits, ToMake, Making
<1>3. StoreOK' /\ BasesKept /\ StoreOK
  BY <1>1, QuietStore DEF DesktopInv
<1>4. CASE Finish(c)
  BY <1>1, <1>4, QuietFinish
<1>5. CASE \E stage \in {"idle", "create", "ensureEnv"} : Continue(c, stage)
  BY <1>1, <1>3, <1>5, ContinueSet
<1>6. CASE Freeze(c) /\ Update(c, [at |-> "mkdir", d |-> req[c].base]) /\ ~made[req[c].base]
  <2> DEFINE r == Changed(req[c], [at |-> "mkdir", d |-> req[c].base])
  <2>1. r \in Requests /\ r.at = "mkdir" /\ r.d = r.base /\ r.env = req[c].env /\ r.base = req[c].base
        /\ r.source = req[c].source /\ r.backend = req[c].backend
    BY <1>2, IdFacts DEF Changed, Requests, Stages, ToMake, Making
  <2>2. req[c].source \in Sources /\ req[c].backend \in Backends
    BY <1>6 DEF Freeze, DesktopInv, Fits
  <2>3. rec[req[c].base] = None
    BY <1>2, <1>3, <1>6, IdFacts DEF StoreOK
  <2> HIDE DEF r
  <2>4. Fits(r, tree, rec, wiping)
    BY <1>2, <2>1, <2>2, <2>3 DEF Fits, Making, Holding
  <2>5. req' = [req EXCEPT ![c] = r]
    BY <1>6 DEF Update, r
  <2> QED BY <1>1, <2>1, <2>4, <2>5, QuietSet
<1>7. CASE /\ Create(c) /\ rec[req[c].base] # None /\ ~made[req[c].env]
           /\ Update(c, [at |-> "mkdir", d |-> req[c].env, backend |-> rec[req[c].base].backend])
  <2> DEFINE k == rec[req[c].base].backend
             r == Changed(req[c], [at |-> "mkdir", d |-> req[c].env, backend |-> k])
  <2>1. k \in Backends
    BY <1>2, <1>3, <1>7 DEF StoreOK, BaseRec
  <2> HIDE DEF k
  <2>2. r \in Requests /\ r.at = "mkdir" /\ r.d = r.env /\ r.env = req[c].env /\ r.base = req[c].base
        /\ r.backend = k
    BY <1>2, <2>1, IdFacts DEF Changed, Requests, Stages, ToMake, Making
  <2>3. rec[req[c].env] = None
    BY <1>2, <1>3, <1>7, IdFacts DEF StoreOK
  <2>4. req' = [req EXCEPT ![c] = r]
    BY <1>7 DEF Update, k
  <2> HIDE DEF r
  <2>5. Fits(r, tree, rec, wiping)
    BY <1>2, <1>7, <2>1, <2>2, <2>3 DEF Fits, Making, Holding
  <2> QED BY <1>1, <2>2, <2>4, <2>5, QuietSet
<1>8. CASE EnsureBase(c) /\ \E k \in Backends : Update(c, [at |-> "freeze", backend |-> k])
  <2>1. PICK k \in Backends : Update(c, [at |-> "freeze", backend |-> k])
    BY <1>8
  <2> DEFINE r == Changed(req[c], [at |-> "freeze", backend |-> k])
  <2>2. r \in Requests /\ r.at = "freeze" /\ r.env = req[c].env /\ r.base = req[c].base
        /\ r.source = req[c].source /\ r.backend = k
    BY <1>2, <2>1 DEF Changed, Requests, Stages, ToMake
  <2>3. req[c].source \in Sources
    BY <1>8 DEF EnsureBase, DesktopInv, Fits
  <2>4. req' = [req EXCEPT ![c] = r]
    BY <2>1 DEF Update
  <2> HIDE DEF r
  <2>5. Fits(r, tree, rec, wiping)
    BY <1>2, <2>1, <2>2, <2>3 DEF Fits, Making, Holding
  <2> QED BY <1>1, <2>2, <2>4, <2>5, QuietSet
<1>9. CASE Freeze(c)
  BY <1>9, <1>4, <1>5, <1>6 DEF Freeze, AlreadyExists
<1>10. CASE Create(c)
  BY <1>10, <1>4, <1>7 DEF Create
<1>11. CASE EnsureBase(c)
  <2>1. CASE rec[req[c].base] = None
    <3> DEFINE k == IF req[c].backend = None THEN "clone" ELSE req[c].backend
    <3>1. k \in Backends
      BY <1>2 DEF Requests, Backends
    <3>2. Update(c, [at |-> "freeze", backend |-> k])
      BY <1>11, <2>1 DEF EnsureBase
    <3> HIDE DEF k
    <3> QED BY <1>8, <1>11, <3>1, <3>2
  <2>2. CASE rec[req[c].base] # None
    BY <1>11, <1>4, <1>5, <2>2 DEF EnsureBase
  <2> QED BY <2>1, <2>2
<1> QED BY <1>9, <1>10, <1>11

\* What is copied is whole: a source, or the tree of a recorded base.
LEMMA OriginalIsWhole ==
  ASSUME DesktopInv, NEW c \in Clients, req[c].at \in Making, Root \in Original(req[c])
  PROVE  Original(req[c]) = Parts
<1>1. CASE req[c].d \in Bases
  BY <1>1 DEF Original
<1>2. CASE req[c].d \notin Bases
  <2>1. rec[req[c].base] # None /\ req[c].base \in Bases
    BY <1>2, MakingFacts
  <2>2. tree[req[c].base] = Parts
    BY <2>1, IdFacts DEF DesktopInv, StoreOK, WholeTrees
  <2> QED BY <1>2, <2>2 DEF Original
<1> QED BY <1>1, <1>2

LEMMA MkdirStep ==
  ASSUME OneClient, DesktopInv, NEW c \in Clients, Mkdir(c)
  PROVE  DesktopInv' /\ BasesKept
<1>1. CASE Finish(c) /\ UNCHANGED made
  BY <1>1, QuietFinish DEF Mkdir
<1>2. CASE made' = [made EXCEPT ![req[c].d] = TRUE] /\ Goto(c, "clone")
  <2>1. req[c].at \in Making /\ UNCHANGED <<tree, rec, wiping>>
    BY DEF Mkdir, Making
  <2>2. req[c].d \in Ids /\ rec[req[c].d] = None
    BY <2>1, MakingFacts
  <2>3. StoreOK' /\ BasesKept
    BY <1>2, <2>1, <2>2, MakingStore DEF DesktopInv, StoreOK
  <2> DEFINE r == Changed(req[c], [at |-> "clone"])
  <2>4. /\ r \in Requests /\ r.at = "clone" /\ r.env = req[c].env /\ r.base = req[c].base
        /\ r.source = req[c].source /\ r.backend = req[c].backend /\ r.d = req[c].d
    <3>1. "clone" \in Stages /\ {} \in SUBSET Parts
      BY DEF Stages, ToMake, Making
    <3> QED BY <3>1, Advance
  <2>5. req' = [req EXCEPT ![c] = r]
    BY <1>2 DEF Goto, Update
  <2> HIDE DEF r
  <2>6. Fits(r, tree', rec', wiping')
    BY <2>1, <2>4, MakingFacts DEF Fits, Making, Holding
  <2> QED BY <2>3, <2>4, <2>5, <2>6, ReqSet
<1> QED BY <1>1, <1>2 DEF Mkdir

\* A part has come into the directory, and todo is what is left.
LEMMA CopyOn ==
  ASSUME OneClient, DesktopInv, NEW c \in Clients, req[c].at \in Making,
         NEW todo \in SUBSET Parts, UNCHANGED <<rec, wiping>>,
         made' = [made EXCEPT ![req[c].d] = TRUE],
         tree' \in [Ids -> SUBSET Parts],
         \A x \in Ids \ {req[c].d} : tree'[x] = tree[x],
         tree'[req[c].d] \cup todo = Parts,
         Update(c, [at |-> AfterCopy(req[c], todo), todo |-> todo])
  PROVE  DesktopInv' /\ BasesKept
<1> DEFINE stage == AfterCopy(req[c], todo)
           r == Changed(req[c], [at |-> stage, todo |-> todo])
<1>1. stage \in {"write", "copy"} /\ (stage = "write" => todo = {})
  BY DEF AfterCopy
<1>2. req' = [req EXCEPT ![c] = r]
  BY DEF Update
<1> HIDE DEF stage
<1>3. /\ r \in Requests /\ r.at = stage /\ r.env = req[c].env /\ r.base = req[c].base
      /\ r.source = req[c].source /\ r.backend = req[c].backend /\ r.d = req[c].d
      /\ r.todo = todo
  <2>1. stage \in Stages
    BY <1>1 DEF Stages, ToMake, Making
  <2> QED BY <2>1, Advance
<1>4. StoreOK' /\ BasesKept
  <2>1. req[c].d \in Ids /\ rec[req[c].d] = None
    BY MakingFacts
  <2>2. made' \in [Ids -> BOOLEAN] /\ \A x \in Ids \ {req[c].d} : made'[x] = made[x]
    BY <2>1 DEF DesktopInv, StoreOK
  <2> QED BY <2>1, <2>2, MakingStore
<1> HIDE DEF r
<1>5. Fits(r, tree', rec', wiping')
  BY <1>1, <1>3, MakingFacts DEF Fits, Making, Holding
<1> QED BY <1>2, <1>3, <1>4, <1>5, ReqSet

LEMMA CloneStep ==
  ASSUME OneClient, DesktopInv, NEW c \in Clients, Clone(c) \/ Copy(c) \/ CopyFails(c)
  PROVE  DesktopInv' /\ BasesKept
<1>1. req[c].at \in Making /\ UNCHANGED <<rec, wiping>>
  BY DEF Clone, Copy, CopyFails, Quiet, Making
<1>2. req[c] \in Requests /\ req[c].d \in Ids /\ tree \in [Ids -> SUBSET Parts]
  BY <1>1, MakingFacts DEF DesktopInv, StoreOK
<1>3. "clean" \in Stages
  BY DEF Stages, ToMake, Making
<1>4. CASE Finish(c) /\ UNCHANGED <<made, tree>>
  BY <1>1, <1>4, QuietFinish
<1>5. CASE Goto(c, "clean") /\ UNCHANGED <<made, tree>>
  BY <1>1, <1>3, <1>5, GoesOn
<1>6. CASE Copy(c)
  <2>1. PICK p \in req[c].todo :
          /\ tree' = [tree EXCEPT ![req[c].d] = @ \cup {Root, p}]
          /\ made' = [made EXCEPT ![req[c].d] = TRUE]
          /\ Update(c, [at |-> AfterCopy(req[c], req[c].todo \ {p}), todo |-> req[c].todo \ {p}])
    BY <1>6 DEF Copy
  <2> DEFINE todo == req[c].todo \ {p}
  <2>2. req[c].todo \subseteq Parts /\ todo \in SUBSET Parts
    BY <1>2 DEF Requests
  <2>3. tree[req[c].d] \cup req[c].todo = Parts
    BY <1>6 DEF Copy, DesktopInv, Fits
  <2>4. tree'[req[c].d] = tree[req[c].d] \cup {Root, p} /\ tree' \in [Ids -> SUBSET Parts]
    BY <1>2, <2>1, <2>2, RootIsAPart
  <2>5. tree'[req[c].d] \cup todo = Parts
    BY <2>2, <2>3, <2>4, RootIsAPart
  <2>6. \A x \in Ids \ {req[c].d} : tree'[x] = tree[x]
    BY <1>2, <2>1
  <2>7. made' = [made EXCEPT ![req[c].d] = TRUE]
        /\ Update(c, [at |-> AfterCopy(req[c], todo), todo |-> todo])
    BY <2>1
  <2> HIDE DEF todo
  <2> QED BY <1>1, <2>2, <2>4, <2>5, <2>6, <2>7, CopyOn
<1>7. CASE /\ Clone(c) /\ Root \in Original(req[c])
           /\ tree' = [tree EXCEPT ![req[c].d] = @ \cup {Root}]
           /\ made' = [made EXCEPT ![req[c].d] = TRUE]
           /\ Update(c, [at |-> AfterCopy(req[c], Original(req[c]) \ {Root}),
                         todo |-> Original(req[c]) \ {Root}])
  <2> DEFINE todo == Original(req[c]) \ {Root}
  <2>1. Original(req[c]) = Parts
    BY <1>1, <1>7, OriginalIsWhole
  <2>2. todo \in SUBSET Parts
    BY <2>1
  <2>3. tree'[req[c].d] = tree[req[c].d] \cup {Root} /\ tree' \in [Ids -> SUBSET Parts]
    BY <1>2, <1>7, RootIsAPart
  <2>4. tree'[req[c].d] \cup todo = Parts
    BY <1>2, <2>1, <2>3, RootIsAPart
  <2>5. \A x \in Ids \ {req[c].d} : tree'[x] = tree[x]
    BY <1>2, <1>7
  <2>6. made' = [made EXCEPT ![req[c].d] = TRUE]
        /\ Update(c, [at |-> AfterCopy(req[c], todo), todo |-> todo])
    BY <1>7
  <2> HIDE DEF todo
  <2> QED BY <1>1, <2>2, <2>3, <2>4, <2>5, <2>6, CopyOn
<1>8. CASE Clone(c)
  BY <1>8, <1>4, <1>5, <1>7 DEF Clone
<1>9. CASE CopyFails(c)
  BY <1>9, <1>5 DEF CopyFails, Quiet
<1> QED BY <1>6, <1>8, <1>9

LEMMA CleanStep ==
  ASSUME OneClient, DesktopInv, NEW c \in Clients, Clean(c)
  PROVE  DesktopInv' /\ BasesKept
<1> DEFINE d == req[c].d
<1>1. req[c].at \in Making /\ req[c].at \in ToMake /\ wiping' = wiping
  BY DEF Clean, Making, ToMake
<1>2. d \in Ids /\ rec[d] = None /\ StoreOK
  BY <1>1, MakingFacts DEF DesktopInv
<1>3. rec' = rec
  BY <1>2 DEF Clean, StoreOK
<1>4. /\ made' \in [Ids -> BOOLEAN] /\ tree' \in [Ids -> SUBSET Parts]
      /\ \A x \in Ids \ {d} : made'[x] = made[x] /\ tree'[x] = tree[x]
  <2>1. \E left \in SUBSET tree[d] : tree' = [tree EXCEPT ![d] = left]
    BY DEF Clean
  <2>2. made' = made \/ made' = [made EXCEPT ![d] = FALSE]
    BY DEF Clean
  <2> QED BY <1>2, <2>1, <2>2 DEF StoreOK
<1>5. StoreOK' /\ BasesKept
  BY <1>1, <1>2, <1>3, <1>4, MakingStore
<1>6. CASE Finish(c)
  BY <1>5, <1>6, ReqSet, IdleRequest, IdleFits DEF Finish
<1>7. CASE Continue(c, AlreadyExists(req[c].op))
  BY <1>1, <1>5, <1>7, ContinueSet DEF AlreadyExists
<1> QED BY <1>6, <1>7 DEF Clean

LEMMA WriteRecordStep ==
  ASSUME OneClient, DesktopInv, NEW c \in Clients, WriteRecord(c) \/ WriteFails(c)
  PROVE  DesktopInv' /\ BasesKept
<1>1. CASE WriteFails(c)
  BY <1>1, QuietFinish DEF WriteFails, Quiet
<1>2. CASE WriteRecord(c)
  <2> DEFINE d == req[c].d
             v == IF d \in Bases THEN [backend |-> req[c].backend, source |-> req[c].source]
                  ELSE [base |-> req[c].base, backend |-> req[c].backend, state |-> "Created",
                        sessions |-> {}]
  <2>1. /\ req[c].at \in Making /\ req[c].at \in ToMake /\ req[c].at = "write"
        /\ wiping' = wiping /\ tree' = tree
    BY <1>2 DEF WriteRecord, Making, ToMake
  <2>2. rec' = [rec EXCEPT ![d] = v] /\ made' = [made EXCEPT ![d] = TRUE]
    BY <1>2 DEF WriteRecord
  <2>3. d \in Ids /\ rec[d] = None /\ tree[d] = Parts /\ StoreOK
    BY <2>1, MakingFacts DEF DesktopInv, Fits
  <2>4. (d \in Bases /\ v \in BaseRec) \/ (d \in Envs /\ v \in EnvRec)
    BY <2>1, MakingFacts, IdFacts DEF BaseRec, EnvRec
  <2> HIDE DEF v
  <2>5. StoreOK'
    BY <2>1, <2>2, <2>3, <2>4, IdFacts DEF StoreOK, WholeTrees
  <2>6. BasesKept
    BY <2>1, <2>2, <2>3, IdFacts DEF BasesKept, StoreOK
  <2>7. \E stage \in {"idle", "create", "ensureEnv", "started", "start"} : Continue(c, stage)
    BY <1>2 DEF WriteRecord, AfterFreeze, AfterCreate
  <2> QED BY <2>1, <2>5, <2>6, <2>7, ContinueSet
<1> QED BY <1>1, <1>2

-----------------------------------------------------------------------------
(* Requests that have read an env's record and will write it back.         *)

LEMMA BeginHolding ==
  ASSUME OneClient, DesktopInv, UNCHANGED <<made, tree, rec, wiping>>, NEW c \in Clients,
         NEW e \in Envs, rec[e] # None, NEW env \in EnvRec, NEW stage \in Holding,
         NEW op \in RequestOps,
         \/ Begin(c, [at |-> stage, env |-> e, copy |-> env])
         \/ Begin(c, [at |-> stage, op |-> op, env |-> e, copy |-> env])
  PROVE  DesktopInv' /\ BasesKept
<1>1. stage \in Stages /\ stage \notin ToMake \cup {"idle", "wipe"}
  BY DEF Stages, Holding, ToMake, Making
<1>2. ASSUME NEW r, r \in Requests, r.at = stage, r.env = e, r.copy = env,
             req' = [req EXCEPT ![c] = r]
      PROVE  DesktopInv' /\ BasesKept
  <2>1. Fits(r, tree, rec, wiping)
    BY <1>1, <1>2 DEF Fits, ToMake, Making
  <2> QED BY <1>2, <2>1, QuietSet
<1>3. CASE Begin(c, [at |-> stage, env |-> e, copy |-> env])
  <2> DEFINE r == Changed(Idle, [at |-> stage, env |-> e, copy |-> env])
  <2>1. r \in Requests /\ r.at = stage /\ r.env = e /\ r.copy = env
    BY <1>1 DEF Changed, Idle, Requests, RequestOps
  <2>2. req' = [req EXCEPT ![c] = r]
    BY <1>3 DEF Begin
  <2> HIDE DEF r
  <2> QED BY <1>2, <2>1, <2>2
<1>4. CASE Begin(c, [at |-> stage, op |-> op, env |-> e, copy |-> env])
  <2> DEFINE r == Changed(Idle, [at |-> stage, op |-> op, env |-> e, copy |-> env])
  <2>1. r \in Requests /\ r.at = stage /\ r.env = e /\ r.copy = env
    BY <1>1 DEF Changed, Idle, Requests
  <2>2. req' = [req EXCEPT ![c] = r]
    BY <1>4 DEF Begin
  <2> HIDE DEF r
  <2> QED BY <1>2, <2>1, <2>2
<1> QED BY <1>3, <1>4

\* A new copy in place of the one that is held.
LEMMA EnvStates ==
  ASSUME NEW env \in EnvRec
  PROVE  /\ \A state \in {"Created", "Running", "Stopped"} : [env EXCEPT !.state = state] \in EnvRec
         /\ \A s \in Sessions : [env EXCEPT !.sessions = @ \cup {s}] \in EnvRec
         /\ \A index \in SUBSET Sessions : [env EXCEPT !.sessions = index] \in EnvRec
BY DEF EnvRec

LEMMA EnvRecorded ==
  ASSUME DesktopInv, NEW e \in Envs, rec[e] # None PROVE rec[e] \in EnvRec
BY DEF DesktopInv, StoreOK

LEMMA StartStep ==
  ASSUME OneClient, DesktopInv, NEW c \in Clients, EnsureEnv(c) \/ EnsureStarted(c) \/ Start(c)
  PROVE  DesktopInv' /\ BasesKept
<1>1. UNCHANGED <<made, tree, rec, wiping>>
  BY DEF EnsureEnv, EnsureStarted, Start, Quiet
<1>2. CASE EnsureEnv(c)
  <2>1. PICK stage \in {"started", "create"} : Goto(c, stage)
    BY <1>2 DEF EnsureEnv
  <2>2. req[c].at = "ensureEnv" /\ stage \in Stages
    BY <1>2 DEF EnsureEnv, Stages, ToMake
  <2> QED BY <1>1, <2>1, <2>2, GoesOn DEF ToMake
<1>3. CASE EnsureStarted(c)
  <2>1. CASE Finish(c)
    BY <1>1, <2>1, QuietFinish
  <2>2. CASE \E stage \in {"target", "start"} : Goto(c, stage)
    <3>1. req[c].at = "started" /\ {"target", "start"} \subseteq Stages
      BY <1>3 DEF EnsureStarted, Stages
    <3> QED BY <1>1, <2>2, <3>1, GoesOn
  <2>3. Finish(c) \/ \E stage \in {"target", "start"} : Goto(c, stage)
    BY <1>3 DEF EnsureStarted
  <2> QED BY <2>1, <2>2, <2>3
<1>4. CASE Start(c)
  <2> DEFINE e == req[c].env
  <2>1. req[c].at = "start" /\ e \in Envs /\ req[c] \in Requests
    BY <1>4 DEF Start, DesktopInv, Fits
  <2>2. CASE rec[e] = None
    BY <1>1, <1>4, <2>2, QuietFinish DEF Start
  <2>3. CASE rec[e] # None
    <3> DEFINE env == [rec[e] EXCEPT !.state = "Running"]
               r == Changed(req[c], [at |-> "back", copy |-> env])
    <3>1. env \in EnvRec
      BY <2>1, <2>3, EnvStates, EnvRecorded
    <3>2. req' = [req EXCEPT ![c] = r]
      BY <1>4, <2>3 DEF Start, Update
    <3> HIDE DEF env
    <3>3. r \in Requests /\ r.at = "back" /\ r.env = e /\ r.copy = env
      BY <2>1, <3>1 DEF Changed, Requests, Stages, Holding
    <3> HIDE DEF r
    <3>4. Fits(r, tree, rec, wiping)
      BY <2>1, <2>3, <3>1, <3>3 DEF Fits, ToMake, Making
    <3> QED BY <1>1, <3>2, <3>3, <3>4, QuietSet
  <2> QED BY <2>2, <2>3
<1> QED BY <1>2, <1>3, <1>4

LEMMA WriteBackStep ==
  ASSUME OneClient, DesktopInv, NEW c \in Clients, WriteBack(c)
  PROVE  DesktopInv' /\ BasesKept
<1> DEFINE e == req[c].env
<1>1. req[c].at = "back" /\ e \in Envs /\ rec[e] # None /\ req[c].copy \in EnvRec
      /\ UNCHANGED <<tree, wiping>>
  BY DEF WriteBack, DesktopInv, Fits, Holding
<1>2. CASE Finish(c) /\ UNCHANGED <<made, rec>>
  BY <1>1, <1>2, QuietFinish
<1>3. CASE /\ rec' = [rec EXCEPT ![e] = req[c].copy]
           /\ made' = [made EXCEPT ![e] = TRUE]
           /\ IF req[c].op = "new" THEN Goto(c, "target") ELSE Finish(c)
  <2>1. StoreOK' /\ BasesKept
    <3>1. StoreOK /\ e \in Ids /\ e \notin Bases
      BY <1>1, IdFacts DEF DesktopInv
    <3>2. rec'[e] = req[c].copy /\ made'[e] /\ \A x \in Ids \ {e} : rec'[x] = rec[x] /\ made'[x] = made[x]
      BY <1>3, <3>1 DEF StoreOK
    <3>3. rec' \in [Ids -> BaseRec \cup EnvRec \cup {None}] /\ made' \in [Ids -> BOOLEAN]
      BY <1>1, <1>3, <3>1 DEF StoreOK
    <3>4. WholeTrees'
      BY <1>1, <3>1, <3>2 DEF StoreOK, WholeTrees
    <3> QED BY <1>1, <3>1, <3>2, <3>3, <3>4, IdFacts DEF StoreOK, BasesKept
  <2>2. CASE Finish(c)
    BY <2>1, <2>2, ReqSet, IdleRequest, IdleFits DEF Finish
  <2>3. CASE Goto(c, "target")
    <3> DEFINE r == Changed(req[c], [at |-> "target"])
    <3>1. r \in Requests /\ r.at = "target" /\ r.env = e
      <4>1. "target" \in Stages /\ {} \in SUBSET Parts
        BY DEF Stages
      <4> QED BY <4>1, Advance
    <3>2. req' = [req EXCEPT ![c] = r]
      BY <2>3 DEF Goto, Update
    <3> HIDE DEF r
    <3>3. Fits(r, tree', rec', wiping')
      BY <1>1, <3>1 DEF Fits, ToMake, Making, Holding
    <3> QED BY <2>1, <3>1, <3>2, <3>3, ReqSet
  <2> QED BY <1>3, <2>2, <2>3
<1> QED BY <1>2, <1>3 DEF WriteBack

-----------------------------------------------------------------------------
(* Removals.                                                               *)

LEMMA BeginWipeStep ==
  ASSUME OneClient, DesktopInv, NEW c \in Clients, NEW e \in Envs, BeginWipe(c, e),
         UNCHANGED <<made, tree, rec>>
  PROVE  DesktopInv' /\ BasesKept
<1> DEFINE r == Changed(Idle, [at |-> "wipe", env |-> e])
<1>1. req' = [req EXCEPT ![c] = r] /\ wiping' = wiping \cup {e}
  BY DEF BeginWipe, Begin
<1>2. r \in Requests /\ r.at = "wipe" /\ r.env = e
  BY DEF Changed, Idle, Requests, Stages, RequestOps
<1>3. StoreOK' /\ BasesKept
  BY <1>1 DEF DesktopInv, StoreOK, WholeTrees, BasesKept
<1> HIDE DEF r
<1>4. Fits(r, tree', rec', wiping')
  BY <1>1, <1>2 DEF Fits, ToMake, Making, Holding
<1> QED BY <1>1, <1>2, <1>3, <1>4, ReqSet

LEMMA WipeStep ==
  ASSUME OneClient, DesktopInv, NEW c \in Clients, Wipe(c)
  PROVE  DesktopInv' /\ BasesKept
<1> DEFINE e == req[c].env
<1>1. /\ req[c].at = "wipe" /\ e \in Envs /\ e \in wiping /\ e \in Ids /\ e \notin Bases
      /\ UNCHANGED <<made, req, wiping>> /\ StoreOK
  BY IdFacts DEF Wipe, DesktopInv, Fits
<1>2. /\ tree' \in [Ids -> SUBSET Parts] /\ \A x \in Ids \ {e} : tree'[x] = tree[x] /\ rec'[x] = rec[x]
      /\ rec' \in [Ids -> BaseRec \cup EnvRec \cup {None}] /\ rec'[e] \in {rec[e], None}
  BY <1>1 DEF Wipe, StoreOK
<1>3. StoreOK' /\ BasesKept
  BY <1>1, <1>2, IdFacts DEF StoreOK, WholeTrees, BasesKept
<1>4. Fits(req[c], tree', rec', wiping')
  BY <1>1 DEF Fits, ToMake, Making, Holding
<1>5. \A d \in Clients : Fits(req'[d], tree', rec', wiping')
  BY <1>1, <1>4 DEF OneClient
<1> QED BY <1>1, <1>3, <1>5 DEF DesktopInv

LEMMA WipedStep ==
  ASSUME OneClient, DesktopInv, NEW c \in Clients, Wiped(c)
  PROVE  DesktopInv' /\ BasesKept
<1> DEFINE e == req[c].env
<1>1. /\ e \in Envs /\ e \in Ids /\ e \notin Bases /\ rec[e] = None /\ StoreOK /\ Finish(c)
      /\ made' = [made EXCEPT ![e] = FALSE] /\ wiping' = wiping \ {e} /\ UNCHANGED <<tree, rec>>
  BY IdFacts DEF Wiped, DesktopInv, Fits
<1>2. StoreOK' /\ BasesKept
  BY <1>1 DEF StoreOK, WholeTrees, BasesKept
<1> QED BY <1>1, <1>2, ReqSet, IdleRequest, IdleFits DEF Finish

LEMMA UnmountStep ==
  ASSUME OneClient, DesktopInv, NEW c \in Clients, Unmount(c)
  PROVE  DesktopInv' /\ BasesKept
<1>1. req[c].env \in Envs /\ UNCHANGED <<made, tree, rec>>
  BY DEF Unmount, DesktopInv, Fits
<1>2. CASE BeginWipe(c, req[c].env)
  BY <1>1, <1>2, BeginWipeStep
<1>3. CASE Finish(c) /\ UNCHANGED wiping
  BY <1>1, <1>3, QuietFinish
<1> QED BY <1>2, <1>3 DEF Unmount

-----------------------------------------------------------------------------
(* Requests arrive.                                                        *)

\* A request that names an env, and a base unless it is about to be removed.
LEMMA Arrives ==
  ASSUME OneClient, DesktopInv, UNCHANGED <<made, tree, rec, wiping>>, NEW c \in Clients,
         NEW r \in Requests, req' = [req EXCEPT ![c] = r], r.env \in Envs,
         \/ r.at \in {"unmount", "started"}
         \/ r.at = "create" /\ r.base \in Bases
         \/ r.at \in {"ensureBase", "freeze"} /\ r.base \in Bases /\ r.source \in Sources
            /\ (r.at = "freeze" => r.backend \in Backends)
  PROVE  DesktopInv' /\ BasesKept
<1>1. Fits(r, tree, rec, wiping)
  BY DEF Fits, ToMake, Making, Holding
<1> QED BY <1>1, QuietSet

LEMMA NewRequestStep ==
  ASSUME OneClient, DesktopInv, NEW c \in Clients, NEW e \in Envs, NEW b \in Bases,
         \/ CreateRequest(c, e, b)
         \/ \E s \in Sources, k \in Backends \cup {None} : New(c, e, b, s, k)
         \/ \E s \in Sources, k \in Backends, op \in {"base_freeze", "lane"} :
              FreezeRequest(c, op, e, b, s, k)
  PROVE  DesktopInv' /\ BasesKept
<1>1. CASE CreateRequest(c, e, b)
  <2> DEFINE r == Changed(Idle, [at |-> "create", env |-> e, base |-> b])
  <2>1. r \in Requests /\ r.at = "create" /\ r.env = e /\ r.base = b
    BY DEF Changed, Idle, Requests, Stages, ToMake, RequestOps
  <2>2. req' = [req EXCEPT ![c] = r] /\ UNCHANGED <<made, tree, rec, wiping>>
    BY <1>1 DEF CreateRequest, Begin, Quiet
  <2> HIDE DEF r
  <2> QED BY <2>1, <2>2, Arrives
<1>2. CASE \E s \in Sources, k \in Backends \cup {None} : New(c, e, b, s, k)
  <2>1. PICK s \in Sources, k \in Backends \cup {None} : New(c, e, b, s, k)
    BY <1>2
  <2>2. CASE rec[e] # None
    <3> DEFINE r == Changed(Idle, [at |-> "started", op |-> "new", env |-> e, base |-> b])
    <3>1. r \in Requests /\ r.at = "started" /\ r.env = e
      BY DEF Changed, Idle, Requests, Stages, RequestOps
    <3>2. req' = [req EXCEPT ![c] = r] /\ UNCHANGED <<made, tree, rec, wiping>>
      BY <2>1, <2>2 DEF New, Begin, Quiet
    <3> HIDE DEF r
    <3> QED BY <3>1, <3>2, Arrives
  <2>3. CASE rec[e] = None
    <3> DEFINE r == Changed(Idle, [at |-> "ensureBase", op |-> "new", env |-> e, base |-> b,
                                   source |-> s, backend |-> k])
    <3>1. r \in Requests /\ r.at = "ensureBase" /\ r.env = e /\ r.base = b /\ r.source = s
      BY DEF Changed, Idle, Requests, Stages, ToMake, RequestOps
    <3>2. req' = [req EXCEPT ![c] = r] /\ UNCHANGED <<made, tree, rec, wiping>>
      BY <2>1, <2>3 DEF New, Begin, Quiet
    <3> HIDE DEF r
    <3> QED BY <3>1, <3>2, Arrives
  <2> QED BY <2>2, <2>3
<1>3. CASE \E s \in Sources, k \in Backends, op \in {"base_freeze", "lane"} :
             FreezeRequest(c, op, e, b, s, k)
  <2>1. PICK s \in Sources, k \in Backends, op \in {"base_freeze", "lane"} :
          FreezeRequest(c, op, e, b, s, k)
    BY <1>3
  <2> DEFINE r == Changed(Idle, [at |-> "freeze", op |-> op, env |-> e, base |-> b,
                                 source |-> s, backend |-> k])
  <2>2. r \in Requests /\ r.at = "freeze" /\ r.env = e /\ r.base = b /\ r.source = s /\ r.backend = k
    BY DEF Changed, Idle, Requests, Stages, ToMake, RequestOps
  <2>3. req' = [req EXCEPT ![c] = r] /\ UNCHANGED <<made, tree, rec, wiping>>
    BY <2>1 DEF FreezeRequest, Begin, Quiet
  <2> HIDE DEF r
  <2> QED BY <2>2, <2>3, Arrives
<1> QED BY <1>1, <1>2, <1>3

LEMMA EnvRequestStep ==
  ASSUME OneClient, DesktopInv, NEW c \in Clients, NEW e \in Envs,
         \/ \E state \in {"Running", "Stopped"} : StateRequest(c, e, state)
         \/ Destroy(c, e) \/ DirectRemove(c, e)
  PROVE  DesktopInv' /\ BasesKept
<1>1. CASE \E state \in {"Running", "Stopped"} : StateRequest(c, e, state)
  <2>1. PICK state \in {"Running", "Stopped"} : StateRequest(c, e, state)
    BY <1>1
  <2> DEFINE env == [rec[e] EXCEPT !.state = state]
  <2>2. rec[e] # None /\ UNCHANGED <<made, tree, rec, wiping>>
        /\ Begin(c, [at |-> "back", env |-> e, copy |-> env])
    BY <2>1 DEF StateRequest, Quiet
  <2>3. env \in EnvRec
    BY <2>2, EnvStates, EnvRecorded
  <2> HIDE DEF env
  <2> QED BY <2>2, <2>3, BeginHolding DEF Holding, RequestOps
<1>2. CASE (Destroy(c, e) \/ DirectRemove(c, e)) /\ BeginWipe(c, e)
  BY <1>2, BeginWipeStep DEF Destroy, DirectRemove
<1>3. CASE Destroy(c, e) /\ ~BeginWipe(c, e)
  <2> DEFINE r == Changed(Idle, [at |-> "unmount", env |-> e])
  <2>1. r \in Requests /\ r.at = "unmount" /\ r.env = e
    BY DEF Changed, Idle, Requests, Stages, RequestOps
  <2>2. req' = [req EXCEPT ![c] = r] /\ UNCHANGED <<made, tree, rec, wiping>>
    BY <1>3 DEF Destroy, Begin
  <2> HIDE DEF r
  <2> QED BY <2>1, <2>2, Arrives
<1> QED BY <1>1, <1>2, <1>3 DEF DirectRemove

LEMMA ControlStep ==
  ASSUME OneClient, DesktopInv, NEW c \in Clients,
         Proceed(c) \/ Request(c) \/ ShellResponse(c) \/ Wipe(c) \/ Wiped(c) \/ WipeFails(c)
  PROVE  DesktopInv' /\ BasesKept
<1>1. CASE ShellResponse(c) \/ WipeFails(c)
  BY <1>1, QuietFinish DEF ShellResponse, WipeFails, Quiet
<1>2. CASE Wipe(c) \/ Wiped(c)
  BY <1>2, WipeStep, WipedStep
<1>3. CASE Proceed(c)
  BY <1>3, FreezeStep, StartStep, MkdirStep, CloneStep, CleanStep, WriteRecordStep, WriteBackStep,
     UnmountStep DEF Proceed
<1>4. CASE Request(c)
  <2>1. CASE \E e \in Envs : \/ \E state \in {"Running", "Stopped"} : StateRequest(c, e, state)
                             \/ Destroy(c, e) \/ DirectRemove(c, e)
    BY <2>1, EnvRequestStep
  <2>2. CASE ~\E e \in Envs : \/ \E state \in {"Running", "Stopped"} : StateRequest(c, e, state)
                              \/ Destroy(c, e) \/ DirectRemove(c, e)
    BY <1>4, <2>2, NewRequestStep DEF Request
  <2> QED BY <2>1, <2>2
<1> QED BY <1>1, <1>2, <1>3, <1>4

-----------------------------------------------------------------------------
(* Commands and sessions.                                                  *)

Args == [sid : Sessions \cup {None}, pid : Pids \cup {None},
         listed : SUBSET Sessions, todo : SUBSET Sessions]

SessionOK ==
  /\ procs \in [Pids -> Proc \cup {None}]
  /\ pidFile \in [Envs -> [Sessions -> Pids \cup {None}]]
  /\ files \in [Envs -> [Sessions -> {"none", "Running", "Stopped"}]]
  /\ arg \in [Clients -> Args]

LEMMA RunningFacts ==
  ASSUME DesktopInv, NEW e \in Envs, Running(e)
  PROVE  rec[e] # None /\ rec[e] \in EnvRec
BY EnvRecorded DEF Running

\* Nothing a session request does by itself touches a directory.
LEMMA SessionRequestStep ==
  ASSUME OneClient, DesktopInv, NEW c \in Clients, SessionRequest(c)
  PROVE  DesktopInv' /\ BasesKept
<1>1. PICK e \in Envs :
        \/ Exec(c, e) \/ Touch(c, e) \/ Shell(c, e) \/ SessionList(c, e)
        \/ \E s \in Sessions : SessionCreate(c, e, s) \/ SessionDetach(c, e, s) \/ SessionKill(c, e, s)
  BY DEF SessionRequest
<1>2. UNCHANGED <<made, tree, rec, wiping>>
  BY <1>1 DEF Exec, Touch, Shell, SessionList, SessionCreate, SessionDetach, SessionKill, Quiet
<1>3. CASE req' = req
  BY <1>2, <1>3, QuietReq
<1>4. ASSUME rec[e] # None, NEW env \in EnvRec, NEW stage \in Holding, NEW op \in RequestOps,
             \/ Begin(c, [at |-> stage, env |-> e, copy |-> env])
             \/ Begin(c, [at |-> stage, op |-> op, env |-> e, copy |-> env])
      PROVE  DesktopInv' /\ BasesKept
  BY <1>2, <1>4, BeginHolding
<1>5. {"back", "running", "spawn", "signal", "sync"} \subseteq Holding
      /\ {"none", "session_create", "kill"} \subseteq RequestOps
  BY DEF Holding, RequestOps
<1>6. CASE Exec(c, e)
  <2>1. rec[e] # None /\ rec[e] \in EnvRec /\ Begin(c, [at |-> "running", env |-> e, copy |-> rec[e]])
    BY <1>6, RunningFacts DEF Exec
  <2> QED BY <2>1, <1>4, <1>5
<1>7. CASE Touch(c, e)
  <2>1. rec[e] # None /\ rec[e] \in EnvRec /\ Begin(c, [at |-> "back", env |-> e, copy |-> rec[e]])
    BY <1>7, EnvRecorded DEF Touch, BeginBack
  <2> QED BY <2>1, <1>4, <1>5
<1>8. CASE Shell(c, e)
  BY <1>3, <1>8 DEF Shell
<1>9. CASE SessionList(c, e)
  <2>1. rec[e] # None /\ rec[e] \in EnvRec /\ Begin(c, [at |-> "sync", env |-> e, copy |-> rec[e]])
    BY <1>9, EnvRecorded DEF SessionList
  <2> QED BY <2>1, <1>4, <1>5
<1>10. ASSUME NEW s \in Sessions, SessionCreate(c, e, s) PROVE DesktopInv' /\ BasesKept
  <2> DEFINE env == [rec[e] EXCEPT !.sessions = @ \cup {s}]
  <2>1. rec[e] # None /\ rec[e] \in EnvRec
    BY <1>10, RunningFacts DEF SessionCreate
  <2>2. env \in EnvRec
    BY <2>1, EnvStates
  <2>3. Begin(c, [at |-> "spawn", op |-> "session_create", env |-> e, copy |-> env])
    BY <1>10 DEF SessionCreate
  <2> HIDE DEF env
  <2> QED BY <2>1, <2>2, <2>3, <1>4, <1>5
<1>11. ASSUME NEW s \in Sessions, SessionDetach(c, e, s) PROVE DesktopInv' /\ BasesKept
  <2>1. CASE ~ProcessRunning(e, s)
    BY <1>3, <1>11, <2>1 DEF SessionDetach
  <2>2. CASE ProcessRunning(e, s)
    <3>1. rec[e] # None /\ rec[e] \in EnvRec /\ Begin(c, [at |-> "back", env |-> e, copy |-> rec[e]])
      BY <1>11, <2>2, RunningFacts DEF SessionDetach, BeginBack
    <3> QED BY <3>1, <1>4, <1>5
  <2> QED BY <2>1, <2>2
<1>12. ASSUME NEW s \in Sessions, SessionKill(c, e, s) PROVE DesktopInv' /\ BasesKept
  <2>1. /\ rec[e] # None /\ rec[e] \in EnvRec
        /\ Begin(c, [at |-> "signal", op |-> "kill", env |-> e, copy |-> rec[e]])
    BY <1>12, RunningFacts DEF SessionKill
  <2> QED BY <2>1, <1>4, <1>5
<1> QED BY <1>1, <1>6, <1>7, <1>8, <1>9, <1>10, <1>11, <1>12

LEMMA SessionWorkStep ==
  ASSUME OneClient, DesktopInv, SessionOK, NEW c \in Clients, SessionStep(c)
  PROVE  DesktopInv' /\ BasesKept
<1>1. CASE AllWiped(c) \/ StartShell(c)
  BY <1>1, ControlStep DEF AllWiped, StartShell
<1>2. CASE ~(AllWiped(c) \/ StartShell(c))
  <2>1. UNCHANGED <<made, tree, rec, wiping>>
    BY <1>2 DEF SessionStep, ExecEnds, SessionSpawn, SessionSpawned, WritePidFile, AppendLog,
                WriteSession, GiveUp, Signal, RemovePidFile, ListMark, ListSync, WipeSessions,
                Quiet, controlVars
  <2>2. CASE req' = req
    BY <2>1, <2>2, QuietReq
  <2>3. CASE Finish(c)
    BY <2>1, <2>3, QuietFinish
  <2>4. CASE req[c].at \in Holding /\ \E stage \in Holding : Goto(c, stage)
    <3>1. Holding \subseteq Stages
      BY DEF Stages
    <3> QED BY <2>1, <2>4, <3>1, GoesOn
  <2>5. ASSUME req[c].at \in Holding, NEW env \in EnvRec, BeginBack(c, Env(c), env)
        PROVE  DesktopInv' /\ BasesKept
    <3>1. Env(c) \in Envs /\ rec[Env(c)] # None
      BY <2>5 DEF Env, DesktopInv, Fits, Holding
    <3>2. "back" \in Holding /\ "none" \in RequestOps
      BY DEF Holding, RequestOps
    <3> QED BY <2>1, <2>5, <3>1, <3>2, BeginHolding DEF BeginBack
  <2>6. CASE ExecEnds(c)
    <3>1. req[c].at \in Holding /\ req[c].copy \in EnvRec /\ BeginBack(c, Env(c), req[c].copy)
      BY <2>6 DEF ExecEnds, Holding, DesktopInv, Fits
    <3> QED BY <2>5, <3>1
  <2>7. CASE ListSync(c)
    <3>1. CASE req[c].copy.sessions = arg[c].listed
      BY <2>3, <2>7, <3>1 DEF ListSync
    <3>2. CASE req[c].copy.sessions # arg[c].listed
      <4> DEFINE env == [req[c].copy EXCEPT !.sessions = arg[c].listed]
      <4>1. req[c].at \in Holding /\ req[c].copy \in EnvRec /\ BeginBack(c, Env(c), env)
        BY <2>7, <3>2 DEF ListSync, Holding, DesktopInv, Fits
      <4>2. arg[c].listed \in SUBSET Sessions
        BY DEF SessionOK, Args
      <4>3. env \in EnvRec
        BY <4>1, <4>2, EnvStates
      <4> HIDE DEF env
      <4> QED BY <2>5, <4>1, <4>3
    <3> QED BY <3>1, <3>2
  <2>8. CASE SessionSpawn(c) \/ GiveUp(c) \/ ListMark(c) \/ WipeSessions(c)
    BY <2>2, <2>3, <2>8 DEF SessionSpawn, GiveUp, ListMark, WipeSessions, controlVars
  <2>9. CASE SessionSpawned(c) \/ WritePidFile(c) \/ AppendLog(c) \/ WriteSession(c)
             \/ RemovePidFile(c)
    BY <2>4, <2>9 DEF SessionSpawned, WritePidFile, AppendLog, WriteSession, RemovePidFile, Holding
  <2>10. CASE Signal(c)
    BY <2>3, <2>4, <2>10 DEF Signal, Holding
  <2> QED BY <1>2, <2>6, <2>7, <2>8, <2>9, <2>10 DEF SessionStep
<1> QED BY <1>1, <1>2

-----------------------------------------------------------------------------
(* What goes on besides the requests.                                      *)

\* agent-viewd makes the directory again, with nothing in it.
LEMMA EnterStep ==
  ASSUME OneClient, DesktopInv, SessionOK, NEW p \in Pids, ViewdEnters(p)
  PROVE  DesktopInv' /\ BasesKept
<1> DEFINE e == procs[p].env
<1>1. /\ made' = [made EXCEPT ![e] = TRUE] /\ tree' = [tree EXCEPT ![e] = @ \cup {Root}]
      /\ UNCHANGED <<rec, wiping, req>>
  BY DEF ViewdEnters
<1>2. e \in Envs \cup {None}
  BY DEF ViewdEnters, Alive, SessionOK, Proc
<1>3. /\ e \notin Bases /\ StoreOK
  BY <1>2, IdFacts DEF DesktopInv
<1>4. \A x \in Ids : /\ tree'[x] = IF x = e THEN tree[x] \cup {Root} ELSE tree[x]
                     /\ made'[x] = (made[x] \/ x = e)
  BY <1>1, <1>3 DEF StoreOK
<1>5. made' \in [Ids -> BOOLEAN] /\ tree' \in [Ids -> SUBSET Parts]
  BY <1>1, <1>3, RootIsAPart DEF StoreOK
<1>6. StoreOK' /\ BasesKept
  BY <1>1, <1>3, <1>4, <1>5, IdFacts, RootIsAPart DEF StoreOK, WholeTrees, BasesKept
<1>7. ASSUME NEW c \in Clients PROVE Fits(req'[c], tree', rec', wiping')
  <2>1. Fits(req[c], tree, rec, wiping)
    BY DEF DesktopInv
  <2>2. req[c].at \in Making => req[c].d \in Ids
    BY MakingFacts
  <2>3. req[c].at = "copy" => tree'[req[c].d] \cup req[c].todo = Parts
    BY <1>4, <2>1, <2>2, RootIsAPart DEF Fits, Making
  <2>4. req[c].at = "write" => tree'[req[c].d] = Parts
    BY <1>4, <2>1, <2>2, RootIsAPart DEF Fits, Making
  <2> QED BY <1>1, <2>1, <2>3, <2>4 DEF Fits
<1> QED BY <1>1, <1>6, <1>7 DEF DesktopInv

\* Requests end, where anything happens to them.
LEMMA Interrupted ==
  ASSUME DesktopInv, UNCHANGED <<made, tree, rec, wiping>>,
         req' = [c \in Clients |-> IF req'[c] = Idle THEN Idle ELSE req[c]]
  PROVE  DesktopInv' /\ BasesKept
<1>1. StoreOK' /\ BasesKept
  BY QuietStore
<1>2. \A c \in Clients : req'[c] \in {Idle, req[c]}
  OBVIOUS
<1>3. req' \in [Clients -> Requests]
  BY <1>2, IdleRequest DEF DesktopInv
<1>4. \A c \in Clients : Fits(req'[c], tree', rec', wiping')
  BY <1>2, IdleRequest, IdleFits DEF DesktopInv
<1> QED BY <1>1, <1>3, <1>4 DEF DesktopInv

LEMMA HostStepKeeps ==
  ASSUME OneClient, DesktopInv, SessionOK, HostStep
  PROVE  DesktopInv' /\ BasesKept
<1>1. CASE Reboot \/ Crash
  <2>1. UNCHANGED <<made, tree, rec, wiping>> /\ req' = [c \in Clients |-> Idle]
    BY <1>1 DEF Reboot, Crash
  <2> QED BY <2>1, Interrupted
<1>2. ASSUME NEW p \in Pids, ViewdFails(p) PROVE DesktopInv' /\ BasesKept
  <2>1. UNCHANGED <<made, tree, rec, wiping>>
    BY <1>2 DEF ViewdFails
  <2>2. \A c \in Clients : req'[c] \in {Idle, req[c]}
    BY <1>2 DEF ViewdFails
  <2>3. req' = [c \in Clients |-> req'[c]]
    BY <1>2 DEF ViewdFails
  <2>4. req' = [c \in Clients |-> IF req'[c] = Idle THEN Idle ELSE req[c]]
    BY <2>2, <2>3
  <2> QED BY <2>1, <2>4, Interrupted
<1>3. ASSUME NEW p \in Pids, ViewdEnters(p) PROVE DesktopInv' /\ BasesKept
  BY <1>3, EnterStep
<1>4. ASSUME NEW p \in Pids, ViewdMounts(p) \/ Exit(p) \/ PidReused(p)
      PROVE  DesktopInv' /\ BasesKept
  BY <1>4, QuietReq DEF ViewdMounts, Exit, PidReused, controlVars
<1> QED BY <1>1, <1>2, <1>3, <1>4 DEF HostStep

-----------------------------------------------------------------------------
(* Types of what sessions keep.                                            *)

LEMMA ArgSet ==
  ASSUME SessionOK, NEW c \in Clients, NEW a \in Args, SetArg(c, a)
  PROVE  arg' \in [Clients -> Args]
BY DEF SessionOK, SetArg

LEMMA ArgForms ==
  /\ NoArg \in Args
  /\ \A p \in Pids : [NoArg EXCEPT !.pid = p] \in Args
  /\ \A s \in Sessions : [NoArg EXCEPT !.sid = s] \in Args
  /\ \A a \in Args, p \in Pids : [a EXCEPT !.pid = p] \in Args
  /\ \A a \in Args, s \in Sessions : [a EXCEPT !.todo = @ \ {s}] \in Args
BY DEF NoArg, Args

LEMMA ChangedArg ==
  /\ \A s \in Sessions, p \in Pids \cup {None} : Changed(NoArg, [sid |-> s, pid |-> p]) \in Args
  /\ \A known \in SUBSET Sessions : Changed(NoArg, [listed |-> known, todo |-> known]) \in Args
<1>1. ASSUME NEW s \in Sessions, NEW p \in Pids \cup {None}
      PROVE  Changed(NoArg, [sid |-> s, pid |-> p]) \in Args
  BY DEF Changed, NoArg, Args
<1>2. ASSUME NEW known \in SUBSET Sessions
      PROVE  Changed(NoArg, [listed |-> known, todo |-> known]) \in Args
  BY DEF Changed, NoArg, Args
<1> QED BY <1>1, <1>2

LEMMA Staged ==
  ASSUME NEW q \in Proc, NEW stage \in {"up", "mounting"}
  PROVE  [q EXCEPT !.stage = stage] \in Proc
BY DEF Proc

LEMMA Killed ==
  ASSUME NEW q \in Proc PROVE [q EXCEPT !.killed = q.kind = "session"] \in Proc
BY DEF Proc

LEMMA SpawnType ==
  ASSUME SessionOK, NEW p \in Pids, NEW kind \in {"session", "command"}, NEW e \in Envs,
         NEW s \in Sessions \cup {None}, Spawn(p, kind, e, s)
  PROVE  procs' \in [Pids -> Proc \cup {None}]
<1> DEFINE stage == CASE rec[e].backend = "clone" -> "up"
                      [] <<e, SourceOf(e), s>> \in Enterable -> "enter"
                      [] OTHER -> "refused"
<1>1. stage \in {"refused", "enter", "mounting", "up"}
  OBVIOUS
<1>2. procs' = [procs EXCEPT ![p] = [kind |-> kind, env |-> e, sid |-> s, owner |-> FALSE,
                                     killed |-> FALSE, stage |-> stage]]
  BY DEF Spawn
<1> HIDE DEF stage
<1> QED BY <1>1, <1>2 DEF SessionOK, Proc

LEMMA RequestTypes ==
  ASSUME DesktopInv, SessionOK, NEW c \in Clients, SessionRequest(c)
  PROVE  SessionOK'
<1>1. PICK e \in Envs :
        \/ Exec(c, e) \/ Touch(c, e) \/ Shell(c, e) \/ SessionList(c, e)
        \/ \E s \in Sessions : SessionCreate(c, e, s) \/ SessionDetach(c, e, s) \/ SessionKill(c, e, s)
  BY DEF SessionRequest
<1>2. CASE Exec(c, e)
  <2>1. PICK p \in Free : Spawn(p, "command", e, None) /\ SetArg(c, [NoArg EXCEPT !.pid = p])
    BY <1>2 DEF Exec
  <2>2. p \in Pids
    BY DEF Free
  <2> QED BY <1>2, <2>1, <2>2, SpawnType, ArgSet, ArgForms DEF Exec, Files, SessionOK
<1>3. CASE Touch(c, e)
  BY <1>3 DEF Touch, sessionVars, SessionOK
<1>4. CASE Shell(c, e)
  <2>1. PICK p \in Free : Spawn(p, "command", e, None)
    BY <1>4 DEF Shell
  <2>2. p \in Pids
    BY DEF Free
  <2> QED BY <1>4, <2>1, <2>2, SpawnType DEF Shell, SessionOK
<1>5. CASE SessionList(c, e)
  <2>1. Known(e) \in SUBSET Sessions
    BY DEF Known
  <2> QED BY <1>5, <2>1, ArgSet, ChangedArg DEF SessionList, Files, SessionOK
<1>6. ASSUME NEW s \in Sessions, SessionCreate(c, e, s) PROVE SessionOK'
  BY <1>6, ArgSet, ArgForms DEF SessionCreate, Files, SessionOK
<1>7. ASSUME NEW s \in Sessions, SessionDetach(c, e, s) PROVE SessionOK'
  <2>1. files' = files \/ files' = [files EXCEPT ![e][s] = "Stopped"]
    BY <1>7 DEF SessionDetach
  <2>2. files' \in [Envs -> [Sessions -> {"none", "Running", "Stopped"}]]
    BY <2>1 DEF SessionOK
  <2> QED BY <1>7, <2>2 DEF SessionDetach, SessionOK
<1>8. ASSUME NEW s \in Sessions, SessionKill(c, e, s) PROVE SessionOK'
  <2>1. pidFile[e][s] \in Pids \cup {None}
    BY DEF SessionOK
  <2> QED BY <1>8, <2>1, ArgSet, ChangedArg DEF SessionKill, Files, SessionOK
<1> QED BY <1>1, <1>2, <1>3, <1>4, <1>5, <1>6, <1>7, <1>8

\* Each of the two files of a session is written or removed by itself.
LEMMA FileTypes ==
  ASSUME SessionOK, NEW e \in Envs, NEW s
  PROVE  /\ \A state \in {"none", "Running", "Stopped"} :
              [files EXCEPT ![e][s] = state] \in [Envs -> [Sessions -> {"none", "Running", "Stopped"}]]
         /\ \A p \in Pids \cup {None} :
              [pidFile EXCEPT ![e][s] = p] \in [Envs -> [Sessions -> Pids \cup {None}]]
BY DEF SessionOK

LEMMA WorkTypes ==
  ASSUME DesktopInv, SessionOK, NEW c \in Clients, SessionStep(c)
  PROVE  SessionOK'
<1>1. arg[c] \in Args
  BY DEF SessionOK
<1>2. req[c].at # "idle" => Env(c) \in Envs
  BY DEF Env, DesktopInv, Fits
<1>3. CASE ExecEnds(c)
  BY <1>3, ArgSet, ArgForms DEF ExecEnds, Files, SessionOK
<1>4. CASE SessionSpawn(c)
  <2>1. CASE UNCHANGED procs
    BY <1>4, <2>1, ArgSet, ArgForms DEF SessionSpawn, Files, SessionOK, Free, Spawn
  <2>2. CASE \E p \in Free : Spawn(p, "session", Env(c), arg[c].sid) /\ SetArg(c, [arg[c] EXCEPT !.pid = p])
    <3>1. PICK p \in Free : Spawn(p, "session", Env(c), arg[c].sid) /\ SetArg(c, [arg[c] EXCEPT !.pid = p])
      BY <2>2
    <3>2. p \in Pids /\ Env(c) \in Envs /\ arg[c].sid \in Sessions \cup {None}
      BY <1>1, <1>2, <1>4 DEF Free, SessionSpawn, Args
    <3>3. procs' \in [Pids -> Proc \cup {None}] /\ arg' \in [Clients -> Args]
      BY <1>1, <3>1, <3>2, SpawnType, ArgSet, ArgForms
    <3> QED BY <1>4, <3>3 DEF SessionSpawn, Files, SessionOK
  <2> QED BY <1>4, <2>1, <2>2 DEF SessionSpawn
<1>5. CASE SessionSpawned(c) \/ AppendLog(c)
  BY <1>5 DEF SessionSpawned, AppendLog, sessionVars, SessionOK
<1>6. CASE WritePidFile(c) \/ RemovePidFile(c)
  <2>1. PICK p \in Pids \cup {None} : pidFile' = [pidFile EXCEPT ![Env(c)][arg[c].sid] = p]
    BY <1>1, <1>6 DEF WritePidFile, RemovePidFile, Args
  <2>2. Env(c) \in Envs
    BY <1>2, <1>6 DEF WritePidFile, RemovePidFile
  <2>3. pidFile' \in [Envs -> [Sessions -> Pids \cup {None}]]
    BY <2>1, <2>2, FileTypes
  <2> QED BY <1>6, <2>3 DEF WritePidFile, RemovePidFile, SessionOK
<1>7. CASE WriteSession(c)
  <2>1. PICK state \in {"Running", "Stopped"} : files' = [files EXCEPT ![Env(c)][arg[c].sid] = state]
    BY <1>7 DEF WriteSession
  <2>2. Env(c) \in Envs
    BY <1>2, <1>7 DEF WriteSession
  <2>3. files' \in [Envs -> [Sessions -> {"none", "Running", "Stopped"}]]
    BY <2>1, <2>2, FileTypes
  <2> QED BY <1>7, <2>3, ArgSet, ArgForms DEF WriteSession, SessionOK
<1>8. CASE GiveUp(c) \/ ListSync(c)
  BY <1>8, ArgSet, ArgForms DEF GiveUp, ListSync, Files, SessionOK
<1>9. CASE Signal(c)
  <2>1. procs' \in [Pids -> Proc \cup {None}]
    <3>1. CASE procs' = procs
      BY <3>1 DEF SessionOK
    <3>2. CASE procs' # procs
      <4> DEFINE p == arg[c].pid
                 q == [procs[p] EXCEPT !.killed = procs[p].kind = "session"]
      <4>1. p \in Pids /\ procs[p] \in Proc /\ procs' = [procs EXCEPT ![p] = q]
        BY <1>9, <3>2 DEF Signal, Alive, SessionOK
      <4>2. q \in Proc
        BY <4>1, Killed
      <4> HIDE DEF q, p
      <4> QED BY <4>1, <4>2 DEF SessionOK
    <3> QED BY <3>1, <3>2
  <2> QED BY <1>9, <2>1, ArgSet, ArgForms DEF Signal, Files, SessionOK
<1>10. CASE ListMark(c)
  <2>1. PICK s \in arg[c].todo :
          /\ \E state \in {"Running", "Stopped"} : files' = [files EXCEPT ![Env(c)][s] = state]
          /\ SetArg(c, [arg[c] EXCEPT !.todo = @ \ {s}])
    BY <1>10 DEF ListMark
  <2>2. s \in Sessions /\ Env(c) \in Envs
    BY <1>1, <1>2, <1>10 DEF ListMark, Args
  <2>3. files' \in [Envs -> [Sessions -> {"none", "Running", "Stopped"}]]
    BY <2>1, <2>2, FileTypes
  <2> QED BY <1>1, <1>10, <2>1, <2>2, <2>3, ArgSet, ArgForms DEF ListMark, SessionOK
<1>11. CASE WipeSessions(c)
  <2>1. Env(c) \in Envs
    BY <1>2, <1>11 DEF WipeSessions
  <2>2. \E s \in Sessions :
          \/ files' = [files EXCEPT ![Env(c)][s] = "none"] /\ UNCHANGED pidFile
          \/ pidFile' = [pidFile EXCEPT ![Env(c)][s] = None] /\ UNCHANGED files
    BY <1>11 DEF WipeSessions
  <2>3. /\ files' \in [Envs -> [Sessions -> {"none", "Running", "Stopped"}]]
        /\ pidFile' \in [Envs -> [Sessions -> Pids \cup {None}]]
    <3>1. PICK s \in Sessions :
            \/ files' = [files EXCEPT ![Env(c)][s] = "none"] /\ UNCHANGED pidFile
            \/ pidFile' = [pidFile EXCEPT ![Env(c)][s] = None] /\ UNCHANGED files
      BY <2>2
    <3>2. CASE files' = [files EXCEPT ![Env(c)][s] = "none"] /\ UNCHANGED pidFile
      <4>1. files' \in [Envs -> [Sessions -> {"none", "Running", "Stopped"}]]
        BY <2>1, <3>2, FileTypes
      <4> QED BY <4>1, <3>2 DEF SessionOK
    <3>3. CASE pidFile' = [pidFile EXCEPT ![Env(c)][s] = None] /\ UNCHANGED files
      <4>1. pidFile' \in [Envs -> [Sessions -> Pids \cup {None}]]
        BY <2>1, <3>3, FileTypes
      <4> QED BY <4>1, <3>3 DEF SessionOK
    <3> QED BY <3>1, <3>2, <3>3
  <2>4. UNCHANGED <<procs, arg>>
    BY <1>11 DEF WipeSessions
  <2> QED BY <2>3, <2>4 DEF SessionOK
<1>12. CASE AllWiped(c)
  BY <1>12 DEF AllWiped, sessionVars, SessionOK
<1>13. CASE StartShell(c)
  <2>1. PICK p \in Free : Spawn(p, "command", req[c].env, None)
    BY <1>13 DEF StartShell
  <2>2. p \in Pids /\ req[c].env \in Envs
    BY <1>2, <1>13 DEF Free, StartShell, ShellResponse, Env
  <2>3. procs' \in [Pids -> Proc \cup {None}]
    BY <2>1, <2>2, SpawnType
  <2>4. UNCHANGED <<pidFile, files, arg>>
    BY <1>13 DEF StartShell
  <2> QED BY <2>3, <2>4 DEF SessionOK
<1> QED BY <1>3, <1>4, <1>5, <1>6, <1>7, <1>8, <1>9, <1>10, <1>11, <1>12, <1>13 DEF SessionStep

LEMMA HostTypes ==
  ASSUME DesktopInv, SessionOK, HostStep PROVE SessionOK'
<1>1. CASE Reboot
  BY <1>1, ArgForms DEF Reboot, SessionOK
<1>2. CASE Crash /\ arg' = [c \in Clients |-> NoArg] /\ UNCHANGED <<procs, Files>>
  BY <1>2, ArgForms DEF Files, SessionOK
<1>3. ASSUME NEW p \in Pids, ViewdEnters(p) PROVE SessionOK'
  <2>1. procs[p] \in Proc
    BY <1>3 DEF ViewdEnters, Alive, SessionOK
  <2>2. \E stage \in {"up", "mounting"} : procs' = [procs EXCEPT ![p].stage = stage]
    BY <1>3 DEF ViewdEnters
  <2>3. procs' \in [Pids -> Proc \cup {None}]
    <3>1. PICK stage \in {"up", "mounting"} : procs' = [procs EXCEPT ![p].stage = stage]
      BY <2>2
    <3> DEFINE q == [procs[p] EXCEPT !.stage = stage]
    <3>2. q \in Proc /\ procs' = [procs EXCEPT ![p] = q]
      BY <2>1, <3>1, Staged
    <3> HIDE DEF q
    <3> QED BY <3>2 DEF SessionOK
  <2> QED BY <1>3, <2>3 DEF ViewdEnters, SessionOK
<1>4. ASSUME NEW p \in Pids, ViewdMounts(p) PROVE SessionOK'
  <2> DEFINE owner == procs[p].kind # "session"
             q == Changed(procs[p], [stage |-> "up", owner |-> owner])
  <2>1. procs[p] \in Proc
    BY <1>4 DEF ViewdMounts, Alive, SessionOK
  <2>2. q \in Proc
    <3>1. owner \in BOOLEAN
      OBVIOUS
    <3> HIDE DEF owner
    <3> QED BY <2>1, <3>1 DEF Changed, Proc
  <2>3. procs' = [procs EXCEPT ![p] = q]
    BY <1>4 DEF ViewdMounts
  <2> HIDE DEF q
  <2> QED BY <1>4, <2>2, <2>3 DEF ViewdMounts, SessionOK
<1>5. ASSUME NEW p \in Pids, ViewdFails(p) PROVE SessionOK'
  BY <1>5, ArgForms DEF ViewdFails, SessionOK
<1>6. ASSUME NEW p \in Pids, Exit(p) PROVE SessionOK'
  BY <1>6 DEF Exit, SessionOK
<1>7. ASSUME NEW p \in Pids, PidReused(p) PROVE SessionOK'
  <2> DEFINE q == [kind |-> "other", env |-> None, sid |-> None, stage |-> "up", owner |-> FALSE,
                   killed |-> FALSE]
  <2>1. q \in Proc /\ procs' = [procs EXCEPT ![p] = q]
    BY <1>7 DEF PidReused, Proc
  <2> HIDE DEF q
  <2> QED BY <1>7, <2>1 DEF PidReused, SessionOK
<1> QED BY <1>1, <1>2, <1>3, <1>4, <1>5, <1>6, <1>7 DEF HostStep

-----------------------------------------------------------------------------
(* The whole.                                                              *)

LEMMA DesktopInit == Init => DesktopInv /\ SessionOK
<1> SUFFICES ASSUME Init PROVE DesktopInv /\ SessionOK
  OBVIOUS
<1>1. StoreOK
  <2>1. \A d \in Ids : rec[d] = None
    BY DEF Init, ControlInit
  <2>2. /\ made \in [Ids -> BOOLEAN]
        /\ tree \in [Ids -> SUBSET Parts]
        /\ rec \in [Ids -> BaseRec \cup EnvRec \cup {None}]
        /\ wiping \subseteq Envs
    BY DEF Init, ControlInit
  <2> QED BY <2>1, <2>2, IdFacts DEF StoreOK, WholeTrees
<1>2. req \in [Clients -> Requests] /\ \A c \in Clients : Fits(req[c], tree, rec, wiping)
  BY IdleRequest, IdleFits DEF Init, ControlInit
<1>3. SessionOK
  BY ArgForms DEF Init, SessionOK
<1> QED BY <1>1, <1>2, <1>3 DEF DesktopInv

LEMMA DesktopStep ==
  ASSUME OneClient, DesktopInv, SessionOK, [Next]_vars
  PROVE  DesktopInv' /\ SessionOK' /\ BasesKept
<1>1. CASE HostStep
  BY <1>1, HostStepKeeps, HostTypes
<1>2. ASSUME NEW c \in Clients, SessionStep(c) PROVE DesktopInv' /\ SessionOK' /\ BasesKept
  BY <1>2, SessionWorkStep, WorkTypes
<1>3. ASSUME NEW c \in Clients, SessionRequest(c) PROVE DesktopInv' /\ SessionOK' /\ BasesKept
  BY <1>3, SessionRequestStep, RequestTypes
<1>4. ASSUME NEW c \in Clients,
             (Proceed(c) \/ Request(c) \/ Wipe(c) \/ WipeFails(c)) /\ UNCHANGED sessionVars
      PROVE  DesktopInv' /\ SessionOK' /\ BasesKept
  BY <1>4, ControlStep DEF sessionVars, SessionOK
<1>5. CASE UNCHANGED vars
  BY <1>5, QuietReq DEF vars, controlVars, sessionVars, SessionOK
<1> QED BY <1>1, <1>2, <1>3, <1>4, <1>5 DEF Next

LEMMA DesktopInvariance == ASSUME OneClient PROVE Spec => [](DesktopInv /\ SessionOK)
<1>1. DesktopInv /\ SessionOK /\ [Next]_vars => DesktopInv' /\ SessionOK'
  BY DesktopStep
<1> QED BY DesktopInit, <1>1, PTL DEF Spec

\* With one client at a time: a base or env that has a record has its whole
\* tree, wherever the clone, or the cleanup of one that failed, was cut off,
\* and whatever agent-viewd does in the directory meanwhile.
THEOREM SerialWholeTrees == ASSUME OneClient PROVE Spec => []WholeTrees
<1>1. DesktopInv => WholeTrees
  BY DEF DesktopInv, StoreOK
<1> QED BY <1>1, DesktopInvariance, PTL

\* With one client at a time: no request, crash or program changes the record
\* or the tree of a base once it is frozen.
THEOREM SerialBaseStaysFrozen == ASSUME OneClient PROVE Spec => BaseStaysFrozen
<1>1. DesktopInv /\ SessionOK /\ [Next]_vars
        => [\A b \in Bases : rec[b] # None => rec'[b] = rec[b] /\ tree'[b] = tree[b]]_<<rec, tree>>
  BY DesktopStep DEF BasesKept
<1> QED BY <1>1, DesktopInvariance, PTL DEF Spec, BaseStaysFrozen

-----------------------------------------------------------------------------
(* The sessions an env's record names have files.  A record is written     *)
(* back from a copy, so that the invariant is about every copy a request   *)
(* holds, too.                                                             *)

\* Steps of a request that is about session arg.sid.  It writes the session's
\* file, whatever it was asked for, before it writes its copy back.
Filing == {"spawn", "named", "logged", "filed", "signal", "unname"}

\* An env whose removal has begun may lose its files under the request.
CopyFits(r, a) ==
  r.at \in Holding /\ r.env \notin wiping =>
    /\ r.at \in {"back", "running"} => r.copy.sessions \subseteq Known(r.env)
    /\ r.at \in Filing => a.sid \in Sessions /\ r.copy.sessions \subseteq Known(r.env) \cup {a.sid}
    /\ r.at = "sync" => a.listed \subseteq Known(r.env)

IndexInv == IndexHasFiles /\ \A c \in Clients : CopyFits(req[c], arg[c])

\* No file of a session goes, and no removal ends.
FilesStay == wiping \subseteq wiping' /\ \A e \in Envs : Known(e) \subseteq Known(e)'

\* A record stays, goes, or is a new env's.
RecordsStay == \A e \in Envs : rec'[e] \in {rec[e], None} \/ rec'[e].sessions = {}

-----------------------------------------------------------------------------
LEMMA QuietFiles ==
  ASSUME UNCHANGED files, wiping \subseteq wiping' PROVE FilesStay
BY DEF FilesStay, Known

LEMMA IndexKept ==
  ASSUME IndexInv, FilesStay, RecordsStay PROVE IndexHasFiles'
BY DEF IndexInv, IndexHasFiles, FilesStay, RecordsStay

LEMMA OneRequest ==
  ASSUME OneClient, NEW c \in Clients, IndexHasFiles', CopyFits(req[c], arg[c])'
  PROVE  IndexInv'
BY DEF OneClient, IndexInv

LEMMA SameRequest ==
  ASSUME DesktopInv, IndexInv, FilesStay, RecordsStay, UNCHANGED <<req, arg>>
  PROVE  IndexInv'
<1>1. ASSUME NEW c \in Clients, req[c].at \in Holding PROVE req[c].env \in Envs
  BY <1>1 DEF DesktopInv, Fits, Holding
<1>2. ASSUME NEW c \in Clients PROVE CopyFits(req[c], arg[c])'
  BY <1>1 DEF IndexInv, CopyFits, FilesStay
<1> QED BY <1>2, IndexKept DEF IndexInv

\* The request has no copy any more, or none yet.
LEMMA NoCopy ==
  ASSUME OneClient, IndexInv, FilesStay, RecordsStay, NEW c \in Clients, req'[c].at \notin Holding
  PROVE  IndexInv'
<1>1. CopyFits(req[c], arg[c])'
  BY DEF CopyFits
<1> QED BY <1>1, OneRequest, IndexKept

LEMMA Finished ==
  ASSUME OneClient, DesktopInv, IndexInv, FilesStay, RecordsStay, NEW c \in Clients, Finish(c)
  PROVE  IndexInv'
<1>1. req'[c].at \notin Holding
  BY DEF Finish, Idle, DesktopInv, Holding
<1> QED BY <1>1, NoCopy

\* What a request is after its step.
LEMMA NextField ==
  ASSUME DesktopInv, NEW c \in Clients, NEW fields, "at" \in DOMAIN fields,
         Update(c, fields) \/ Begin(c, fields)
  PROVE  req'[c].at = fields.at
BY DEF DesktopInv, Update, Begin, Changed, Idle, Requests

LEMMA Went ==
  ASSUME DesktopInv, NEW c \in Clients, NEW stage, Goto(c, stage)
  PROVE  req'[c].at = stage /\ req'[c].env = req[c].env /\ req'[c].copy = req[c].copy
BY DEF DesktopInv, Goto, Update, Changed, Requests

LEMMA WithCopy ==
  ASSUME DesktopInv, NEW c \in Clients, NEW stage, NEW op, NEW e, NEW env,
         \/ Begin(c, [at |-> stage, env |-> e, copy |-> env])
         \/ Begin(c, [at |-> stage, op |-> op, env |-> e, copy |-> env])
  PROVE  req'[c].at = stage /\ req'[c].env = e /\ req'[c].copy = env
<1>1. CASE Begin(c, [at |-> stage, env |-> e, copy |-> env])
  BY <1>1 DEF DesktopInv, Begin, Changed, Idle
<1>2. CASE Begin(c, [at |-> stage, op |-> op, env |-> e, copy |-> env])
  BY <1>2 DEF DesktopInv, Begin, Changed, Idle
<1> QED BY <1>1, <1>2

\* A copy that is as good as the record.
LEMMA FreshCopy ==
  ASSUME OneClient, DesktopInv, IndexInv, FilesStay, RecordsStay,
         NEW c \in Clients, NEW e \in Envs, rec[e] # None,
         req'[c].at \in {"back", "running"}, req'[c].env = e,
         req'[c].copy.sessions = rec[e].sessions
  PROVE  IndexInv'
<1>1. e \notin wiping' => rec[e].sessions \subseteq Known(e)'
  BY DEF IndexInv, IndexHasFiles, FilesStay
<1>2. CopyFits(req[c], arg[c])'
  BY <1>1 DEF CopyFits, Filing
<1> QED BY <1>2, OneRequest, IndexKept

-----------------------------------------------------------------------------
(* The steps of DesktopControl.                                            *)

LEMMA ContinueStage ==
  ASSUME DesktopInv, NEW c \in Clients, NEW stage, stage \notin Holding, Continue(c, stage)
  PROVE  req'[c].at \notin Holding
<1>1. CASE stage = "idle"
  BY <1>1 DEF Continue, Finish, Idle, DesktopInv, Holding
<1>2. CASE stage # "idle"
  BY <1>2, NextField DEF Continue
<1> QED BY <1>1, <1>2

LEMMA FinishStage ==
  ASSUME DesktopInv, NEW c \in Clients, Finish(c) PROVE req'[c].at \notin Holding
BY DEF Finish, Idle, DesktopInv, Holding

LEMMA MakingSteps ==
  ASSUME DesktopInv, NEW c \in Clients,
         \/ Freeze(c) \/ Create(c) \/ EnsureBase(c) \/ EnsureEnv(c) \/ EnsureStarted(c)
         \/ Mkdir(c) \/ Clone(c) \/ Copy(c) \/ CopyFails(c) \/ Clean(c) \/ WriteRecord(c) \/ WriteFails(c)
  PROVE  /\ req'[c].at \notin Holding
         /\ UNCHANGED wiping
         /\ RecordsStay
<1>1. \A op : /\ AfterFreeze(op) \notin Holding /\ AfterCreate(op) \notin Holding
              /\ AlreadyExists(op) \notin Holding
  BY DEF AfterFreeze, AfterCreate, AlreadyExists, Holding
<1>2. \A r, todo : AfterCopy(r, todo) \notin Holding
  BY DEF AfterCopy, Holding
<1>3. CASE Freeze(c) \/ Create(c) \/ EnsureBase(c) \/ EnsureEnv(c) \/ EnsureStarted(c)
  <2>1. \/ Finish(c)
        \/ \E stage : stage \notin Holding /\ (Continue(c, stage) \/ Goto(c, stage))
        \/ \E d, b : \/ Update(c, [at |-> "mkdir", d |-> d])
                     \/ Update(c, [at |-> "mkdir", d |-> d, backend |-> b])
                     \/ Update(c, [at |-> "freeze", backend |-> b])
    BY <1>1, <1>3 DEF Freeze, Create, EnsureBase, EnsureEnv, EnsureStarted, Holding
  <2>2. ASSUME NEW stage, stage \notin Holding, Goto(c, stage) PROVE req'[c].at \notin Holding
    BY <2>2, Went
  <2>3. ASSUME NEW d, NEW b, \/ Update(c, [at |-> "mkdir", d |-> d])
                             \/ Update(c, [at |-> "mkdir", d |-> d, backend |-> b])
                             \/ Update(c, [at |-> "freeze", backend |-> b])
        PROVE  req'[c].at \notin Holding
    <3>1. CASE Update(c, [at |-> "mkdir", d |-> d])
      BY <3>1, NextField DEF Holding
    <3>2. CASE Update(c, [at |-> "mkdir", d |-> d, backend |-> b])
      BY <3>2, NextField DEF Holding
    <3>3. CASE Update(c, [at |-> "freeze", backend |-> b])
      BY <3>3, NextField DEF Holding
    <3> QED BY <2>3, <3>1, <3>2, <3>3
  <2>4. req'[c].at \notin Holding
    BY <2>1, <2>2, <2>3, FinishStage, ContinueStage
  <2> QED BY <1>3, <2>4 DEF Freeze, Create, EnsureBase, EnsureEnv, EnsureStarted, Quiet, RecordsStay
<1>4. CASE Mkdir(c) \/ Clone(c) \/ Copy(c) \/ CopyFails(c) \/ WriteFails(c)
  <2>1. \/ Finish(c) \/ Goto(c, "clone") \/ Goto(c, "clean")
        \/ \E todo : Update(c, [at |-> AfterCopy(req[c], todo), todo |-> todo])
    BY <1>4 DEF Mkdir, Clone, Copy, CopyFails, WriteFails
  <2>2. ASSUME NEW todo, Update(c, [at |-> AfterCopy(req[c], todo), todo |-> todo])
        PROVE  req'[c].at \notin Holding
    BY <1>2, <2>2, NextField
  <2>3. "clone" \notin Holding /\ "clean" \notin Holding
    BY DEF Holding
  <2>4. req'[c].at \notin Holding
    BY <2>1, <2>2, <2>3, FinishStage, Went
  <2> QED BY <1>4, <2>4 DEF Mkdir, Clone, Copy, CopyFails, WriteFails, Quiet, RecordsStay
<1>5. CASE Clean(c) \/ WriteRecord(c)
  <2>1. req'[c].at \notin Holding
    BY <1>1, <1>5, FinishStage, ContinueStage DEF Clean, WriteRecord
  <2>2. RecordsStay
    <3>1. CASE Clean(c)
      BY <3>1 DEF Clean, DesktopInv, StoreOK, RecordsStay, Ids
    <3>2. CASE WriteRecord(c)
      <4>1. req[c].d \in Bases => req[c].d \notin Envs
        BY IdFacts
      <4> QED BY <3>2, <4>1 DEF WriteRecord, DesktopInv, StoreOK, RecordsStay, Ids
    <3> QED BY <1>5, <3>1, <3>2
  <2> QED BY <1>5, <2>1, <2>2 DEF Clean, WriteRecord
<1> QED BY <1>3, <1>4, <1>5

LEMMA BackSteps ==
  ASSUME OneClient, DesktopInv, IndexInv, NEW c \in Clients, UNCHANGED files,
         Start(c) \/ WriteBack(c)
  PROVE  IndexInv'
<1>0. PICK e \in Envs : e = req[c].env
  BY DEF Start, WriteBack, DesktopInv, Fits
<1>1. FilesStay
  BY QuietFiles DEF Start, WriteBack, Quiet
<1>2. CASE Start(c)
  <2>1. RecordsStay
    BY <1>2 DEF Start, Quiet, RecordsStay
  <2>2. CASE rec[e] = None
    BY <1>0, <1>1, <1>2, <2>1, <2>2, Finished DEF Start
  <2>3. CASE rec[e] # None
    <3> DEFINE env == [rec[e] EXCEPT !.state = "Running"]
    <3>1. Update(c, [at |-> "back", copy |-> env])
      BY <1>0, <1>2, <2>3 DEF Start
    <3>2. env.sessions = rec[e].sessions
      BY <1>1, <2>3, EnvRecorded DEF EnvRec
    <3> HIDE DEF env
    <3>3. req'[c].at = "back" /\ req'[c].env = e /\ req'[c].copy = env
      BY <1>0, <3>1 DEF Update, Changed, DesktopInv, Requests
    <3> QED BY <1>1, <2>1, <2>3, <3>2, <3>3, FreshCopy
  <2> QED BY <2>2, <2>3
<1>3. CASE WriteBack(c)
  <2>1. CASE Finish(c) /\ UNCHANGED <<made, rec>>
    BY <1>1, <2>1, Finished DEF RecordsStay
  <2>2. CASE /\ rec' = [rec EXCEPT ![e] = req[c].copy]
             /\ Goto(c, "target") \/ Finish(c)
    <3>1. req'[c].at \notin Holding
      BY <2>2, FinishStage, Went DEF Holding
    <3>2. e \notin wiping' => req[c].copy.sessions \subseteq Known(e)'
      <4>1. req[c].at = "back" /\ CopyFits(req[c], arg[c])
        BY <1>3 DEF WriteBack, IndexInv
      <4>2. e \notin wiping => req[c].copy.sessions \subseteq Known(e)
        BY <1>0, <4>1 DEF CopyFits, Holding
      <4>3. Known(e) \subseteq Known(e)' /\ wiping \subseteq wiping'
        BY <1>1 DEF FilesStay
      <4> QED BY <4>2, <4>3
    <3>3. \A x \in Envs \ {e} : rec'[x] = rec[x]
      BY <2>2
    <3>4. rec'[e] = req[c].copy
      BY <1>1, <2>2, IdFacts DEF DesktopInv, StoreOK
    <3>5. IndexHasFiles'
      <4> SUFFICES ASSUME NEW x \in Envs, rec'[x] # None, x \notin wiping'
                   PROVE  rec'[x].sessions \subseteq Known(x)'
        BY DEF IndexHasFiles
      <4>1. CASE x = e
        BY <3>2, <3>4, <4>1
      <4>2. CASE x # e
        <5>1. rec[x] # None /\ x \notin wiping /\ Known(x) \subseteq Known(x)' /\ rec'[x] = rec[x]
          BY <1>1, <3>3, <4>2 DEF FilesStay
        <5> QED BY <5>1 DEF IndexInv, IndexHasFiles
      <4> QED BY <4>1, <4>2
    <3>6. CopyFits(req[c], arg[c])'
      BY <3>1 DEF CopyFits
    <3> QED BY <3>5, <3>6, OneRequest
  <2> QED BY <1>0, <1>3, <2>1, <2>2 DEF WriteBack
<1> QED BY <1>2, <1>3

LEMMA RemovalSteps ==
  ASSUME OneClient, DesktopInv, IndexInv, NEW c \in Clients, UNCHANGED files,
         Unmount(c) \/ Wipe(c) \/ Wiped(c) \/ WipeFails(c)
  PROVE  IndexInv'
<1>1. req[c].env \in Envs /\ req[c].env \in Ids
  BY IdFacts DEF Unmount, Wipe, Wiped, WipeFails, DesktopInv, Fits
<1>2. RecordsStay
  <2>1. \/ UNCHANGED rec
        \/ rec' = [rec EXCEPT ![req[c].env] = None]
    BY DEF Unmount, Wipe, Wiped, WipeFails, Quiet
  <2> QED BY <1>1, <2>1, IdFacts DEF RecordsStay, DesktopInv, StoreOK
<1>3. CASE Unmount(c)
  <2>1. FilesStay
    BY <1>3, QuietFiles DEF Unmount, BeginWipe
  <2>2. CASE Finish(c)
    BY <1>2, <2>1, <2>2, Finished
  <2>3. CASE BeginWipe(c, req[c].env)
    <3>1. req'[c].at \notin Holding
      BY <2>3, NextField DEF BeginWipe, Holding
    <3> QED BY <1>2, <2>1, <3>1, NoCopy
  <2> QED BY <1>3, <2>2, <2>3 DEF Unmount
<1>4. CASE Wipe(c)
  <2>1. FilesStay
    BY <1>4, QuietFiles DEF Wipe
  <2>2. req'[c].at \notin Holding
    BY <1>4 DEF Wipe, Holding
  <2> QED BY <1>2, <2>1, <2>2, NoCopy
<1>5. CASE WipeFails(c)
  <2>1. FilesStay
    BY <1>5, QuietFiles DEF WipeFails, Quiet
  <2> QED BY <1>2, <1>5, <2>1, Finished DEF WipeFails
<1>6. CASE Wiped(c)
  <2>1. IndexHasFiles'
    BY <1>1, <1>6 DEF Wiped, IndexInv, IndexHasFiles, Known
  <2>2. req'[c].at \notin Holding
    BY <1>6, FinishStage DEF Wiped
  <2>3. CopyFits(req[c], arg[c])'
    BY <2>2 DEF CopyFits
  <2> QED BY <2>1, <2>3, OneRequest
<1> QED BY <1>3, <1>4, <1>5, <1>6

LEMMA RequestIndex ==
  ASSUME OneClient, DesktopInv, IndexInv, NEW c \in Clients, UNCHANGED files, Request(c)
  PROVE  IndexInv'
<1>1. RecordsStay /\ FilesStay
  <2>1. UNCHANGED rec /\ wiping \subseteq wiping'
    BY DEF Request, StateRequest, New, FreezeRequest, CreateRequest, Destroy, DirectRemove,
           BeginWipe, Quiet
  <2> QED BY <2>1, QuietFiles DEF RecordsStay
<1>2. CASE \E e \in Envs, state \in {"Running", "Stopped"} : StateRequest(c, e, state)
  <2>1. PICK e \in Envs, state \in {"Running", "Stopped"} : StateRequest(c, e, state)
    BY <1>2
  <2> DEFINE env == [rec[e] EXCEPT !.state = state]
  <2>2. rec[e] # None /\ Begin(c, [at |-> "back", env |-> e, copy |-> env])
    BY <2>1 DEF StateRequest
  <2>3. env.sessions = rec[e].sessions
    BY <2>2, EnvRecorded DEF EnvRec
  <2> HIDE DEF env
  <2>4. req'[c].at = "back" /\ req'[c].env = e /\ req'[c].copy = env
    BY <2>2, WithCopy
  <2> QED BY <1>1, <2>2, <2>3, <2>4, FreshCopy
<1>3. CASE ~\E e \in Envs, state \in {"Running", "Stopped"} : StateRequest(c, e, state)
  <2>1. \E e, b, s, k, op :
          \/ Begin(c, [at |-> "create", env |-> e, base |-> b])
          \/ Begin(c, [at |-> "started", op |-> "new", env |-> e, base |-> b])
          \/ Begin(c, [at |-> "ensureBase", op |-> "new", env |-> e, base |-> b, source |-> s, backend |-> k])
          \/ Begin(c, [at |-> "freeze", op |-> op, env |-> e, base |-> b, source |-> s, backend |-> k])
          \/ Begin(c, [at |-> "unmount", env |-> e])
          \/ Begin(c, [at |-> "wipe", env |-> e])
    BY <1>3 DEF Request, New, FreezeRequest, CreateRequest, Destroy, DirectRemove, BeginWipe
  <2>2. ASSUME NEW e, NEW b, NEW s, NEW k, NEW op, NEW fields,
               fields \in {[at |-> "create", env |-> e, base |-> b],
                           [at |-> "started", op |-> "new", env |-> e, base |-> b],
                           [at |-> "ensureBase", op |-> "new", env |-> e, base |-> b, source |-> s,
                            backend |-> k],
                           [at |-> "freeze", op |-> op, env |-> e, base |-> b, source |-> s,
                            backend |-> k],
                           [at |-> "unmount", env |-> e],
                           [at |-> "wipe", env |-> e]},
               Begin(c, fields)
        PROVE  req'[c].at \notin Holding
    <3>1. "at" \in DOMAIN fields /\ fields.at \notin Holding
      BY <2>2 DEF Holding
    <3> QED BY <2>2, <3>1, NextField
  <2>3. req'[c].at \notin Holding
    BY <2>1, <2>2
  <2> QED BY <1>1, <2>3, NoCopy
<1> QED BY <1>2, <1>3

LEMMA ControlIndex ==
  ASSUME OneClient, DesktopInv, IndexInv, NEW c \in Clients, UNCHANGED files,
         Proceed(c) \/ Request(c) \/ ShellResponse(c) \/ Wipe(c) \/ Wiped(c) \/ WipeFails(c)
  PROVE  IndexInv'
<1>1. CASE ShellResponse(c)
  BY <1>1, QuietFiles, Finished DEF ShellResponse, Quiet, RecordsStay
<1>2. CASE Proceed(c)
  <2>1. CASE \/ Freeze(c) \/ Create(c) \/ EnsureBase(c) \/ EnsureEnv(c) \/ EnsureStarted(c)
             \/ Mkdir(c) \/ Clone(c) \/ Copy(c) \/ CopyFails(c) \/ Clean(c) \/ WriteRecord(c)
             \/ WriteFails(c)
    BY <2>1, MakingSteps, QuietFiles, NoCopy
  <2> QED BY <1>2, <2>1, BackSteps, RemovalSteps DEF Proceed
<1> QED BY <1>1, <1>2, RequestIndex, RemovalSteps

-----------------------------------------------------------------------------
(* The steps of DesktopSessions.                                           *)

LEMMA QuietStays ==
  ASSUME Quiet PROVE RecordsStay /\ (UNCHANGED files => FilesStay)
BY QuietFiles DEF Quiet, RecordsStay

\* The state of a session's file is written.
LEMMA FileWritten ==
  ASSUME SessionOK, UNCHANGED wiping, NEW e \in Envs, NEW s \in Sessions,
         NEW state \in {"Running", "Stopped"}, files' = [files EXCEPT ![e][s] = state]
  PROVE  FilesStay /\ s \in Known(e)'
BY DEF SessionOK, FilesStay, Known

\* A request that will write the file of session s holds a copy that may
\* name it already.
LEMMA FilingCopy ==
  ASSUME OneClient, DesktopInv, IndexInv, FilesStay, RecordsStay,
         NEW c \in Clients, NEW e \in Envs, rec[e] # None, NEW s \in Sessions,
         req'[c].at \in Filing, req'[c].env = e, arg'[c].sid = s,
         req'[c].copy.sessions \subseteq rec[e].sessions \cup {s}
  PROVE  IndexInv'
<1>1. e \notin wiping' => rec[e].sessions \subseteq Known(e)'
  BY DEF IndexInv, IndexHasFiles, FilesStay
<1>2. CopyFits(req[c], arg[c])'
  BY <1>1 DEF CopyFits, Filing
<1> QED BY <1>2, OneRequest, IndexKept

LEMMA ArgIs ==
  ASSUME SessionOK, NEW c \in Clients, NEW a, SetArg(c, a) PROVE arg'[c] = a
BY DEF SessionOK, SetArg

LEMMA RequestIndexed ==
  ASSUME OneClient, DesktopInv, SessionOK, IndexInv, NEW c \in Clients, SessionRequest(c)
  PROVE  IndexInv'
<1>1. PICK e \in Envs :
        \/ Exec(c, e) \/ Touch(c, e) \/ Shell(c, e) \/ SessionList(c, e)
        \/ \E s \in Sessions : SessionCreate(c, e, s) \/ SessionDetach(c, e, s) \/ SessionKill(c, e, s)
  BY DEF SessionRequest
<1>2. CASE Exec(c, e) \/ Touch(c, e)
  <2>1. /\ rec[e] # None
        /\ \/ Begin(c, [at |-> "running", env |-> e, copy |-> rec[e]])
           \/ Begin(c, [at |-> "back", env |-> e, copy |-> rec[e]])
    BY <1>2 DEF Exec, Touch, Running, BeginBack
  <2>2. req'[c].at \in {"back", "running"} /\ req'[c].env = e /\ req'[c].copy = rec[e]
    BY <2>1, WithCopy
  <2>3. FilesStay /\ RecordsStay
    BY <1>2, QuietStays DEF Exec, Touch, Files, sessionVars
  <2> QED BY <2>1, <2>2, <2>3, FreshCopy
<1>3. CASE Shell(c, e)
  <2>1. FilesStay /\ RecordsStay
    BY <1>3, QuietStays DEF Shell
  <2> QED BY <1>3, <2>1, SameRequest DEF Shell
<1>4. CASE SessionList(c, e)
  <2>1. req'[c].at = "sync" /\ req'[c].env = e
    BY <1>4, WithCopy DEF SessionList
  <2>2. arg'[c].listed = Known(e)
    BY <1>4, ArgIs DEF SessionList, Changed, NoArg
  <2>3. FilesStay /\ RecordsStay
    BY <1>4, QuietStays DEF SessionList, Files
  <2>4. CopyFits(req[c], arg[c])'
    BY <2>1, <2>2, <2>3 DEF CopyFits, Filing, FilesStay
  <2> QED BY <2>3, <2>4, OneRequest, IndexKept
<1>5. ASSUME NEW s \in Sessions, SessionCreate(c, e, s) PROVE IndexInv'
  <2> DEFINE env == [rec[e] EXCEPT !.sessions = @ \cup {s}]
  <2>1. /\ rec[e] # None /\ SetArg(c, [NoArg EXCEPT !.sid = s])
        /\ Begin(c, [at |-> "spawn", op |-> "session_create", env |-> e, copy |-> env])
    BY <1>5 DEF SessionCreate, Running
  <2>2. env.sessions = rec[e].sessions \cup {s}
    BY <2>1, EnvRecorded DEF EnvRec
  <2> HIDE DEF env
  <2>3. req'[c].at = "spawn" /\ req'[c].env = e /\ req'[c].copy = env
    BY <2>1, WithCopy
  <2>4. arg'[c].sid = s
    BY <2>1, ArgIs DEF NoArg
  <2>5. FilesStay /\ RecordsStay
    BY <1>5, QuietStays DEF SessionCreate, Files
  <2> QED BY <2>1, <2>2, <2>3, <2>4, <2>5, FilingCopy DEF Filing
<1>6. ASSUME NEW s \in Sessions, SessionKill(c, e, s) PROVE IndexInv'
  <2>1. /\ rec[e] # None /\ SetArg(c, Changed(NoArg, [sid |-> s, pid |-> pidFile[e][s]]))
        /\ Begin(c, [at |-> "signal", op |-> "kill", env |-> e, copy |-> rec[e]])
    BY <1>6 DEF SessionKill, Running
  <2>2. req'[c].at = "signal" /\ req'[c].env = e /\ req'[c].copy = rec[e]
    BY <2>1, WithCopy
  <2>3. arg'[c].sid = s
    BY <2>1, ArgIs DEF NoArg, Changed
  <2>4. FilesStay /\ RecordsStay
    BY <1>6, QuietStays DEF SessionKill, Files
  <2> QED BY <2>1, <2>2, <2>3, <2>4, FilingCopy DEF Filing
<1>7. ASSUME NEW s \in Sessions, SessionDetach(c, e, s) PROVE IndexInv'
  <2>1. RecordsStay /\ UNCHANGED <<wiping, arg>> /\ rec[e] # None
    BY <1>7, QuietStays DEF SessionDetach, Quiet, Running
  <2>2. CASE BeginBack(c, e, rec[e]) /\ UNCHANGED files
    <3>1. req'[c].at = "back" /\ req'[c].env = e /\ req'[c].copy = rec[e]
      BY <2>2, WithCopy DEF BeginBack
    <3> QED BY <2>1, <2>2, <3>1, FreshCopy, QuietFiles
  <2>3. CASE files' = [files EXCEPT ![e][s] = "Stopped"] /\ UNCHANGED req
    <3>1. FilesStay
      BY <2>1, <2>3, FileWritten
    <3> QED BY <2>1, <2>3, <3>1, SameRequest
  <2> QED BY <1>7, <2>2, <2>3 DEF SessionDetach
<1> QED BY <1>1, <1>2, <1>3, <1>4, <1>5, <1>6, <1>7

\* The request goes on about the same session.
LEMMA StillFiling ==
  ASSUME OneClient, DesktopInv, IndexInv, FilesStay, RecordsStay, NEW c \in Clients,
         req[c].at \in Filing, req'[c].at \in Filing,
         req'[c].env = req[c].env, req'[c].copy = req[c].copy, arg'[c].sid = arg[c].sid
  PROVE  IndexInv'
<1>1. PICK e \in Envs : e = req[c].env
  BY DEF DesktopInv, Fits, Filing
<1>2. e \notin wiping => /\ arg[c].sid \in Sessions
                         /\ req[c].copy.sessions \subseteq Known(e) \cup {arg[c].sid}
  BY <1>1 DEF IndexInv, CopyFits, Filing, Holding
<1>3. Known(e) \subseteq Known(e)' /\ wiping \subseteq wiping'
  BY DEF FilesStay
<1>4. CopyFits(req[c], arg[c])'
  BY <1>1, <1>2, <1>3 DEF CopyFits, Filing
<1> QED BY <1>4, OneRequest, IndexKept

\* The copy of a request that comes to its write.
LEMMA CopyReady ==
  ASSUME OneClient, IndexInv, FilesStay, RecordsStay, NEW c \in Clients, NEW e \in Envs,
         req'[c].at = "back", req'[c].env = e,
         e \notin wiping => req'[c].copy.sessions \subseteq Known(e)'
  PROVE  IndexInv'
<1>1. CopyFits(req[c], arg[c])'
  BY DEF CopyFits, Filing, FilesStay
<1> QED BY <1>1, OneRequest, IndexKept

LEMMA FilingSteps ==
  ASSUME OneClient, DesktopInv, SessionOK, IndexInv, NEW c \in Clients,
         \/ SessionSpawn(c) \/ SessionSpawned(c) \/ WritePidFile(c) \/ AppendLog(c)
         \/ GiveUp(c) \/ Signal(c) \/ RemovePidFile(c)
  PROVE  IndexInv'
<1>1. FilesStay /\ RecordsStay
  BY QuietStays DEF SessionSpawn, SessionSpawned, WritePidFile, AppendLog, GiveUp, Signal,
                    RemovePidFile, Files, sessionVars
<1>2. req[c].at \in Filing
  BY DEF SessionSpawn, SessionSpawned, WritePidFile, AppendLog, GiveUp, Signal, RemovePidFile, Filing
<1>3. CASE Finish(c)
  BY <1>1, <1>3, Finished
<1>4. CASE \E stage \in Filing : Goto(c, stage) /\ UNCHANGED arg
  <2>1. PICK stage \in Filing : Goto(c, stage) /\ UNCHANGED arg
    BY <1>4
  <2> QED BY <1>1, <1>2, <2>1, Went, StillFiling DEF Filing
<1>5. CASE UNCHANGED req /\ \E p : SetArg(c, [arg[c] EXCEPT !.pid = p])
  <2>1. PICK p : SetArg(c, [arg[c] EXCEPT !.pid = p])
    BY <1>5
  <2>2. arg'[c].sid = arg[c].sid
    BY <2>1, ArgIs DEF SessionOK, Args
  <2> QED BY <1>1, <1>2, <1>5, <2>2, StillFiling DEF Filing
<1>6. \/ Finish(c)
      \/ \E stage \in Filing : Goto(c, stage) /\ UNCHANGED arg
      \/ UNCHANGED req /\ \E p : SetArg(c, [arg[c] EXCEPT !.pid = p])
  BY DEF SessionSpawn, SessionSpawned, WritePidFile, AppendLog, GiveUp, Signal, RemovePidFile,
         sessionVars, Filing
<1> QED BY <1>3, <1>4, <1>5, <1>6

LEMMA WriteSessionStep ==
  ASSUME OneClient, DesktopInv, SessionOK, IndexInv, NEW c \in Clients, WriteSession(c)
  PROVE  IndexInv'
<1>1. PICK e \in Envs : e = req[c].env
  BY DEF WriteSession, DesktopInv, Fits
<1>2. /\ req'[c].at = "back" /\ req'[c].env = e /\ req'[c].copy = req[c].copy
  BY <1>1, Went DEF WriteSession
<1>3. e \notin wiping => /\ arg[c].sid \in Sessions
                         /\ req[c].copy.sessions \subseteq Known(e) \cup {arg[c].sid}
  BY <1>1 DEF WriteSession, IndexInv, CopyFits, Filing, Holding
<1>4. RecordsStay /\ UNCHANGED wiping
  BY QuietStays DEF WriteSession, Quiet
<1>5. PICK state \in {"Running", "Stopped"} : files' = [files EXCEPT ![e][arg[c].sid] = state]
  BY <1>1 DEF WriteSession, Env
<1>6. CASE arg[c].sid \in Sessions
  <2>1. FilesStay /\ arg[c].sid \in Known(e)'
    <3> DEFINE s == arg[c].sid
    <3>1. s \in Sessions /\ files' = [files EXCEPT ![e][s] = state]
      BY <1>5, <1>6
    <3> QED BY <1>4, <3>1 DEF SessionOK, FilesStay, Known
  <2>2. Known(e) \subseteq Known(e)'
    BY <2>1 DEF FilesStay
  <2>3. e \notin wiping => req'[c].copy.sessions \subseteq Known(e)'
    BY <1>2, <1>3, <2>1, <2>2
  <2> QED BY <1>2, <1>4, <2>1, <2>3, CopyReady
<1>7. CASE arg[c].sid \notin Sessions
  <2>1. FilesStay
    BY <1>4, <1>5, <1>7 DEF SessionOK, FilesStay, Known
  <2>2. e \in wiping
    BY <1>3, <1>7
  <2> QED BY <1>2, <1>4, <2>1, <2>2, CopyReady
<1> QED BY <1>6, <1>7

LEMMA WorkIndexed ==
  ASSUME OneClient, DesktopInv, SessionOK, IndexInv, NEW c \in Clients, SessionStep(c)
  PROVE  IndexInv'
<1>1. req[c].at # "idle" => req[c].env \in Envs
  BY DEF DesktopInv, Fits
<1>2. CASE ExecEnds(c)
  <2>1. PICK e \in Envs : e = req[c].env
    BY <1>1, <1>2 DEF ExecEnds
  <2>2. req'[c].at = "back" /\ req'[c].env = e /\ req'[c].copy = req[c].copy
    BY <1>2, <2>1, WithCopy DEF ExecEnds, BeginBack, Env
  <2>3. FilesStay /\ RecordsStay
    BY <1>2, QuietStays DEF ExecEnds, Files
  <2>4. e \notin wiping => req[c].copy.sessions \subseteq Known(e)
    BY <1>2, <2>1 DEF ExecEnds, IndexInv, CopyFits, Holding
  <2>5. Known(e) \subseteq Known(e)'
    BY <2>3 DEF FilesStay
  <2> QED BY <2>2, <2>3, <2>4, <2>5, CopyReady
<1>3. CASE ListMark(c)
  <2>1. PICK e \in Envs : e = req[c].env
    BY <1>1, <1>3 DEF ListMark
  <2>2. RecordsStay /\ UNCHANGED <<wiping, req>> /\ req[c].at = "sync"
    BY <1>3, QuietStays DEF ListMark, Quiet
  <2>3. PICK s \in arg[c].todo :
          /\ \E state \in {"Running", "Stopped"} : files' = [files EXCEPT ![e][s] = state]
          /\ SetArg(c, [arg[c] EXCEPT !.todo = @ \ {s}])
    BY <1>3, <2>1 DEF ListMark, Env
  <2>4. s \in Sessions
    BY <2>3 DEF SessionOK, Args
  <2>5. FilesStay
    BY <2>2, <2>3, <2>4, FileWritten
  <2>6. arg'[c].listed = arg[c].listed
    BY <2>3, ArgIs DEF SessionOK, Args
  <2>7. e \notin wiping => arg[c].listed \subseteq Known(e)
    BY <2>1, <2>2 DEF IndexInv, CopyFits, Holding
  <2>8. Known(e) \subseteq Known(e)'
    BY <2>5 DEF FilesStay
  <2>9. CopyFits(req[c], arg[c])'
    BY <2>1, <2>2, <2>6, <2>7, <2>8 DEF CopyFits, Filing
  <2> QED BY <2>2, <2>5, <2>9, OneRequest, IndexKept
<1>4. CASE ListSync(c)
  <2>1. PICK e \in Envs : e = req[c].env
    BY <1>1, <1>4 DEF ListSync
  <2>2. FilesStay /\ RecordsStay
    BY <1>4, QuietStays DEF ListSync, Files
  <2>3. CASE Finish(c)
    BY <2>2, <2>3, Finished
  <2>4. CASE ~Finish(c)
    <3> DEFINE env == [req[c].copy EXCEPT !.sessions = arg[c].listed]
    <3>1. req[c].at = "sync" /\ Begin(c, [at |-> "back", env |-> e, copy |-> env])
      BY <1>4, <2>1, <2>4 DEF ListSync, BeginBack, Env
    <3>2. env.sessions = arg[c].listed
      BY <3>1 DEF DesktopInv, Fits, Holding, EnvRec
    <3> HIDE DEF env
    <3>3. req'[c].at = "back" /\ req'[c].env = e /\ req'[c].copy = env
      BY <3>1, WithCopy
    <3>4. e \notin wiping => arg[c].listed \subseteq Known(e)
      BY <2>1, <3>1 DEF IndexInv, CopyFits, Holding
    <3>5. Known(e) \subseteq Known(e)'
      BY <2>2 DEF FilesStay
    <3> QED BY <2>2, <3>2, <3>3, <3>4, <3>5, CopyReady
  <2> QED BY <2>3, <2>4
<1>5. CASE WipeSessions(c)
  <2>1. PICK e \in Envs : e = req[c].env
    BY <1>1, <1>5 DEF WipeSessions
  <2>2. e \in wiping /\ req[c].at = "wipe" /\ UNCHANGED <<req, rec, wiping>>
    BY <1>5, <2>1 DEF WipeSessions, controlVars, DesktopInv, Fits
  <2>3. \A x \in Envs \ {e} : files'[x] = files[x]
    BY <1>5, <2>1 DEF WipeSessions, Env, SessionOK
  <2>4. IndexHasFiles'
    BY <2>2, <2>3 DEF IndexInv, IndexHasFiles, Known
  <2>5. CopyFits(req[c], arg[c])'
    BY <2>2 DEF CopyFits, Holding
  <2> QED BY <2>4, <2>5, OneRequest
<1>6. CASE AllWiped(c)
  BY <1>6, RemovalSteps DEF AllWiped, sessionVars
<1>7. CASE StartShell(c)
  BY <1>7, ControlIndex DEF StartShell
<1> QED BY <1>2, <1>3, <1>4, <1>5, <1>6, <1>7, FilingSteps, WriteSessionStep DEF SessionStep

LEMMA HostIndexed ==
  ASSUME DesktopInv, SessionOK, IndexInv, HostStep PROVE IndexInv'
<1>1. UNCHANGED <<rec, wiping, files>>
  BY DEF HostStep, Reboot, Crash, Files, ViewdEnters, ViewdMounts, ViewdFails, Exit, PidReused,
         controlVars
<1>2. FilesStay /\ RecordsStay
  BY <1>1, QuietFiles DEF RecordsStay
<1>3. ASSUME NEW c \in Clients PROVE CopyFits(req[c], arg[c])'
  <2>1. CASE req'[c] = req[c] /\ arg'[c] = arg[c]
    BY <1>1, <1>3, <2>1 DEF IndexInv, CopyFits, Known
  <2>2. CASE req'[c] = Idle
    BY <2>2 DEF CopyFits, Idle, Holding
  <2>3. (req'[c] = req[c] /\ arg'[c] = arg[c]) \/ req'[c] = Idle
    BY <1>3 DEF HostStep, Reboot, Crash, ViewdEnters, ViewdMounts, ViewdFails, Exit, PidReused,
                controlVars
  <2> QED BY <2>1, <2>2, <2>3
<1> QED BY <1>2, <1>3, IndexKept DEF IndexInv

-----------------------------------------------------------------------------
LEMMA IndexInit == Init => IndexInv
<1> SUFFICES ASSUME Init PROVE IndexInv
  OBVIOUS
<1>1. IndexHasFiles
  BY IdFacts DEF Init, ControlInit, IndexHasFiles
<1>2. \A c \in Clients : req[c].at \notin Holding
  BY DEF Init, ControlInit, Idle, Holding
<1> QED BY <1>1, <1>2 DEF IndexInv, CopyFits

LEMMA IndexStep ==
  ASSUME OneClient, DesktopInv, SessionOK, IndexInv, [Next]_vars PROVE IndexInv'
<1>1. CASE HostStep
  BY <1>1, HostIndexed
<1>2. ASSUME NEW c \in Clients, SessionStep(c) \/ SessionRequest(c) PROVE IndexInv'
  BY <1>2, WorkIndexed, RequestIndexed
<1>3. ASSUME NEW c \in Clients,
             (Proceed(c) \/ Request(c) \/ Wipe(c) \/ WipeFails(c)) /\ UNCHANGED sessionVars
      PROVE  IndexInv'
  BY <1>3, ControlIndex DEF sessionVars
<1>4. CASE UNCHANGED vars
  <2>1. FilesStay /\ RecordsStay /\ UNCHANGED <<req, arg>>
    BY <1>4, QuietFiles DEF vars, controlVars, sessionVars, RecordsStay
  <2> QED BY <2>1, SameRequest
<1> QED BY <1>1, <1>2, <1>3, <1>4 DEF Next

\* With one client at a time: every session that the record of an env names
\* has a session file, wherever a create, kill or list of sessions was cut
\* off or failed, and whatever became of the processes meanwhile.
THEOREM SerialIndexHasFiles == ASSUME OneClient PROVE Spec => []IndexHasFiles
<1>1. IndexInv /\ (DesktopInv /\ SessionOK) /\ [Next]_vars => IndexInv'
  BY IndexStep
<1>2. IndexInv => IndexHasFiles
  BY DEF IndexInv
<1> QED BY IndexInit, <1>1, <1>2, DesktopInvariance, PTL DEF Spec

-----------------------------------------------------------------------------
(* The pid file of a session that has a session file goes on naming its    *)
(* process.                                                                *)

\* What a request relies on when it replaces or removes the pid file of its
\* session: it names no live process but the one the request has started; it
\* is the one the request has read; its process has been told to end.
Tracks(r, a) ==
  /\ r.at \in Filing => a.sid \in Sessions
  /\ r.at \in {"spawn", "named"} /\ a.sid \in Known(r.env) =>
       \A p \in Pids : Names(r.env, a.sid, p) => p = a.pid
  /\ r.at = "signal" => a.pid = pidFile[r.env][a.sid]
  /\ r.at = "unname" => \A p \in Pids : ~Names(r.env, a.sid, p)

TrackInv == \A c \in Clients : Tracks(req[c], arg[c])

\* What KnownSessionsStayTracked says of one step.
NoneLost == \A e \in Envs, s \in Sessions : s \in Known(e) => LosesNone(e, s)

\* No process becomes a session's, and none forgets that it was told to end.
Ages ==
  \A p \in Pids :
    \/ procs'[p] = None \/ procs'[p].kind # "session"
    \/ /\ procs[p] # None /\ procs[p].kind = "session"
       /\ procs[p].env = procs'[p].env /\ procs[p].sid = procs'[p].sid
       /\ procs[p].killed => procs'[p].killed

-----------------------------------------------------------------------------
LEMMA Untracked ==
  ASSUME OneClient, NEW c \in Clients, req'[c].at \notin Filing PROVE TrackInv'
BY DEF OneClient, TrackInv, Tracks, Filing

LEMMA SamePidFile == ASSUME UNCHANGED pidFile PROVE NoneLost
BY DEF NoneLost, LosesNone, Names

LEMMA NamesFade ==
  ASSUME Ages, UNCHANGED pidFile, NEW e, NEW s, NEW p \in Pids, Names(e, s, p)'
  PROVE  Names(e, s, p)
BY DEF Ages, Names, Alive

\* The request is about the same session as before.
LEMMA Carried ==
  ASSUME OneClient, TrackInv, Ages, UNCHANGED <<files, pidFile>>, NEW c \in Clients,
         \/ req'[c].at = req[c].at
         \/ req[c].at = "spawn" /\ req'[c].at = "named",
         req'[c].env = req[c].env, arg'[c] = arg[c]
  PROVE  TrackInv'
<1>1. Tracks(req[c], arg[c])
  BY DEF TrackInv
<1>2. \A e : Known(e)' = Known(e)
  BY DEF Known
<1>3. Tracks(req[c], arg[c])'
  <2>1. \A p \in Pids : Names(req[c].env, arg[c].sid, p)' => Names(req[c].env, arg[c].sid, p)
    BY NamesFade
  <2> QED BY <1>1, <1>2, <2>1 DEF Tracks, Filing
<1> QED BY <1>3 DEF OneClient, TrackInv

LEMMA SameProcs == ASSUME UNCHANGED procs PROVE Ages
BY DEF Ages

LEMMA CommandSpawned ==
  ASSUME SessionOK, NEW p \in Pids, NEW e, NEW s, Spawn(p, "command", e, s) PROVE Ages
<1>1. \A q \in Pids \ {p} : procs'[q] = procs[q]
  BY DEF Spawn, SessionOK
<1>2. procs'[p].kind = "command"
  BY DEF Spawn, SessionOK
<1> QED BY <1>1, <1>2 DEF Ages

-----------------------------------------------------------------------------
LEMMA ControlUntracked ==
  ASSUME OneClient, DesktopInv, NEW c \in Clients,
         Proceed(c) \/ Request(c) \/ ShellResponse(c) \/ Wipe(c) \/ Wiped(c) \/ WipeFails(c)
  PROVE  req'[c].at \notin Filing
<1>1. Filing \subseteq Holding
  BY DEF Filing, Holding
<1>2. CASE ShellResponse(c) \/ Wiped(c) \/ WipeFails(c)
  BY <1>1, <1>2, FinishStage DEF ShellResponse, Wiped, WipeFails
<1>3. CASE Wipe(c)
  BY <1>3 DEF Wipe, Filing
<1>4. CASE Proceed(c)
  <2>1. CASE \/ Freeze(c) \/ Create(c) \/ EnsureBase(c) \/ EnsureEnv(c) \/ EnsureStarted(c)
             \/ Mkdir(c) \/ Clone(c) \/ Copy(c) \/ CopyFails(c) \/ Clean(c) \/ WriteRecord(c)
             \/ WriteFails(c)
    BY <1>1, <2>1, MakingSteps
  <2>2. CASE Start(c) \/ WriteBack(c) \/ Unmount(c)
    <3>1. \/ Finish(c) \/ Goto(c, "target")
          \/ \E env : Update(c, [at |-> "back", copy |-> env])
          \/ \E e : Begin(c, [at |-> "wipe", env |-> e])
      BY <2>2 DEF Start, WriteBack, Unmount, BeginWipe
    <3>2. ASSUME NEW env, Update(c, [at |-> "back", copy |-> env]) PROVE req'[c].at = "back"
      BY <3>2, NextField
    <3>3. ASSUME NEW e, Begin(c, [at |-> "wipe", env |-> e]) PROVE req'[c].at = "wipe"
      BY <3>3, NextField
    <3>4. \/ req'[c].at \notin Holding \/ req'[c].at \in {"target", "back", "wipe"}
      BY <3>1, <3>2, <3>3, FinishStage, Went
    <3> QED BY <1>1, <3>4 DEF Filing
  <2> QED BY <1>4, <2>1, <2>2 DEF Proceed
<1>5. CASE Request(c)
  <2>1. \E e, b, s, k, op, env :
          \/ Begin(c, [at |-> "create", env |-> e, base |-> b])
          \/ Begin(c, [at |-> "started", op |-> "new", env |-> e, base |-> b])
          \/ Begin(c, [at |-> "ensureBase", op |-> "new", env |-> e, base |-> b, source |-> s, backend |-> k])
          \/ Begin(c, [at |-> "freeze", op |-> op, env |-> e, base |-> b, source |-> s, backend |-> k])
          \/ Begin(c, [at |-> "unmount", env |-> e])
          \/ Begin(c, [at |-> "wipe", env |-> e])
          \/ Begin(c, [at |-> "back", env |-> e, copy |-> env])
    BY <1>5 DEF Request, StateRequest, New, FreezeRequest, CreateRequest, Destroy, DirectRemove,
                BeginWipe
  <2>2. ASSUME NEW e, NEW b, NEW s, NEW k, NEW op, NEW env, NEW fields,
               fields \in {[at |-> "create", env |-> e, base |-> b],
                           [at |-> "started", op |-> "new", env |-> e, base |-> b],
                           [at |-> "ensureBase", op |-> "new", env |-> e, base |-> b, source |-> s,
                            backend |-> k],
                           [at |-> "freeze", op |-> op, env |-> e, base |-> b, source |-> s,
                            backend |-> k],
                           [at |-> "unmount", env |-> e],
                           [at |-> "wipe", env |-> e],
                           [at |-> "back", env |-> e, copy |-> env]},
               Begin(c, fields)
        PROVE  req'[c].at \notin Filing
    <3>1. "at" \in DOMAIN fields /\ fields.at \notin Filing
      BY <2>2 DEF Filing
    <3> QED BY <2>2, <3>1, NextField
  <2> QED BY <2>1, <2>2
<1> QED BY <1>2, <1>3, <1>4, <1>5

LEMMA RequestTracked ==
  ASSUME OneClient, DesktopInv, SessionOK, TrackInv, NEW c \in Clients, SessionRequest(c)
  PROVE  TrackInv' /\ NoneLost
<1>1. PICK e \in Envs :
        \/ Exec(c, e) \/ Touch(c, e) \/ Shell(c, e) \/ SessionList(c, e)
        \/ \E s \in Sessions : SessionCreate(c, e, s) \/ SessionDetach(c, e, s) \/ SessionKill(c, e, s)
  BY DEF SessionRequest
<1>2. NoneLost
  <2>1. UNCHANGED pidFile
    BY <1>1 DEF Exec, Touch, Shell, SessionList, SessionCreate, SessionDetach, SessionKill, Files,
                sessionVars
  <2> QED BY <2>1, SamePidFile
<1>3. CASE Exec(c, e) \/ Touch(c, e) \/ SessionList(c, e)
  <2>1. \E env : \/ Begin(c, [at |-> "running", env |-> e, copy |-> env])
                 \/ Begin(c, [at |-> "back", env |-> e, copy |-> env])
                 \/ Begin(c, [at |-> "sync", env |-> e, copy |-> env])
    BY <1>3 DEF Exec, Touch, BeginBack, SessionList
  <2>2. req'[c].at \in {"running", "back", "sync"}
    BY <2>1, WithCopy
  <2> QED BY <1>2, <2>2, Untracked DEF Filing
<1>4. CASE Shell(c, e)
  BY <1>2, <1>4, Untracked DEF Shell, Filing
<1>5. ASSUME NEW s \in Sessions, SessionDetach(c, e, s) PROVE TrackInv'
  <2>1. CASE UNCHANGED req
    BY <1>5, <2>1, Untracked DEF SessionDetach, Filing
  <2>2. CASE BeginBack(c, e, rec[e])
    <3>1. req'[c].at = "back"
      BY <2>2, WithCopy DEF BeginBack
    <3> QED BY <3>1, Untracked DEF Filing
  <2> QED BY <1>5, <2>1, <2>2 DEF SessionDetach
<1>6. ASSUME NEW s \in Sessions, SessionCreate(c, e, s) PROVE TrackInv'
  <2>1. req'[c].at = "spawn" /\ req'[c].env = e
    BY <1>6, WithCopy DEF SessionCreate
  <2>2. arg'[c].sid = s
    BY <1>6, ArgIs DEF SessionCreate, NoArg
  <2>3. s \in Known(e)' => \A p \in Pids : ~Names(e, s, p)'
    BY <1>6 DEF SessionCreate, Known, ProcessRunning, Names, Alive, Files
  <2>4. Tracks(req[c], arg[c])'
    BY <2>1, <2>2, <2>3 DEF Tracks, Filing
  <2> QED BY <2>4 DEF OneClient, TrackInv
<1>7. ASSUME NEW s \in Sessions, SessionKill(c, e, s) PROVE TrackInv'
  <2>1. req'[c].at = "signal" /\ req'[c].env = e
    BY <1>7, WithCopy DEF SessionKill
  <2>2. arg'[c].sid = s /\ arg'[c].pid = pidFile'[e][s]
    BY <1>7, ArgIs DEF SessionKill, NoArg, Changed, Files
  <2>3. Tracks(req[c], arg[c])'
    BY <2>1, <2>2 DEF Tracks, Filing
  <2> QED BY <2>3 DEF OneClient, TrackInv
<1> QED BY <1>1, <1>2, <1>3, <1>4, <1>5, <1>6, <1>7

-----------------------------------------------------------------------------
LEMMA SpawnTracked ==
  ASSUME OneClient, DesktopInv, SessionOK, TrackInv, NEW c \in Clients,
         SessionSpawn(c) \/ SessionSpawned(c)
  PROVE  TrackInv' /\ NoneLost
<1>1. UNCHANGED <<files, pidFile>>
  BY DEF SessionSpawn, SessionSpawned, Files, sessionVars
<1>2. NoneLost
  BY <1>1, SamePidFile
<1>3. CASE SessionSpawned(c)
  <2>1. req[c].at = "spawn" /\ Goto(c, "named") /\ UNCHANGED sessionVars
    BY <1>3 DEF SessionSpawned
  <2>2. req'[c].at = "named" /\ req'[c].env = req[c].env
    BY <2>1, Went
  <2>3. Ages /\ arg' = arg
    BY <2>1, SameProcs DEF sessionVars
  <2> QED BY <1>1, <1>2, <2>1, <2>2, <2>3, Carried
<1>4. CASE SessionSpawn(c)
  <2>1. CASE Finish(c)
    <3>1. req'[c].at \notin Filing
      BY <2>1, FinishStage DEF Filing, Holding
    <3> QED BY <1>2, <3>1, Untracked
  <2>2. ASSUME NEW p \in Free, Spawn(p, "session", Env(c), arg[c].sid),
               SetArg(c, [arg[c] EXCEPT !.pid = p]), UNCHANGED req
        PROVE  TrackInv'
    <3>1. PICK e \in Envs : e = req[c].env
      BY <1>4 DEF SessionSpawn, DesktopInv, Fits
    <3>2. Tracks(req[c], arg[c]) /\ req[c].at = "spawn" /\ arg[c].pid = None
      BY <1>4 DEF TrackInv, SessionSpawn
    <3>3. p \in Pids /\ \A q \in Pids \ {p} : procs'[q] = procs[q]
      BY <2>2 DEF Free, Spawn, SessionOK
    <3>4. arg'[c].sid = arg[c].sid /\ arg'[c].pid = p
      BY <2>2, ArgIs DEF SessionOK, Args
    <3>5. arg[c].sid \in Known(e)' => \A q \in Pids : Names(e, arg[c].sid, q)' => q = p
      <4> SUFFICES ASSUME arg[c].sid \in Known(e)', NEW q \in Pids, Names(e, arg[c].sid, q)', q # p
                   PROVE  FALSE
        OBVIOUS
      <4>1. arg[c].sid \in Known(e) /\ Names(e, arg[c].sid, q)
        BY <1>1, <3>3, <3>4 DEF Known, Names, Alive
      <4>2. q = None
        BY <3>1, <3>2, <4>1 DEF Tracks
      <4> QED BY <4>2, ProcAssumption
    <3>6. Tracks(req[c], arg[c])'
      BY <2>2, <3>1, <3>2, <3>4, <3>5 DEF Tracks, Filing
    <3> QED BY <3>6 DEF OneClient, TrackInv
  <2> QED BY <1>2, <1>4, <2>1, <2>2 DEF SessionSpawn
<1> QED BY <1>3, <1>4

LEMMA WritePidFileTracked ==
  ASSUME OneClient, DesktopInv, SessionOK, TrackInv, NEW c \in Clients, WritePidFile(c)
  PROVE  TrackInv' /\ NoneLost
<1>1. PICK e \in Envs : e = req[c].env
  BY DEF WritePidFile, DesktopInv, Fits
<1>2. Tracks(req[c], arg[c]) /\ req[c].at = "named" /\ arg[c].sid \in Sessions
  BY DEF TrackInv, WritePidFile, Tracks, Filing
<1>3. pidFile' = [pidFile EXCEPT ![e][arg[c].sid] = arg[c].pid]
  BY <1>1 DEF WritePidFile, Env
<1>4. NoneLost
  <2> SUFFICES ASSUME NEW x \in Envs, NEW s \in Sessions, s \in Known(x), NEW p \in Pids,
                      Names(x, s, p)
               PROVE  pidFile'[x][s] = p
    BY DEF NoneLost, LosesNone
  <2>1. CASE x = e /\ s = arg[c].sid
    <3>1. p = arg[c].pid
      BY <1>1, <1>2, <2>1 DEF Tracks
    <3> QED BY <1>1, <1>2, <1>3, <2>1, <3>1 DEF SessionOK
  <2>2. CASE ~(x = e /\ s = arg[c].sid)
    <3>1. pidFile'[x][s] = pidFile[x][s]
      BY <1>3, <2>2 DEF SessionOK
    <3> QED BY <3>1 DEF Names
  <2> QED BY <2>1, <2>2
<1>5. TrackInv'
  <2>1. req'[c].at = "logged" /\ arg' = arg
    BY Went DEF WritePidFile
  <2>2. Tracks(req[c], arg[c])'
    BY <1>2, <2>1 DEF Tracks, Filing
  <2> QED BY <2>2 DEF OneClient, TrackInv
<1> QED BY <1>4, <1>5

LEMMA RemovePidFileTracked ==
  ASSUME OneClient, DesktopInv, SessionOK, TrackInv, NEW c \in Clients, RemovePidFile(c)
  PROVE  TrackInv' /\ NoneLost
<1>1. PICK e \in Envs : e = req[c].env
  BY DEF RemovePidFile, DesktopInv, Fits
<1>2. Tracks(req[c], arg[c]) /\ req[c].at = "unname" /\ arg[c].sid \in Sessions
  BY DEF TrackInv, RemovePidFile, Tracks, Filing
<1>3. pidFile' = [pidFile EXCEPT ![e][arg[c].sid] = None]
  BY <1>1 DEF RemovePidFile, Env
<1>4. NoneLost
  <2> SUFFICES ASSUME NEW x \in Envs, NEW s \in Sessions, NEW p \in Pids, Names(x, s, p)
               PROVE  pidFile'[x][s] = p
    BY DEF NoneLost, LosesNone
  <2>1. ~(x = e /\ s = arg[c].sid)
    BY <1>1, <1>2 DEF Tracks
  <2>2. pidFile'[x][s] = pidFile[x][s]
    BY <1>3, <2>1 DEF SessionOK
  <2> QED BY <2>2 DEF Names
<1>5. TrackInv'
  <2>1. req'[c].at = "filed" /\ arg' = arg
    BY Went DEF RemovePidFile
  <2>2. Tracks(req[c], arg[c])'
    BY <1>2, <2>1 DEF Tracks, Filing
  <2> QED BY <2>2 DEF OneClient, TrackInv
<1> QED BY <1>4, <1>5

LEMMA SignalTracked ==
  ASSUME OneClient, DesktopInv, SessionOK, TrackInv, NEW c \in Clients, Signal(c)
  PROVE  TrackInv' /\ NoneLost
<1>1. PICK e \in Envs : e = req[c].env
  BY DEF Signal, DesktopInv, Fits
<1>2. UNCHANGED pidFile /\ NoneLost
  BY SamePidFile DEF Signal, Files
<1>3. CASE Finish(c)
  <2>1. req'[c].at \notin Filing
    BY <1>3, FinishStage DEF Filing, Holding
  <2> QED BY <1>2, <2>1, Untracked
<1>4. CASE Goto(c, "unname") /\ UNCHANGED arg
  <2>1. req'[c].at = "unname" /\ req'[c].env = e /\ arg' = arg
    BY <1>1, <1>4, Went
  <2>2. arg[c].sid \in Sessions /\ arg[c].pid = pidFile[e][arg[c].sid]
    BY <1>1 DEF Signal, TrackInv, Tracks, Filing
  <2>3. ASSUME NEW p \in Pids, Names(e, arg[c].sid, p)' PROVE FALSE
    <3>1. p = arg[c].pid /\ procs'[p] # None /\ procs'[p].kind = "session" /\ ~procs'[p].killed
      BY <1>2, <2>1, <2>2, <2>3 DEF Names, Alive
    <3>2. CASE procs[p] = None
      BY <1>4, <2>3, <3>1, <3>2 DEF Signal, Alive
    <3>3. CASE procs[p] # None
      <4>1. procs[p] \in Proc
        BY <2>3, <3>3 DEF SessionOK
      <4>2. procs' = [procs EXCEPT ![p].killed = procs[p].kind = "session"]
        <5>1. Alive(p) /\ req'[c] # Idle
          BY <2>1, <2>3, <3>3 DEF Alive, Idle
        <5>2. ~Finish(c)
          BY <5>1 DEF Finish, DesktopInv
        <5> QED BY <3>1, <5>1, <5>2 DEF Signal
      <4>3. procs'[p] = [procs[p] EXCEPT !.killed = procs[p].kind = "session"]
        BY <2>3, <4>2 DEF SessionOK
      <4>4. procs'[p].kind = procs[p].kind /\ (procs[p].kind = "session" => procs'[p].killed)
        BY <4>1, <4>3 DEF Proc
      <4> QED BY <3>1, <4>4
    <3> QED BY <3>2, <3>3
  <2>4. Tracks(req[c], arg[c])'
    BY <2>1, <2>2, <2>3 DEF Tracks, Filing
  <2> QED BY <1>2, <2>4 DEF OneClient, TrackInv
<1> QED BY <1>3, <1>4 DEF Signal

LEMMA WorkTracked ==
  ASSUME OneClient, DesktopInv, SessionOK, TrackInv, NEW c \in Clients, SessionStep(c)
  PROVE  TrackInv' /\ NoneLost
<1>1. CASE SessionSpawn(c) \/ SessionSpawned(c) \/ WritePidFile(c) \/ RemovePidFile(c) \/ Signal(c)
  BY <1>1, SpawnTracked, WritePidFileTracked, RemovePidFileTracked, SignalTracked
<1>2. CASE AllWiped(c) \/ StartShell(c)
  <2>1. UNCHANGED pidFile
    BY <1>2 DEF AllWiped, StartShell, sessionVars
  <2>2. req'[c].at \notin Filing
    BY <1>2, ControlUntracked DEF AllWiped, StartShell
  <2> QED BY <2>1, <2>2, SamePidFile, Untracked
<1>3. CASE ExecEnds(c) \/ WriteSession(c) \/ GiveUp(c) \/ ListSync(c)
  <2>1. UNCHANGED pidFile
    BY <1>3 DEF ExecEnds, WriteSession, GiveUp, ListSync, Files
  <2>2. \/ Finish(c) \/ Goto(c, "back")
        \/ \E e, env : Begin(c, [at |-> "back", env |-> e, copy |-> env])
    BY <1>3 DEF ExecEnds, WriteSession, GiveUp, ListSync, BeginBack
  <2>3. req'[c].at \notin Holding \/ req'[c].at = "back"
    BY <2>2, FinishStage, Went, WithCopy
  <2>4. req'[c].at \notin Filing
    BY <2>3 DEF Filing, Holding
  <2> QED BY <2>1, <2>4, SamePidFile, Untracked
<1>4. CASE AppendLog(c)
  <2>1. req'[c].at = "filed" /\ UNCHANGED <<pidFile, arg>>
    BY <1>4, Went DEF AppendLog, sessionVars
  <2>2. arg[c].sid \in Sessions
    BY <1>4 DEF AppendLog, TrackInv, Tracks, Filing
  <2>3. Tracks(req[c], arg[c])'
    BY <2>1, <2>2 DEF Tracks, Filing
  <2> QED BY <2>1, <2>3, SamePidFile DEF OneClient, TrackInv
<1>5. CASE ListMark(c)
  <2>1. UNCHANGED pidFile /\ req'[c].at = "sync"
    BY <1>5 DEF ListMark
  <2> QED BY <2>1, SamePidFile, Untracked DEF Filing
<1>6. CASE WipeSessions(c)
  <2>1. PICK e \in Envs : e = req[c].env
    BY <1>6 DEF WipeSessions, DesktopInv, Fits
  <2>2. e \in wiping /\ req'[c].at = "wipe"
    BY <1>6, <2>1 DEF WipeSessions, controlVars, DesktopInv, Fits
  <2>3. \A x \in Envs \ {e} : pidFile'[x] = pidFile[x]
    BY <1>6, <2>1 DEF WipeSessions, Env, SessionOK
  <2>4. NoneLost
    BY <2>2, <2>3 DEF NoneLost, LosesNone, Names
  <2> QED BY <2>2, <2>4, Untracked DEF Filing
<1> QED BY <1>1, <1>2, <1>3, <1>4, <1>5, <1>6 DEF SessionStep

-----------------------------------------------------------------------------
LEMMA HostAges ==
  ASSUME SessionOK, HostStep PROVE Ages
<1>1. CASE Reboot
  BY <1>1 DEF Reboot, Ages
<1>2. CASE Crash /\ arg' = [c \in Clients |-> NoArg] /\ UNCHANGED <<procs, Files>>
  BY <1>2, SameProcs
<1>3. ASSUME NEW p \in Pids,
             ViewdEnters(p) \/ ViewdMounts(p) \/ ViewdFails(p) \/ Exit(p) \/ PidReused(p)
      PROVE  Ages
  <2>1. \A q \in Pids \ {p} : procs'[q] = procs[q]
    BY <1>3 DEF ViewdEnters, ViewdMounts, ViewdFails, Exit, PidReused, SessionOK
  <2>2. CASE ViewdFails(p) \/ Exit(p)
    <3>1. procs'[p] = None
      BY <2>2 DEF ViewdFails, Exit, SessionOK
    <3> QED BY <2>1, <3>1 DEF Ages
  <2>3. CASE PidReused(p)
    <3>1. procs'[p].kind = "other"
      BY <2>3 DEF PidReused, SessionOK
    <3> QED BY <2>1, <3>1 DEF Ages
  <2>4. CASE ViewdEnters(p) \/ ViewdMounts(p)
    <3>1. procs[p] # None /\ procs[p] \in Proc
      BY <2>4 DEF ViewdEnters, ViewdMounts, Alive, SessionOK
    <3>2. \/ \E stage : procs'[p] = [procs[p] EXCEPT !.stage = stage]
          \/ \E owner : procs'[p] = Changed(procs[p], [stage |-> "up", owner |-> owner])
      BY <2>4 DEF ViewdEnters, ViewdMounts, SessionOK
    <3>3. procs'[p].kind = procs[p].kind /\ procs'[p].env = procs[p].env
          /\ procs'[p].sid = procs[p].sid /\ procs'[p].killed = procs[p].killed
      BY <3>1, <3>2 DEF Changed, Proc
    <3> QED BY <2>1, <3>1, <3>3 DEF Ages
  <2> QED BY <1>3, <2>2, <2>3, <2>4
<1> QED BY <1>1, <1>2, <1>3 DEF HostStep

LEMMA HostTracked ==
  ASSUME OneClient, SessionOK, TrackInv, HostStep PROVE TrackInv' /\ NoneLost
<1>1. UNCHANGED <<pidFile, files>>
  BY DEF HostStep, Reboot, Crash, Files, ViewdEnters, ViewdMounts, ViewdFails, Exit, PidReused
<1>2. ASSUME NEW c \in Clients PROVE TrackInv'
  <2>1. CASE req'[c] = req[c] /\ arg'[c] = arg[c]
    BY <1>1, <2>1, HostAges, Carried
  <2>2. CASE req'[c] = Idle
    BY <2>2, Untracked DEF Idle, Filing
  <2>3. (req'[c] = req[c] /\ arg'[c] = arg[c]) \/ req'[c] = Idle
    BY <1>2 DEF HostStep, Reboot, Crash, ViewdEnters, ViewdMounts, ViewdFails, Exit, PidReused,
                controlVars
  <2> QED BY <2>1, <2>2, <2>3
<1> QED BY <1>1, <1>2, SamePidFile DEF TrackInv

LEMMA TrackInit == Init => TrackInv
BY DEF Init, ControlInit, Idle, TrackInv, Tracks, Filing

LEMMA TrackStep ==
  ASSUME OneClient, DesktopInv, SessionOK, TrackInv, [Next]_vars PROVE TrackInv' /\ NoneLost
<1>1. CASE HostStep
  BY <1>1, HostTracked
<1>2. ASSUME NEW c \in Clients, SessionStep(c) \/ SessionRequest(c) PROVE TrackInv' /\ NoneLost
  BY <1>2, WorkTracked, RequestTracked
<1>3. ASSUME NEW c \in Clients,
             (Proceed(c) \/ Request(c) \/ Wipe(c) \/ WipeFails(c)) /\ UNCHANGED sessionVars
      PROVE  TrackInv' /\ NoneLost
  <2>1. req'[c].at \notin Filing
    BY <1>3, ControlUntracked
  <2> QED BY <1>3, <2>1, Untracked, SamePidFile DEF sessionVars
<1>4. CASE UNCHANGED vars
  <2>1. Ages /\ UNCHANGED <<files, pidFile, req, arg>>
    BY <1>4, SameProcs DEF vars, controlVars, sessionVars
  <2>2. ASSUME NEW c \in Clients PROVE TrackInv'
    BY <2>1, <2>2, Carried
  <2> QED BY <2>1, <2>2, SamePidFile DEF TrackInv
<1> QED BY <1>1, <1>2, <1>3, <1>4 DEF Next

\* With one client at a time: the pid file of a session that has a session
\* file names its live process until that was told to end or its env is being
\* removed, whatever is created, killed, listed or cut off meanwhile, and
\* whoever gets a number that has become free.
THEOREM SerialKnownSessionsStayTracked == ASSUME OneClient PROVE Spec => KnownSessionsStayTracked
<1>1. TrackInv /\ (DesktopInv /\ SessionOK) /\ [Next]_vars
        => TrackInv' /\ [\A e \in Envs, s \in Sessions : s \in Known(e) => LosesNone(e, s)]_vars
  BY TrackStep DEF NoneLost
<1> QED BY TrackInit, <1>1, DesktopInvariance, PTL DEF Spec, KnownSessionsStayTracked

-----------------------------------------------------------------------------
(* Induction over the numbers, for a set.                                  *)

Less == {ss \in Nat \X Nat : ss[1] < ss[2]}
LEMMA LessIsWellFounded == IsWellFoundedOn(Less, Nat)
<1>1. OpToRel(<, Nat) = Less
  BY DEF OpToRel, Less
<1> QED BY <1>1, NatLessThanWellFounded

LEMMA SetInduction ==
  ASSUME NEW S, 0 \in S, \A n \in Nat : n \in S => n + 1 \in S
  PROVE  \A n \in Nat : n \in S
<1> DEFINE T == Nat \ S
<1>1. SUFFICES ASSUME T # {} PROVE FALSE
  OBVIOUS
<1>2. PICK x \in T : \A y \in T : <<y, x>> \notin Less
  BY <1>1, LessIsWellFounded, WFMin
<1>3. x \in Nat /\ x # 0 /\ x - 1 \in Nat
  OBVIOUS
<1>4. <<x - 1, x>> \in Less
  BY <1>3 DEF Less
<1>5. x - 1 \in S
  BY <1>2, <1>3, <1>4
<1> QED BY <1>3, <1>5

-----------------------------------------------------------------------------
(* std::fs::canonicalize leaves a plain path as it is.                     *)

Entered(real, name) ==
  IF name # ".." THEN Followed(Append(real, name))
  ELSE IF real = <<>> THEN real ELSE Front(real)

\* The paths entered by the names of p at the positions in s.
Walks(p, positions, g) ==
  g = [s \in SUBSET positions |->
         IF s = {} THEN <<>> ELSE Entered(g[s \ {Max(s)}], p[Max(s)])]

LEMMA CanonicalIsWalk ==
  ASSUME NEW p
  PROVE  Canonical(p) = (CHOOSE g : Walks(p, DOMAIN p, g))[DOMAIN p]
BY DEF Canonical, FoldLeft, MapThenFoldSet, Entered, Walks

LEMMA MaxOfInterval ==
  ASSUME NEW n \in Nat, NEW s \in SUBSET (1..n + 1), n + 1 \in s
  PROVE  Max(s) = n + 1
<1>1. \A y \in s : n + 1 >= y
  OBVIOUS
<1>2. \A x \in s : (\A y \in s : x >= y) => x = n + 1
  OBVIOUS
<1> QED BY <1>1, <1>2 DEF Max

LEMMA WalkGoesOn ==
  ASSUME NEW p, NEW n \in Nat, NEW g, Walks(p, 1..n, g)
  PROVE  \E h : Walks(p, 1..n + 1, h)
<1> DEFINE h == [s \in SUBSET (1..n + 1) |->
                   IF n + 1 \in s THEN Entered(g[s \ {n + 1}], p[n + 1]) ELSE g[s]]
<1>1. ASSUME NEW s \in SUBSET (1..n + 1)
      PROVE  h[s] = IF s = {} THEN <<>> ELSE Entered(h[s \ {Max(s)}], p[Max(s)])
  <2>1. CASE n + 1 \in s
    <3>1. Max(s) = n + 1 /\ s # {} /\ s \ {n + 1} \in SUBSET (1..n + 1)
      BY <2>1, MaxOfInterval
    <3>2. h[s \ {n + 1}] = g[s \ {n + 1}]
      BY <3>1
    <3> QED BY <2>1, <3>1, <3>2
  <2>2. CASE n + 1 \notin s
    <3>1. s \in SUBSET (1..n)
      BY <2>2
    <3>2. g[s] = IF s = {} THEN <<>> ELSE Entered(g[s \ {Max(s)}], p[Max(s)])
      BY <3>1 DEF Walks
    <3>3. h[s \ {Max(s)}] = g[s \ {Max(s)}]
      BY <2>2
    <3> QED BY <2>2, <3>2, <3>3
  <2> QED BY <2>1, <2>2
<1> HIDE DEF h
<1>2. h = [s \in SUBSET (1..n + 1) |-> h[s]]
  BY DEF h
<1>3. Walks(p, 1..n + 1, h)
  BY <1>1, <1>2 DEF Walks
<1> QED BY <1>3

LEMMA WalksExist ==
  ASSUME NEW p PROVE \A n \in Nat : \E g : Walks(p, 1..n, g)
<1> DEFINE S == {n \in Nat : \E g : Walks(p, 1..n, g)}
<1>1. 0 \in S
  <2>1. 1..0 = {}
    OBVIOUS
  <2>2. Walks(p, {}, [s \in SUBSET {} |-> <<>>])
    BY DEF Walks
  <2> QED BY <2>1, <2>2
<1>2. \A n \in Nat : n \in S => n + 1 \in S
  BY WalkGoesOn
<1> HIDE DEF S
<1>3. \A n \in Nat : n \in S
  BY <1>1, <1>2, SetInduction
<1> QED BY <1>3 DEF S

LEMMA CanonicalOfPlain ==
  ASSUME NEW S, NEW p \in Seq(S), Plain(p) PROVE Canonical(p) = p
<1> DEFINE f == CHOOSE g : Walks(p, 1..Len(p), g)
<1>1. Canonical(p) = f[1..Len(p)]
  BY CanonicalIsWalk
<1>2. Walks(p, 1..Len(p), f)
  BY WalksExist
<1> HIDE DEF f
<1> DEFINE Good == {n \in Nat : n <= Len(p) => f[1..n] = SubSeq(p, 1, n)}
<1>3. 0 \in Good
  <2>1. 1..0 = {} /\ SubSeq(p, 1, 0) = <<>>
    OBVIOUS
  <2>2. f[{}] = <<>>
    BY <1>2 DEF Walks
  <2> QED BY <2>1, <2>2
<1>4. ASSUME NEW n \in Nat, n \in Good PROVE n + 1 \in Good
  <2> SUFFICES ASSUME n + 1 <= Len(p) PROVE f[1..n + 1] = SubSeq(p, 1, n + 1)
    OBVIOUS
  <2>1. /\ Max(1..n + 1) = n + 1 /\ 1..n + 1 # {} /\ 1..n + 1 \in SUBSET (1..Len(p))
        /\ (1..n + 1) \ {n + 1} = 1..n
    <3>1. 1..n + 1 \in SUBSET (1..n + 1) /\ n + 1 \in 1..n + 1
      OBVIOUS
    <3>2. Max(1..n + 1) = n + 1
      BY <3>1, MaxOfInterval
    <3>3. (1..n + 1) \ {n + 1} = 1..n
      OBVIOUS
    <3>4. Len(p) \in Nat
      OBVIOUS
    <3>5. 1..n + 1 \in SUBSET (1..Len(p))
      BY <3>4
    <3> QED BY <3>1, <3>2, <3>3, <3>5
  <2>2. f[1..n + 1] = Entered(f[1..n], p[n + 1])
    BY <1>2, <2>1 DEF Walks
  <2>3. f[1..n] = SubSeq(p, 1, n)
    BY <1>4
  <2>4. Append(SubSeq(p, 1, n), p[n + 1]) = SubSeq(p, 1, n + 1)
    OBVIOUS
  <2>5. p[n + 1] # ".." /\ SubSeq(p, 1, n + 1) \notin DOMAIN Links
    BY DEF Plain, NoDots, NoLinks, Range
  <2> QED BY <2>2, <2>3, <2>4, <2>5 DEF Entered, Followed
<1> HIDE DEF Good
<1>5. Len(p) \in Good
  BY <1>3, <1>4, SetInduction
<1> QED BY <1>1, <1>5 DEF Good

-----------------------------------------------------------------------------
(* The paths of an env.                                                    *)

\* The path of the store is written without "..", and what agent-forkd makes
\* in the store for an env are directories and files, no links.
StoreAsMade ==
  /\ NoDots(Store)
  /\ NoLinks(Store) =>
       \A e \in Envs : /\ \A t \in Trees : NoLinks(Append(EnvDir(e), t))
                      /\ \A s \in Sessions : NoLinks(SessionLog(e, s))

LEMMA SameSequence ==
  ASSUME NEW S, NEW p \in Seq(S), NEW w \in Seq(S), Len(w) = Len(p),
         \A i \in 1..Len(p) : w[i] = p[i]
  PROVE  w = p
OBVIOUS

LEMMA LongerThanEmpty == ASSUME NEW p, NEW n \in Nat, Len(p) = n + 1 PROVE p # <<>>
<1>1. Len(<<>>) = 0
  OBVIOUS
<1> QED BY <1>1

LEMMA JoinedDots ==
  ASSUME NEW S, NEW p \in Seq(S), NEW q \in Seq(S), NoDots(p), NoDots(q)
  PROVE  p \o q \in Seq(S) /\ NoDots(p \o q)
<1>1. p \o q \in Seq(S)
  OBVIOUS
<1>2. ASSUME NEW i \in DOMAIN (p \o q) PROVE (p \o q)[i] # ".."
  <2>1. CASE i <= Len(p)
    BY <2>1 DEF NoDots, Range
  <2>2. CASE i > Len(p)
    <3>1. (p \o q)[i] = q[i - Len(p)] /\ i - Len(p) \in DOMAIN q
      BY <2>2
    <3> QED BY <3>1 DEF NoDots, Range
  <2> QED BY <2>1, <2>2
<1> QED BY <1>1, <1>2 DEF NoDots, Range

LEMMA FrontOfAppend ==
  ASSUME NEW S, NEW p \in Seq(S), NEW x \in S
  PROVE  /\ Append(p, x) \in Seq(S) /\ Append(p, x) = p \o <<x>>
         /\ Front(Append(p, x)) = p /\ Last(Append(p, x)) = x
<1>1. Append(p, x) \in Seq(S) /\ Len(Append(p, x)) = Len(p) + 1
  OBVIOUS
<1>2. Append(p, x) = p \o <<x>>
  OBVIOUS
<1>3. SubSeq(Append(p, x), 1, Len(p)) = p
  OBVIOUS
<1>4. Append(p, x)[Len(p) + 1] = x
  OBVIOUS
<1> QED BY <1>1, <1>2, <1>3, <1>4 DEF Front, Last

\* The components of the paths below the store.
Components == Range(Store) \cup Ids \cup Sessions \cup Trees \cup {"envs", "logs", "sessions"}

LEMMA OwnDirs ==
  ASSUME NEW e \in Envs, NoDots(Store)
  PROVE  /\ EnvDir(e) \in Seq(Components) /\ NoDots(EnvDir(e))
         /\ EnvDir(e) # <<>> /\ Front(EnvDir(e)) # <<>> /\ Last(Front(EnvDir(e))) = "envs"
<1>1. Store \in Seq(Range(Store)) /\ "envs" \in Components /\ e \in Components /\ e # ".."
  BY HostAssumption, DesktopAssumption DEF Components, Ids
<1>2. Store \in Seq(Components)
  BY <1>1 DEF Components
<1>3. <<"envs", e>> \in Seq(Components) /\ NoDots(<<"envs", e>>)
  BY <1>1 DEF NoDots, Range
<1>4. EnvDir(e) \in Seq(Components) /\ NoDots(EnvDir(e))
  BY <1>2, <1>3, JoinedDots DEF EnvDir
<1>5. EnvDir(e) = Append(Append(Store, "envs"), e)
  BY <1>1, <1>2 DEF EnvDir
<1> DEFINE dir == Append(Store, "envs")
<1>6. dir \in Seq(Components) /\ Last(dir) = "envs" /\ Len(dir) = Len(Store) + 1
  <2>1. dir \in Seq(Components) /\ Last(dir) = "envs"
    BY <1>1, <1>2, FrontOfAppend
  <2>2. Len(dir) = Len(Store) + 1
    BY <1>1, <1>2
  <2> QED BY <2>1, <2>2
<1>7. Len(Store) \in Nat
  BY <1>2
<1> HIDE DEF dir
<1>8. EnvDir(e) = Append(dir, e)
  BY <1>5 DEF dir
<1>9. Front(EnvDir(e)) = dir /\ Len(EnvDir(e)) = Len(dir) + 1
  <2>1. Front(Append(dir, e)) = dir
    BY <1>1, <1>6, FrontOfAppend
  <2>2. Len(Append(dir, e)) = Len(dir) + 1
    BY <1>1, <1>6
  <2> QED BY <1>8, <2>1, <2>2
<1>10. dir # <<>> /\ EnvDir(e) # <<>>
  <2>1. Len(dir) \in Nat
    BY <1>6, <1>7
  <2>2. dir # <<>>
    BY <1>6, <1>7, LongerThanEmpty
  <2>3. EnvDir(e) # <<>>
    BY <1>9, <2>1, LongerThanEmpty
  <2> QED BY <2>2, <2>3
<1> QED BY <1>4, <1>6, <1>9, <1>10

LEMMA TreePaths ==
  ASSUME NEW e \in Envs, NEW t \in Trees, StoreAsMade, NoLinks(Store)
  PROVE  /\ Plain(Append(EnvDir(e), t)) /\ Front(Append(EnvDir(e), t)) = EnvDir(e)
         /\ Append(EnvDir(e), t) = EnvDir(e) \o <<t>> /\ Append(EnvDir(e), t) \in Seq(Components)
<1>1. NoLinks(Append(EnvDir(e), t))
  BY DEF StoreAsMade
<1>2. t \in Components /\ t # ".."
  BY DEF Components, Trees
<1>3. <<t>> \in Seq(Components) /\ NoDots(<<t>>)
  BY <1>2 DEF NoDots, Range
<1>4. EnvDir(e) \in Seq(Components) /\ NoDots(EnvDir(e))
  BY OwnDirs DEF StoreAsMade
<1>5. /\ Append(EnvDir(e), t) = EnvDir(e) \o <<t>> /\ Front(Append(EnvDir(e), t)) = EnvDir(e)
      /\ Append(EnvDir(e), t) \in Seq(Components)
  BY <1>2, <1>4, FrontOfAppend
<1>6. NoDots(EnvDir(e) \o <<t>>)
  BY <1>3, <1>4, JoinedDots
<1> QED BY <1>1, <1>5, <1>6 DEF Plain

LEMMA LogPath ==
  ASSUME NEW e \in Envs, NEW s \in Sessions, StoreAsMade, NoLinks(Store)
  PROVE  /\ Plain(SessionLog(e, s))
         /\ Front(SessionLog(e, s)) = EnvDir(e) \o <<"logs", "sessions">>
<1>1. NoLinks(SessionLog(e, s))
  BY DEF StoreAsMade
<1>2. s \in Components /\ s # ".." /\ "logs" \in Components /\ "sessions" \in Components
  BY DesktopAssumption DEF Components
<1>3. EnvDir(e) \in Seq(Components) /\ NoDots(EnvDir(e))
  BY OwnDirs DEF StoreAsMade
<1>4. <<"logs", "sessions", s>> \in Seq(Components) /\ NoDots(<<"logs", "sessions", s>>)
  BY <1>2 DEF NoDots, Range
<1>5. NoDots(SessionLog(e, s))
  BY <1>3, <1>4, JoinedDots DEF SessionLog
<1>6. EnvDir(e) \o <<"logs", "sessions">> \in Seq(Components)
  BY <1>2, <1>3
<1>7. SessionLog(e, s) = Append(EnvDir(e) \o <<"logs", "sessions">>, s)
  BY <1>2, <1>3 DEF SessionLog
<1>8. Front(Append(EnvDir(e) \o <<"logs", "sessions">>, s)) = EnvDir(e) \o <<"logs", "sessions">>
  BY <1>2, <1>6, FrontOfAppend
<1> QED BY <1>1, <1>5, <1>7, <1>8 DEF Plain

-----------------------------------------------------------------------------
(* An overlay env of a plain source can be entered.                        *)

LEMMA SourceEntered ==
  ASSUME NEW source \in SafeSources \cap Placeable, NoLinks(source)
  PROVE  Plain(source) /\ source \in Dirs \ {<<>>} /\ source \in Seq(Range(source))
<1>1. source \in Seq(Range(source)) /\ Plain(source)
  BY DesktopAssumption DEF SafeSources, Placeable, OverlayRelativeExists, Plain
<1>2. Canonical(source) = source
  BY <1>1, CanonicalOfPlain
<1> QED BY <1>1, <1>2 DEF SafeSources, SafeSource, IsDir

LEMMA SplitAt ==
  ASSUME NEW S, NEW p \in Seq(S), NEW n \in 0..Len(p)
  PROVE  p = SubSeq(p, 1, n) \o SubSeq(p, n + 1, Len(p))
<1> DEFINE q == SubSeq(p, 1, n)  r == SubSeq(p, n + 1, Len(p))
<1>1. q \in Seq(S) /\ Len(q) = n /\ \A i \in 1..n : q[i] = p[i]
  OBVIOUS
<1>2. r \in Seq(S)
  OBVIOUS
<1>3. Len(r) = Len(p) - n
  OBVIOUS
<1>4. \A i \in 1..Len(p) - n : r[i] = p[n + i]
  OBVIOUS
<1> HIDE DEF q, r
<1>5. q \o r \in Seq(S) /\ Len(q \o r) = Len(p) /\ Len(p) \in Nat
  BY <1>1, <1>2, <1>3
<1>6. ASSUME NEW i \in 1..Len(p) PROVE (q \o r)[i] = p[i]
  <2>1. CASE i <= n
    <3>1. (q \o r)[i] = q[i]
      BY <1>1, <1>2, <1>5, <2>1
    <3> QED BY <1>1, <2>1, <3>1
  <2>2. CASE i > n
    <3>1. (q \o r)[i] = r[i - n]
      BY <1>1, <1>2, <1>5, <2>2
    <3>2. i - n \in 1..Len(p) - n /\ n + (i - n) = i
      BY <1>5, <2>2
    <3>3. r[i - n] = p[n + (i - n)]
      BY <1>4, <3>2
    <3> QED BY <3>1, <3>2, <3>3
  <2> QED BY <1>5, <2>1, <2>2
<1>7. q \o r = p
  BY <1>5, <1>6, SameSequence
<1> QED BY <1>7 DEF q, r

LEMMA CwdInView ==
  ASSUME NEW S, NEW source \in Seq(S), NEW T, NEW cwd \in Seq(T), NEW x, NEW e,
         x.source = source, x.cwd = PreservedCwd(source, cwd),
         x.trees["view-root"] = EnvDir(e) \o <<"view-root">>
  PROVE  IsPrefix(source, x.cwd) /\ StartsInView(x, e, cwd)
<1>1. CASE IsPrefix(source, cwd)
  <2> DEFINE rest == SubSeq(cwd, Len(source) + 1, Len(cwd))
  <2>1. x.cwd = cwd /\ Len(source) \in Nat /\ Len(cwd) \in Nat /\ Len(source) <= Len(cwd)
        /\ SubSeq(source, 1, Len(source)) = SubSeq(cwd, 1, Len(source))
    BY <1>1 DEF PreservedCwd, IsPrefix
  <2>2. rest \in {SubSeq(cwd, i, Len(cwd)) : i \in 1..Len(cwd) + 1}
    <3>1. Len(source) + 1 \in 1..Len(cwd) + 1
      BY <2>1
    <3> QED BY <3>1
  <2>3. cwd = source \o rest
    <3>1. source = SubSeq(cwd, 1, Len(source))
      BY <2>1
    <3>2. cwd = SubSeq(cwd, 1, Len(source)) \o rest
      <4>1. Len(source) \in 0..Len(cwd)
        BY <2>1
      <4> QED BY <4>1, SplitAt
    <3> QED BY <3>1, <3>2
  <2>4. MountedCwd(x) = EnvDir(e) \o <<"view-root">> \o rest
    BY <2>1 DEF MountedCwd
  <2> HIDE DEF rest
  <2> QED BY <1>1, <2>1, <2>2, <2>3, <2>4 DEF StartsInView
<1>2. CASE ~IsPrefix(source, cwd)
  <2>1. x.cwd = source
    BY <1>2 DEF PreservedCwd
  <2>2. IsPrefix(source, source)
    BY DEF IsPrefix
  <2>3. SubSeq(source, Len(source) + 1, Len(source)) = <<>>
    OBVIOUS
  <2>4. <<>> \in {SubSeq(cwd, i, Len(cwd)) : i \in 1..Len(cwd) + 1}
    <3>1. SubSeq(cwd, Len(cwd) + 1, Len(cwd)) = <<>> /\ Len(cwd) + 1 \in 1..Len(cwd) + 1
      OBVIOUS
    <3> QED BY <3>1
  <2>5. MountedCwd(x) = EnvDir(e) \o <<"view-root">> \o <<>>
    BY <2>1, <2>3 DEF MountedCwd
  <2> QED BY <1>2, <2>1, <2>2, <2>4, <2>5 DEF StartsInView
<1> QED BY <1>1, <1>2

LEMMA EntryAccepted ==
  ASSUME NEW source \in SafeSources \cap Placeable, NoLinks(source), StoreAsMade, NoLinks(Store),
         NEW e \in Envs, NEW cwd \in Dirs, NEW network \in {"host", "none"},
         NEW log \in {<<>>} \cup {SessionLog(e, s) : s \in Sessions}, NEW x,
         x = [trees |-> [t \in Trees |-> Append(EnvDir(e), t)], source |-> source,
              cwd |-> PreservedCwd(source, cwd), network |-> network, log |-> log]
  PROVE  ViewdAccepts(x) /\ OverlayfsAccepts(MountCall(x)) /\ StartsInView(x, e, cwd)
<1>1. /\ x.trees = [t \in Trees |-> Append(EnvDir(e), t)] /\ x.source = source
      /\ x.cwd = PreservedCwd(source, cwd) /\ x.network = network /\ x.log = log
  OBVIOUS
<1>2. Plain(source) /\ source \in Dirs \ {<<>>} /\ source \in Seq(Range(source))
  BY SourceEntered
<1>3. \A t \in Trees : /\ x.trees[t] = Append(EnvDir(e), t) /\ Plain(x.trees[t])
                       /\ Front(x.trees[t]) = EnvDir(e)
  BY <1>1, TreePaths
<1>4. "view-root" \in Trees /\ "lower" \in Trees
  BY DEF Trees
<1>5. \A names \in SUBSET Trees : EnvLayout(x.trees, names, EnvDir(e))
  BY <1>3, OwnDirs DEF EnvLayout, StoreAsMade
<1>6. ValidOverlayPaths(x) /\ ValidSource(x)
  BY <1>1, <1>2, <1>3, <1>4, <1>5 DEF ValidOverlayPaths, ValidSource
<1>7. IsPrefix(source, x.cwd) /\ StartsInView(x, e, cwd)
  <2>1. x.trees["view-root"] = EnvDir(e) \o <<"view-root">>
    BY <1>3, <1>4, TreePaths
  <2>2. cwd \in Seq(Range(cwd))
    BY HostAssumption
  <2> QED BY <1>1, <1>2, <2>1, <2>2, CwdInView
<1>8. ValidLog(x)
  BY <1>1, <1>3, <1>4, LogPath DEF ValidLog
<1>9. ViewdAccepts(x)
  BY <1>1, <1>6, <1>7, <1>8 DEF ViewdAccepts, ValidNetwork, ValidRuntime
<1>10. OverlayfsAccepts(MountCall(x))
  <2>1. /\ MountCall(x).mount = x.trees["view-root"] /\ MountCall(x).visible = source
        /\ MountCall(x).trees = x.trees /\ MountCall(x).fallback = SystemFallbackRoots
    BY <1>1 DEF MountCall
  <2>2. MountCall(x).mount = Append(EnvDir(e), "view-root") /\ Plain(MountCall(x).mount)
    BY <1>3, <1>4, <2>1
  <2>3. EnvLayout(x.trees, Trees \ {"view-root"}, Front(x.trees["lower"]))
    BY <1>3, <1>4, <1>5
  <2> QED BY <1>2, <1>3, <1>4, <2>1, <2>2, <2>3
          DEF OverlayfsAccepts, SystemFallbackRoots, FallbackAllowlist
<1> QED BY <1>7, <1>9, <1>10

LEMMA PlainSourceWellEntered ==
  ASSUME NEW source \in SafeSources \cap Placeable, NoLinks(source), StoreAsMade, NoLinks(Store)
  PROVE  source \in WellEntered
<1> SUFFICES ASSUME NEW e \in Envs, NEW b \in Bases, NEW cwd \in Dirs,
                    NEW network \in {"host", "none"}
             PROVE  LET base == BaseWritten(b, "overlay", source)
                        env == EnvWritten(e, "overlay", network)
                    IN /\ BaseAccepted(base, b) /\ EnvAccepted(env, e)
                       /\ \A s \in Sessions : SessionAccepted(SessionWritten(e, s), e, s)
                       /\ \A x \in Entries(e, env, base, cwd) :
                            /\ ViewdAccepts(x) /\ OverlayfsAccepts(MountCall(x))
                            /\ StartsInView(x, e, cwd)
  BY DEF WellEntered, SafeSources
<1> DEFINE base == BaseWritten(b, "overlay", source)
           env == EnvWritten(e, "overlay", network)
           X(log) == [trees |-> [t \in Trees |-> Append(EnvDir(e), t)], source |-> source,
                      cwd |-> PreservedCwd(source, cwd), network |-> network, log |-> log]
<1>1. BaseAccepted(base, b) /\ EnvAccepted(env, e)
  BY DEF BaseAccepted, EnvAccepted, BaseWritten, EnvWritten
<1>2. \A s \in Sessions : SessionAccepted(SessionWritten(e, s), e, s)
  BY DEF SessionAccepted, SessionWritten
<1>3. env.rootfs = Append(EnvDir(e), "view-root") /\ env.network = network /\ base.source = source
  BY DEF EnvWritten, BaseWritten, EnvRootfs
<1>4. \A t \in Trees : EnvDir(e) \o <<t>> = Append(EnvDir(e), t)
  BY TreePaths
<1>5. Front(env.rootfs) = EnvDir(e)
  BY <1>3, TreePaths DEF Trees
<1> HIDE DEF base, env
<1>6. ASSUME NEW log PROVE Entry(e, env, base, cwd, log) = X(log)
  BY <1>3, <1>4 DEF Entry
<1>7. ShellEntry(env, base, cwd) = X(<<>>)
  BY <1>3, <1>5 DEF ShellEntry
<1>8. ASSUME NEW x \in Entries(e, env, base, cwd)
      PROVE  \E log \in {<<>>} \cup {SessionLog(e, s) : s \in Sessions} : x = X(log)
  BY <1>6, <1>7 DEF Entries
<1>9. \A x \in Entries(e, env, base, cwd) :
        ViewdAccepts(x) /\ OverlayfsAccepts(MountCall(x)) /\ StartsInView(x, e, cwd)
  BY <1>8, EntryAccepted
<1> QED BY <1>1, <1>2, <1>9 DEF base, env

-----------------------------------------------------------------------------
(* An overlay env that was made of a directory by its real path can be     *)
(* entered.  The base's source is the one that its freeze has looked at,   *)
(* and every env, and every copy of its record, has its base's backend.    *)

OfItsBase(env, records) == records[env.base] # None /\ env.backend = records[env.base].backend

EntryFits(r, records) ==
  /\ r.at \in Making /\ r.d \in Bases /\ r.backend = "overlay" => r.source \in SafeSources
  /\ r.at \in {"copy", "write"} /\ r.d \in Bases /\ r.backend = "overlay" => r.source \in Placeable
  /\ r.at \in Making /\ r.d \in Envs => r.backend = records[r.base].backend
  /\ r.at \in Holding => OfItsBase(r.copy, records)

RecordsFit ==
  /\ \A b \in Bases : rec[b] # None /\ rec[b].backend = "overlay"
                        => rec[b].source \in SafeSources \cap Placeable
  /\ \A e \in Envs : rec[e] # None => OfItsBase(rec[e], rec)

EntryInv == RecordsFit /\ \A c \in Clients : EntryFits(req[c], rec)

LEMMA BaseStays ==
  ASSUME BasesKept, NEW env, env.base \in Bases, OfItsBase(env, rec) PROVE OfItsBase(env, rec')
BY DEF BasesKept, OfItsBase

\* A record stays or goes.
LEMMA RecordsGo ==
  ASSUME DesktopInv, EntryInv, BasesKept, \A d \in Ids : rec'[d] \in {rec[d], None}
  PROVE  RecordsFit'
<1>1. ASSUME NEW b \in Bases, rec'[b] # None PROVE rec'[b] = rec[b]
  BY <1>1, IdFacts
<1>2. ASSUME NEW e \in Envs, rec'[e] # None PROVE OfItsBase(rec'[e], rec')
  <2>1. rec'[e] = rec[e] /\ rec[e].base \in Bases /\ OfItsBase(rec[e], rec)
    BY <1>2, IdFacts DEF EntryInv, RecordsFit, DesktopInv, StoreOK, EnvRec
  <2> QED BY <2>1, BaseStays
<1> QED BY <1>1, <1>2 DEF EntryInv, RecordsFit

LEMMA OneEntry ==
  ASSUME OneClient, NEW c \in Clients, RecordsFit', EntryFits(req'[c], rec')
  PROVE  EntryInv'
BY DEF OneClient, EntryInv

LEMMA NoEntry ==
  ASSUME NEW r, NEW records, r.at \notin Making \cup Holding PROVE EntryFits(r, records)
BY DEF EntryFits, Making

LEMMA SameEntry ==
  ASSUME DesktopInv, EntryInv, BasesKept, NEW c \in Clients
  PROVE  EntryFits(req[c], rec')
<1>1. Fits(req[c], tree, rec, wiping) /\ EntryFits(req[c], rec)
  BY DEF DesktopInv, EntryInv
<1>2. ASSUME req[c].at \in Holding PROVE OfItsBase(req[c].copy, rec')
  BY <1>1, <1>2, BaseStays DEF Fits, EntryFits, EnvRec
<1>3. ASSUME req[c].at \in Making, req[c].d \in Envs
      PROVE  req[c].backend = rec'[req[c].base].backend
  <2>1. req[c].base \in Bases /\ rec[req[c].base] # None
    BY <1>1, <1>3, IdFacts DEF Fits, ToMake
  <2> QED BY <1>1, <1>3, <2>1 DEF EntryFits, BasesKept
<1> QED BY <1>1, <1>2, <1>3 DEF EntryFits

\* A copy with the base and the backend of a record, or of the copy before.
LEMMA Held ==
  ASSUME DesktopInv, EntryInv, BasesKept, NEW c \in Clients, NEW env \in EnvRec,
         \/ env = req[c].copy /\ req[c].at \in Holding
         \/ \E e \in Envs : env = rec[e],
         req'[c].at \in Holding,
         req'[c].copy.base = env.base, req'[c].copy.backend = env.backend
  PROVE  EntryFits(req'[c], rec')
<1>1. OfItsBase(env, rec) /\ env.base \in Bases
  BY IdFacts DEF EntryInv, RecordsFit, EntryFits, EnvRec
<1>2. OfItsBase(env, rec')
  BY <1>1, BaseStays
<1>3. req'[c].at \notin Making
  BY DEF Making, Holding
<1> QED BY <1>2, <1>3 DEF EntryFits, OfItsBase, Making

\* What a request is that has gone on with other values in some of its fields.
LEMMA ContinueEntry ==
  ASSUME DesktopInv, NEW c \in Clients, NEW stage, stage \notin Making \cup Holding,
         Continue(c, stage)
  PROVE  req'[c].at \notin Making \cup Holding
<1>1. CASE stage = "idle"
  BY <1>1 DEF Continue, Finish, Idle, DesktopInv, Making, Holding
<1>2. CASE stage # "idle"
  BY <1>2, NextField DEF Continue
<1> QED BY <1>1, <1>2

LEMMA FinishEntry ==
  ASSUME DesktopInv, NEW c \in Clients, Finish(c) PROVE req'[c].at \notin Making \cup Holding
BY DEF Finish, Idle, DesktopInv, Making, Holding

LEMMA MakingEntry ==
  ASSUME OneClient, DesktopInv, EntryInv, BasesKept, RecordsFit', NEW c \in Clients,
         req[c].at \in Making, req'[c].at \in Making,
         req'[c].d = req[c].d, req'[c].base = req[c].base,
         req'[c].source = req[c].source, req'[c].backend = req[c].backend,
         req'[c].at \in {"copy", "write"} => req[c].at \in {"copy", "write"} \/ HasPlace(req[c])
  PROVE  EntryInv'
<1>1. EntryFits(req[c], rec')
  BY SameEntry
<1>2. EntryFits(req'[c], rec')
  BY <1>1 DEF EntryFits, HasPlace, Making, Holding
<1> QED BY <1>2, OneEntry

-----------------------------------------------------------------------------
LEMMA TodoMaking ==
  ASSUME DesktopInv, NEW c \in Clients, NEW stage, NEW todo,
         Goto(c, stage) \/ Update(c, [at |-> stage, todo |-> todo])
  PROVE  /\ req'[c].at = stage /\ req'[c].d = req[c].d /\ req'[c].base = req[c].base
         /\ req'[c].source = req[c].source /\ req'[c].backend = req[c].backend
<1>1. CASE Goto(c, stage)
  BY <1>1 DEF DesktopInv, Goto, Update, Changed, Requests
<1>2. CASE Update(c, [at |-> stage, todo |-> todo])
  BY <1>2 DEF DesktopInv, Update, Changed, Requests
<1> QED BY <1>1, <1>2

LEMMA FreezeEntry ==
  ASSUME OneClient, DesktopInv, EntryInv, BasesKept, NEW c \in Clients, Freeze(c) \/ Create(c)
  PROVE  EntryInv'
<1>1. RecordsFit'
  BY RecordsGo DEF Freeze, Create, Quiet
<1>2. \A op : AlreadyExists(op) \notin Making \cup Holding
  BY DEF AlreadyExists, Making, Holding
<1>3. CASE Finish(c) \/ \E op : Continue(c, AlreadyExists(op))
  <2>1. req'[c].at \notin Making \cup Holding
    BY <1>2, <1>3, FinishEntry, ContinueEntry
  <2> QED BY <1>1, <2>1, NoEntry, OneEntry
<1>4. CASE /\ req[c].at = "freeze" /\ Update(c, [at |-> "mkdir", d |-> req[c].base])
           /\ req[c].backend = "overlay" => req[c].source \in SafeSources
  <2>1. /\ req'[c].at = "mkdir" /\ req'[c].d = req[c].base
        /\ req'[c].source = req[c].source /\ req'[c].backend = req[c].backend
    BY <1>4 DEF DesktopInv, Update, Changed, Requests
  <2>2. req[c].base \notin Envs
    BY <1>4, IdFacts DEF DesktopInv, Fits, ToMake
  <2>3. EntryFits(req'[c], rec')
    BY <1>4, <2>1, <2>2 DEF EntryFits, Making, Holding
  <2> QED BY <1>1, <2>3, OneEntry
<1>5. CASE /\ req[c].at = "create" /\ UNCHANGED rec
           /\ Update(c, [at |-> "mkdir", d |-> req[c].env, backend |-> rec[req[c].base].backend])
  <2>1. /\ req'[c].at = "mkdir" /\ req'[c].d = req[c].env /\ req'[c].base = req[c].base
        /\ req'[c].backend = rec[req[c].base].backend
    BY <1>5 DEF DesktopInv, Update, Changed, Requests
  <2>2. req[c].env \notin Bases
    BY <1>5, IdFacts DEF DesktopInv, Fits
  <2>3. EntryFits(req'[c], rec')
    BY <1>5, <2>1, <2>2 DEF EntryFits, Making, Holding
  <2> QED BY <1>1, <2>3, OneEntry
<1> QED BY <1>3, <1>4, <1>5 DEF Freeze, Create, Quiet

LEMMA EnsureEntry ==
  ASSUME OneClient, DesktopInv, EntryInv, BasesKept, NEW c \in Clients,
         EnsureBase(c) \/ EnsureEnv(c) \/ EnsureStarted(c)
  PROVE  EntryInv'
<1>1. RecordsFit'
  BY RecordsGo DEF EnsureBase, EnsureEnv, EnsureStarted, Quiet
<1>2. \/ Finish(c)
      \/ \E stage \in {"ensureEnv", "started", "create", "target", "start"} :
           Continue(c, stage) \/ Goto(c, stage)
      \/ \E b : Update(c, [at |-> "freeze", backend |-> b])
  BY DEF EnsureBase, EnsureEnv, EnsureStarted
<1>3. ASSUME NEW stage \in {"ensureEnv", "started", "create", "target", "start"}, Goto(c, stage)
      PROVE  req'[c].at \notin Making \cup Holding
  BY <1>3, Went DEF Making, Holding
<1>4. ASSUME NEW b, Update(c, [at |-> "freeze", backend |-> b])
      PROVE  req'[c].at \notin Making \cup Holding
  BY <1>4, NextField DEF Making, Holding
<1>5. ASSUME NEW stage \in {"ensureEnv", "started", "create", "target", "start"}, Continue(c, stage)
      PROVE  req'[c].at \notin Making \cup Holding
  BY <1>5, ContinueEntry DEF Making, Holding
<1>6. req'[c].at \notin Making \cup Holding
  BY <1>2, <1>3, <1>4, <1>5, FinishEntry
<1> QED BY <1>1, <1>6, NoEntry, OneEntry

LEMMA CopyEntry ==
  ASSUME OneClient, DesktopInv, EntryInv, BasesKept, NEW c \in Clients,
         Mkdir(c) \/ Clone(c) \/ Copy(c) \/ CopyFails(c) \/ WriteFails(c)
  PROVE  EntryInv'
<1>1. RecordsFit'
  BY RecordsGo DEF Mkdir, Clone, Copy, CopyFails, WriteFails, Quiet
<1>2. req[c].at \in Making
  BY DEF Mkdir, Clone, Copy, CopyFails, WriteFails, Making
<1>3. CASE Finish(c)
  BY <1>1, <1>3, FinishEntry, NoEntry, OneEntry
<1>4. CASE Goto(c, "clone") \/ Goto(c, "clean")
  <2>1. req'[c].at \in {"clone", "clean"} /\ req'[c].at \in Making
    BY <1>4, TodoMaking DEF Making
  <2>2. /\ req'[c].d = req[c].d /\ req'[c].base = req[c].base
        /\ req'[c].source = req[c].source /\ req'[c].backend = req[c].backend
    BY <1>4, TodoMaking
  <2> QED BY <1>1, <1>2, <2>1, <2>2, MakingEntry
<1>5. ASSUME NEW todo, Update(c, [at |-> AfterCopy(req[c], todo), todo |-> todo]),
             req[c].at = "copy" \/ HasPlace(req[c])
      PROVE  EntryInv'
  <2>1. AfterCopy(req[c], todo) \in Making
    BY DEF AfterCopy, Making
  <2> QED BY <1>1, <1>2, <1>5, <2>1, TodoMaking, MakingEntry
<1> QED BY <1>3, <1>4, <1>5 DEF Mkdir, Clone, Copy, CopyFails, WriteFails

LEMMA CleanEntry ==
  ASSUME OneClient, DesktopInv, EntryInv, BasesKept, NEW c \in Clients, Clean(c)
  PROVE  EntryInv'
<1>1. RecordsFit'
  BY RecordsGo DEF Clean, DesktopInv, StoreOK
<1>2. \A op : AlreadyExists(op) \notin Making \cup Holding
  BY DEF AlreadyExists, Making, Holding
<1>3. req'[c].at \notin Making \cup Holding
  BY <1>2, FinishEntry, ContinueEntry DEF Clean
<1> QED BY <1>1, <1>3, NoEntry, OneEntry

LEMMA WriteEntry ==
  ASSUME OneClient, DesktopInv, EntryInv, BasesKept, NEW c \in Clients, WriteRecord(c)
  PROVE  EntryInv'
<1> DEFINE r == req[c]
<1>1. \A op : /\ AfterFreeze(op) \notin Making \cup Holding
              /\ AfterCreate(op) \notin Making \cup Holding
  BY DEF AfterFreeze, AfterCreate, Making, Holding
<1>2. req'[c].at \notin Making \cup Holding
  BY <1>1, ContinueEntry DEF WriteRecord
<1>3. r.at = "write" /\ r.d \in Ids /\ r.base \in Bases /\ r.backend \in Backends
  BY MakingFacts DEF WriteRecord, Making
<1>4. \A d \in Ids \ {r.d} : rec'[d] = rec[d]
  BY DEF WriteRecord, DesktopInv, StoreOK
<1>5. EntryFits(r, rec)
  BY DEF EntryInv
<1>6. CASE r.d \in Bases
  <2>1. rec'[r.d] = [backend |-> r.backend, source |-> r.source]
    BY <1>3, <1>6 DEF WriteRecord, DesktopInv, StoreOK
  <2>2. r.backend = "overlay" => r.source \in SafeSources \cap Placeable
    BY <1>3, <1>5, <1>6 DEF EntryFits, Making
  <2>3. ASSUME NEW b \in Bases, rec'[b] # None, rec'[b].backend = "overlay"
        PROVE  rec'[b].source \in SafeSources \cap Placeable
    BY <1>4, <2>1, <2>2, <2>3, IdFacts DEF EntryInv, RecordsFit
  <2>4. ASSUME NEW e \in Envs, rec'[e] # None PROVE OfItsBase(rec'[e], rec')
    <3>1. rec'[e] = rec[e] /\ rec[e].base \in Bases /\ OfItsBase(rec[e], rec)
      BY <1>4, <1>6, <2>4, IdFacts DEF EntryInv, RecordsFit, DesktopInv, StoreOK, EnvRec
    <3> QED BY <3>1, BaseStays
  <2> QED BY <1>2, <2>3, <2>4, NoEntry, OneEntry DEF RecordsFit
<1>7. CASE r.d \notin Bases
  <2>1. rec'[r.d] = [base |-> r.base, backend |-> r.backend, state |-> "Created", sessions |-> {}]
    BY <1>3, <1>7 DEF WriteRecord, DesktopInv, StoreOK
  <2>2. r.d \in Envs /\ rec[r.base] # None
    BY <1>3, <1>7, MakingFacts DEF Ids, Making
  <2>3. OfItsBase(rec'[r.d], rec')
    <3>1. rec'[r.base] = rec[r.base]
      BY <1>3, <2>2 DEF BasesKept
    <3> QED BY <1>3, <1>5, <2>1, <2>2, <3>1 DEF OfItsBase, EntryFits, Making
  <2>4. ASSUME NEW b \in Bases PROVE rec'[b] = rec[b]
    BY <1>4, <1>7, IdFacts
  <2>5. ASSUME NEW e \in Envs, rec'[e] # None PROVE OfItsBase(rec'[e], rec')
    <3>1. CASE e = r.d
      BY <2>3, <3>1
    <3>2. CASE e # r.d
      <4>1. rec'[e] = rec[e] /\ rec[e].base \in Bases /\ OfItsBase(rec[e], rec)
        BY <1>4, <2>5, <3>2, IdFacts DEF EntryInv, RecordsFit, DesktopInv, StoreOK, EnvRec
      <4> QED BY <4>1, BaseStays
    <3> QED BY <3>1, <3>2
  <2>6. RecordsFit'
    BY <2>4, <2>5 DEF EntryInv, RecordsFit
  <2> QED BY <1>2, <2>6, NoEntry, OneEntry
<1> QED BY <1>6, <1>7

-----------------------------------------------------------------------------
(* Records that are read and written back.                                 *)

LEMMA ReadBack ==
  ASSUME OneClient, DesktopInv, EntryInv, BasesKept, UNCHANGED rec, NEW c \in Clients,
         NEW e \in Envs, rec[e] # None, req'[c].at \in Holding,
         req'[c].copy.base = rec[e].base, req'[c].copy.backend = rec[e].backend
  PROVE  EntryInv'
<1>1. RecordsFit'
  BY RecordsGo
<1>2. rec[e] \in EnvRec
  BY EnvRecorded
<1>3. EntryFits(req'[c], rec')
  BY <1>2, Held
<1> QED BY <1>1, <1>3, OneEntry

LEMMA HeldOn ==
  ASSUME OneClient, DesktopInv, EntryInv, BasesKept, UNCHANGED rec, NEW c \in Clients,
         req[c].at \in Holding, req'[c].at \in Holding,
         req'[c].copy.base = req[c].copy.base, req'[c].copy.backend = req[c].copy.backend
  PROVE  EntryInv'
<1>1. RecordsFit'
  BY RecordsGo
<1>2. req[c].copy \in EnvRec
  BY DEF DesktopInv, Fits
<1>3. EntryFits(req'[c], rec')
  BY <1>2, Held
<1> QED BY <1>1, <1>3, OneEntry

\* The request has ended, or is at a step that makes and holds nothing.
LEMMA Empty ==
  ASSUME OneClient, DesktopInv, EntryInv, BasesKept, \A d \in Ids : rec'[d] \in {rec[d], None},
         NEW c \in Clients, Finish(c) \/ req'[c].at \notin Making \cup Holding
  PROVE  EntryInv'
<1>1. req'[c].at \notin Making \cup Holding
  BY FinishEntry
<1> QED BY <1>1, RecordsGo, NoEntry, OneEntry

LEMMA SameRequests ==
  ASSUME DesktopInv, EntryInv, BasesKept, UNCHANGED rec,
         \A c \in Clients : req'[c] = req[c] \/ req'[c] = Idle
  PROVE  EntryInv'
<1>1. RecordsFit'
  BY RecordsGo
<1>2. ASSUME NEW c \in Clients PROVE EntryFits(req'[c], rec')
  <2>1. CASE req'[c] = req[c]
    BY <2>1, SameEntry
  <2>2. CASE req'[c] = Idle
    <3>1. req'[c].at \notin Making \cup Holding
      BY <2>2 DEF Idle, Making, Holding
    <3> QED BY <3>1, NoEntry
  <2> QED BY <2>1, <2>2
<1> QED BY <1>1, <1>2 DEF EntryInv

LEMMA BackEntry ==
  ASSUME OneClient, DesktopInv, EntryInv, BasesKept, NEW c \in Clients, Start(c) \/ WriteBack(c)
  PROVE  EntryInv'
<1>0. PICK e \in Envs : e = req[c].env
  BY DEF Start, WriteBack, DesktopInv, Fits
<1>1. CASE Finish(c) /\ UNCHANGED rec
  BY <1>1, Empty
<1>2. CASE Start(c) /\ rec[e] # None
  <2> DEFINE env == [rec[e] EXCEPT !.state = "Running"]
  <2>1. Update(c, [at |-> "back", copy |-> env]) /\ UNCHANGED rec
    BY <1>0, <1>2 DEF Start, Quiet
  <2>2. env.base = rec[e].base /\ env.backend = rec[e].backend
    BY <1>2, EnvRecorded DEF EnvRec
  <2> HIDE DEF env
  <2>3. req'[c].at = "back" /\ req'[c].copy = env
    BY <2>1 DEF Update, Changed, DesktopInv, Requests
  <2> QED BY <1>2, <2>1, <2>2, <2>3, ReadBack DEF Holding
<1>3. CASE /\ req[c].at = "back" /\ rec' = [rec EXCEPT ![e] = req[c].copy]
           /\ Goto(c, "target") \/ Finish(c)
  <2>1. req'[c].at \notin Making \cup Holding
    BY <1>3, FinishEntry, Went DEF Making, Holding
  <2>2. rec'[e] = req[c].copy /\ \A d \in Ids \ {e} : rec'[d] = rec[d]
    BY <1>3, IdFacts DEF DesktopInv, StoreOK
  <2>3. req[c].copy \in EnvRec /\ OfItsBase(req[c].copy, rec)
    BY <1>3 DEF DesktopInv, Fits, EntryInv, EntryFits, Holding
  <2>4. \A b \in Bases : rec'[b] = rec[b]
    BY <2>2, IdFacts
  <2>5. ASSUME NEW x \in Envs, rec'[x] # None PROVE OfItsBase(rec'[x], rec')
    <3>1. CASE x = e
      BY <2>2, <2>3, <3>1, BaseStays DEF EnvRec
    <3>2. CASE x # e
      <4>1. rec'[x] = rec[x] /\ rec[x].base \in Bases /\ OfItsBase(rec[x], rec)
        BY <2>2, <2>5, <3>2, IdFacts DEF EntryInv, RecordsFit, DesktopInv, StoreOK, EnvRec
      <4> QED BY <4>1, BaseStays
    <3> QED BY <3>1, <3>2
  <2>6. RecordsFit'
    BY <2>4, <2>5 DEF EntryInv, RecordsFit
  <2> QED BY <2>1, <2>6, NoEntry, OneEntry
<1> QED BY <1>0, <1>1, <1>2, <1>3 DEF Start, WriteBack, Quiet

LEMMA RemovalEntry ==
  ASSUME OneClient, DesktopInv, EntryInv, BasesKept, NEW c \in Clients,
         Unmount(c) \/ Wipe(c) \/ Wiped(c) \/ WipeFails(c) \/ ShellResponse(c)
  PROVE  EntryInv'
<1>1. \A d \in Ids : rec'[d] \in {rec[d], None}
  <2>1. \/ UNCHANGED rec
        \/ rec' = [rec EXCEPT ![req[c].env] = None]
    BY DEF Unmount, Wipe, Wiped, WipeFails, ShellResponse, Quiet
  <2> QED BY <2>1 DEF DesktopInv, StoreOK
<1>2. CASE Finish(c)
  BY <1>1, <1>2, Empty
<1>3. CASE BeginWipe(c, req[c].env)
  <2>1. req'[c].at \notin Making \cup Holding
    BY <1>3, NextField DEF BeginWipe, Making, Holding
  <2> QED BY <1>1, <2>1, Empty
<1>4. CASE req[c].at = "wipe" /\ UNCHANGED req
  <2>1. req'[c].at \notin Making \cup Holding
    BY <1>4 DEF Making, Holding
  <2> QED BY <1>1, <2>1, Empty
<1> QED BY <1>2, <1>3, <1>4 DEF Unmount, Wipe, Wiped, WipeFails, ShellResponse

LEMMA RequestEntry ==
  ASSUME OneClient, DesktopInv, EntryInv, BasesKept, NEW c \in Clients, Request(c)
  PROVE  EntryInv'
<1>1. UNCHANGED rec
  BY DEF Request, StateRequest, New, FreezeRequest, CreateRequest, Destroy, DirectRemove, Quiet
<1>2. CASE \E e \in Envs, state \in {"Running", "Stopped"} : StateRequest(c, e, state)
  <2>1. PICK e \in Envs, state \in {"Running", "Stopped"} : StateRequest(c, e, state)
    BY <1>2
  <2> DEFINE env == [rec[e] EXCEPT !.state = state]
  <2>2. rec[e] # None /\ Begin(c, [at |-> "back", env |-> e, copy |-> env])
    BY <2>1 DEF StateRequest
  <2>3. env.base = rec[e].base /\ env.backend = rec[e].backend
    BY <2>2, EnvRecorded DEF EnvRec
  <2> HIDE DEF env
  <2>4. req'[c].at = "back" /\ req'[c].copy = env
    BY <2>2, WithCopy
  <2> QED BY <1>1, <2>2, <2>3, <2>4, ReadBack DEF Holding
<1>3. CASE ~\E e \in Envs, state \in {"Running", "Stopped"} : StateRequest(c, e, state)
  <2>1. \E e, b, s, k, op :
          \/ Begin(c, [at |-> "create", env |-> e, base |-> b])
          \/ Begin(c, [at |-> "started", op |-> "new", env |-> e, base |-> b])
          \/ Begin(c, [at |-> "ensureBase", op |-> "new", env |-> e, base |-> b,
                       source |-> s, backend |-> k])
          \/ Begin(c, [at |-> "freeze", op |-> op, env |-> e, base |-> b,
                       source |-> s, backend |-> k])
          \/ Begin(c, [at |-> "unmount", env |-> e])
          \/ Begin(c, [at |-> "wipe", env |-> e])
    BY <1>3 DEF Request, New, FreezeRequest, CreateRequest, Destroy, DirectRemove, BeginWipe
  <2>2. ASSUME NEW e, NEW b, NEW s, NEW k, NEW op, NEW fields,
               fields \in {[at |-> "create", env |-> e, base |-> b],
                           [at |-> "started", op |-> "new", env |-> e, base |-> b],
                           [at |-> "ensureBase", op |-> "new", env |-> e, base |-> b, source |-> s,
                            backend |-> k],
                           [at |-> "freeze", op |-> op, env |-> e, base |-> b, source |-> s,
                            backend |-> k],
                           [at |-> "unmount", env |-> e],
                           [at |-> "wipe", env |-> e]},
               Begin(c, fields)
        PROVE  req'[c].at \notin Making \cup Holding
    <3>1. "at" \in DOMAIN fields /\ fields.at \notin Making \cup Holding
      BY <2>2 DEF Making, Holding
    <3> QED BY <2>2, <3>1, NextField
  <2>3. req'[c].at \notin Making \cup Holding
    BY <2>1, <2>2
  <2> QED BY <1>1, <2>3, Empty
<1> QED BY <1>2, <1>3

-----------------------------------------------------------------------------
(* The steps of DesktopSessions.                                           *)

LEMMA SessionRequestEntry ==
  ASSUME OneClient, DesktopInv, EntryInv, BasesKept, NEW c \in Clients, SessionRequest(c)
  PROVE  EntryInv'
<1>1. PICK e \in Envs :
        \/ Exec(c, e) \/ Touch(c, e) \/ Shell(c, e) \/ SessionList(c, e)
        \/ \E s \in Sessions :
             SessionCreate(c, e, s) \/ SessionDetach(c, e, s) \/ SessionKill(c, e, s)
  BY DEF SessionRequest
<1>2. UNCHANGED rec
  BY <1>1 DEF Exec, Touch, Shell, SessionList, SessionCreate, SessionDetach, SessionKill, Quiet
<1>3. CASE Exec(c, e) \/ Touch(c, e) \/ SessionList(c, e)
           \/ \E s \in Sessions : SessionKill(c, e, s) \/ (SessionDetach(c, e, s) /\ ~UNCHANGED req)
  <2>1. /\ rec[e] # None
        /\ \E stage \in {"back", "running", "sync", "signal"} : \E op :
             \/ Begin(c, [at |-> stage, env |-> e, copy |-> rec[e]])
             \/ Begin(c, [at |-> stage, op |-> op, env |-> e, copy |-> rec[e]])
    BY <1>3 DEF Exec, Touch, SessionList, SessionDetach, SessionKill, Running, BeginBack
  <2>2. req'[c].at \in Holding /\ req'[c].copy = rec[e]
    BY <2>1, WithCopy DEF Holding
  <2> QED BY <1>2, <2>1, <2>2, ReadBack
<1>4. CASE UNCHANGED req
  BY <1>2, <1>4, SameRequests
<1>5. ASSUME NEW s \in Sessions, SessionCreate(c, e, s) PROVE EntryInv'
  <2> DEFINE env == [rec[e] EXCEPT !.sessions = @ \cup {s}]
  <2>1. /\ rec[e] # None
        /\ Begin(c, [at |-> "spawn", op |-> "session_create", env |-> e, copy |-> env])
    BY <1>5 DEF SessionCreate, Running
  <2>2. env.base = rec[e].base /\ env.backend = rec[e].backend
    BY <2>1, EnvRecorded DEF EnvRec
  <2> HIDE DEF env
  <2>3. req'[c].at = "spawn" /\ req'[c].copy = env
    BY <2>1, WithCopy
  <2> QED BY <1>2, <2>1, <2>2, <2>3, ReadBack DEF Holding
<1> QED BY <1>1, <1>3, <1>4, <1>5 DEF Shell

LEMMA FilingEntry ==
  ASSUME OneClient, DesktopInv, EntryInv, BasesKept, NEW c \in Clients,
         \/ SessionSpawn(c) \/ SessionSpawned(c) \/ WritePidFile(c) \/ AppendLog(c)
         \/ GiveUp(c) \/ Signal(c) \/ RemovePidFile(c) \/ WriteSession(c)
  PROVE  EntryInv'
<1>1. UNCHANGED rec
  BY DEF SessionSpawn, SessionSpawned, WritePidFile, AppendLog, GiveUp, Signal, RemovePidFile,
         WriteSession, Quiet
<1>2. req[c].at \in Holding
  BY DEF SessionSpawn, SessionSpawned, WritePidFile, AppendLog, GiveUp, Signal, RemovePidFile,
         WriteSession, Holding
<1>3. CASE Finish(c)
  BY <1>1, <1>3, Empty
<1>4. ASSUME NEW stage \in Holding, Goto(c, stage) PROVE EntryInv'
  BY <1>1, <1>2, <1>4, Went, HeldOn
<1>5. CASE UNCHANGED req
  BY <1>1, <1>5, SameRequests
<1>6. Finish(c) \/ (\E stage \in Holding : Goto(c, stage)) \/ UNCHANGED req
  BY DEF SessionSpawn, SessionSpawned, WritePidFile, AppendLog, GiveUp, Signal, RemovePidFile,
         WriteSession, Holding
<1> QED BY <1>3, <1>4, <1>5, <1>6

LEMMA WorkEntry ==
  ASSUME OneClient, DesktopInv, EntryInv, BasesKept, NEW c \in Clients, SessionStep(c)
  PROVE  EntryInv'
<1>1. CASE ExecEnds(c)
  <2>1. /\ req[c].at = "running" /\ UNCHANGED rec
        /\ Begin(c, [at |-> "back", env |-> req[c].env, copy |-> req[c].copy])
    BY <1>1 DEF ExecEnds, BeginBack, Env, Quiet
  <2>2. req'[c].at = "back" /\ req'[c].copy = req[c].copy
    BY <2>1, WithCopy
  <2> QED BY <2>1, <2>2, HeldOn DEF Holding
<1>2. CASE ListMark(c)
  BY <1>2, SameRequests DEF ListMark, Quiet
<1>3. CASE ListSync(c)
  <2>1. UNCHANGED rec /\ req[c].at = "sync"
    BY <1>3 DEF ListSync, Quiet
  <2>2. CASE Finish(c)
    BY <2>1, <2>2, Empty
  <2>3. CASE ~Finish(c)
    <3> DEFINE env == [req[c].copy EXCEPT !.sessions = arg[c].listed]
    <3>1. Begin(c, [at |-> "back", env |-> req[c].env, copy |-> env])
      BY <1>3, <2>3 DEF ListSync, BeginBack, Env
    <3>2. env.base = req[c].copy.base /\ env.backend = req[c].copy.backend
      BY <2>1 DEF DesktopInv, Fits, Holding, EnvRec
    <3> HIDE DEF env
    <3>3. req'[c].at = "back" /\ req'[c].copy = env
      BY <3>1, WithCopy
    <3> QED BY <2>1, <3>2, <3>3, HeldOn DEF Holding
  <2> QED BY <2>2, <2>3
<1>4. CASE WipeSessions(c)
  BY <1>4, SameRequests DEF WipeSessions, controlVars
<1>5. CASE AllWiped(c) \/ StartShell(c)
  BY <1>5, RemovalEntry DEF AllWiped, StartShell
<1> QED BY <1>1, <1>2, <1>3, <1>4, <1>5, FilingEntry DEF SessionStep

LEMMA HostEntry ==
  ASSUME DesktopInv, EntryInv, BasesKept, HostStep PROVE EntryInv'
<1>1. UNCHANGED rec
  BY DEF HostStep, Reboot, Crash, ViewdEnters, ViewdMounts, ViewdFails, Exit, PidReused, controlVars
<1>2. ASSUME NEW c \in Clients PROVE req'[c] = req[c] \/ req'[c] = Idle
  BY <1>2 DEF HostStep, Reboot, Crash, ViewdEnters, ViewdMounts, ViewdFails, Exit, PidReused,
              controlVars
<1> QED BY <1>1, <1>2, SameRequests

LEMMA EntryInit == Init => EntryInv
<1> SUFFICES ASSUME Init PROVE EntryInv
  OBVIOUS
<1>1. RecordsFit
  BY IdFacts DEF Init, ControlInit, RecordsFit
<1>2. ASSUME NEW c \in Clients PROVE EntryFits(req[c], rec)
  <2>1. req[c].at \notin Making \cup Holding
    BY DEF Init, ControlInit, Idle, Making, Holding
  <2> QED BY <2>1, NoEntry
<1> QED BY <1>1, <1>2 DEF EntryInv

LEMMA EntryStep ==
  ASSUME OneClient, DesktopInv, SessionOK, EntryInv, [Next]_vars PROVE EntryInv'
<1>0. BasesKept
  BY DesktopStep
<1>1. CASE HostStep
  BY <1>0, <1>1, HostEntry
<1>2. ASSUME NEW c \in Clients, SessionStep(c) \/ SessionRequest(c) PROVE EntryInv'
  BY <1>0, <1>2, WorkEntry, SessionRequestEntry
<1>3. ASSUME NEW c \in Clients, Proceed(c) PROVE EntryInv'
  BY <1>0, <1>3, FreezeEntry, EnsureEntry, CopyEntry, CleanEntry, WriteEntry, BackEntry,
     RemovalEntry
     DEF Proceed
<1>4. ASSUME NEW c \in Clients, Request(c) \/ Wipe(c) \/ WipeFails(c) PROVE EntryInv'
  BY <1>0, <1>4, RequestEntry, RemovalEntry
<1>5. CASE UNCHANGED vars
  BY <1>0, <1>5, SameRequests DEF vars, controlVars
<1> QED BY <1>1, <1>2, <1>3, <1>4, <1>5 DEF Next

\* With one client at a time, in a store that is as it was made: every overlay
\* env that was made of a plain source can be entered, by a command, a session
\* and a shell: forkd reads its records again, viewd and overlayfs accept what
\* they are called with, and the command starts where its client was.
THEOREM SerialCreatedCanBeEntered ==
  ASSUME OneClient, StoreAsMade PROVE Spec => []CreatedCanBeEntered
<1>1. EntryInv /\ (DesktopInv /\ SessionOK) /\ [Next]_vars => EntryInv'
  BY EntryStep
<1>2. EntryInv /\ (DesktopInv /\ SessionOK) => CreatedCanBeEntered
  <2> SUFFICES ASSUME EntryInv, DesktopInv, NEW e \in Envs, rec[e] # None,
                      rec[e].backend = "overlay"
               PROVE  SourceOf(e) \in Linked \cup WellEntered
    BY DEF CreatedCanBeEntered
  <2>1. PICK b \in Bases : b = rec[e].base
    BY EnvRecorded DEF EnvRec
  <2>2. rec[b] # None /\ rec[b].backend = "overlay"
    BY <2>1 DEF EntryInv, RecordsFit, OfItsBase
  <2>3. SourceOf(e) = rec[b].source /\ rec[b].source \in SafeSources \cap Placeable
    BY <2>1, <2>2 DEF SourceOf, EntryInv, RecordsFit
  <2>4. PICK source \in SafeSources \cap Placeable : source = rec[b].source
    BY <2>3
  <2>5. CASE NoLinks(source) /\ NoLinks(Store)
    BY <2>3, <2>4, <2>5, PlainSourceWellEntered
  <2>6. CASE ~(NoLinks(source) /\ NoLinks(Store))
    BY <2>3, <2>4, <2>6 DEF Linked, Placeable
  <2> QED BY <2>5, <2>6
<1> QED BY EntryInit, <1>1, <1>2, DesktopInvariance, PTL DEF Spec

=============================================================================
