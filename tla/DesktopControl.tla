--------------------------- MODULE DesktopControl ---------------------------
(***************************************************************************)
(* Bases and envs of the native desktop service (DesktopService in         *)
(* agent-core/src/desktop.rs, clone_tree in reflink.rs, create_lane and    *)
(* remove_lane of agent-studio).                                           *)
(*                                                                         *)
(* A base and an env are each a directory that holds a copied tree and, as *)
(* the last thing written, a record (manifest.json, meta.json).  Nothing   *)
(* locks the directory: what a request finds there, a leftover of one that *)
(* was cut off or failed included, is all it knows.  A request is cut into *)
(* the steps between which the process may be killed.                      *)
(*                                                                         *)
(* tree[d] is the part of the source that a clone has put into d and no    *)
(* removal has taken out; what programs do to their own files is left out. *)
(***************************************************************************)
EXTENDS Naturals, FiniteSets, ViewPaths

CONSTANTS
  Clients,      \* connections, one request at a time each
  Bases, Envs,  \* ids
  Sources,      \* paths that are given as the source of a base
  Parts,        \* what a source consists of
  Root,         \* the part that is its top directory
  Sessions,     \* session ids
  MaxCrashes,   \* bound: how often agent-forkd is killed or the host restarts
  None          \* no record, no id, no backend

Ids == Bases \cup Envs
Backends == {"clone", "overlay"}
BaseRec == [backend : Backends, source : Sources]
SafeSources == {s \in Sources : SafeSource(s)}
Directories == {s \in Sources : IsDir(s)}
Endless == {s \in Sources : ContainsStore(s)}
Placeable == {s \in Sources : OverlayRelativeExists(s)}
EnvRec == [base : Bases, backend : Backends, state : {"Created", "Running", "Stopped"},
           sessions : SUBSET Sessions]

ASSUME DesktopAssumption ==
  /\ Bases \cap Envs = {}
  /\ Root \in Parts
  /\ None \notin Backends \cup BaseRec \cup EnvRec \cup Ids
  /\ MaxCrashes \in Nat
  /\ \A s \in Sources : s \in Seq(Range(s))
  /\ ".." \notin Ids \cup Sessions  \* validate_id

VARIABLES
  made,     \* per id: its directory exists
  tree,     \* per id: the parts in it
  rec,      \* per id: its record, or None
  view,     \* per env: an overlay is mounted at its view-root
  req,      \* per client: the request in progress
  wiping,   \* history: envs whose removal was begun and not ended
  crashes   \* how often agent-forkd was killed or the host restarted

controlVars == <<made, tree, rec, view, req, wiping, crashes>>

\* op: the request, where a later step depends on it; d: the directory being
\* made; copy: the record of the env that is to be written back.
Idle == [at |-> "idle", op |-> "none", env |-> None, base |-> None, source |-> None,
         backend |-> None, d |-> None, todo |-> {}, copy |-> None]

\* r with other values in some of its fields.
Changed(r, fields) == [f \in DOMAIN r |-> IF f \in DOMAIN fields THEN fields[f] ELSE r[f]]

Begin(c, fields) == req' = [req EXCEPT ![c] = Changed(Idle, fields)]
Update(c, fields) == req' = [req EXCEPT ![c] = Changed(req[c], fields)]
Goto(c, stage) == Update(c, [at |-> stage])
Finish(c) == req' = [req EXCEPT ![c] = Idle]
Quiet == UNCHANGED <<made, tree, rec, view, wiping, crashes>>

-----------------------------------------------------------------------------
(* base_freeze_with_backend and env_create share their middle part: make   *)
(* the directory, clone the tree, take the directory away on an error, and *)
(* write the record last.                                                  *)

\* Which steps follow when the target of this request is ready.
AfterFreeze(op) ==
  CASE op = "new" -> "ensureEnv" [] op = "lane" -> "create" [] OTHER -> "idle"
AfterCreate(op) ==
  CASE op = "new" -> "started" [] op = "lane" -> "start" [] OTHER -> "idle"

AlreadyExists(op) == IF op = "lane" THEN "create" ELSE "idle"

Continue(c, stage) ==
  IF stage = "idle" THEN Finish(c)
  ELSE Update(c, [at |-> stage, source |-> None, backend |-> None, d |-> None, todo |-> {}])

\* Mutant: base_freeze does not look for the directory.
FreezeUnchecked(c) ==
  LET r == req[c]
  IN /\ r.at = "freeze"
     /\ IF r.backend = "overlay" /\ r.source \notin SafeSources THEN Finish(c)
        ELSE Update(c, [at |-> "mkdir", d |-> r.base])
     /\ Quiet

\* base_freeze: an existing directory is refused, whatever is in it; a lane
\* takes that answer for success (ok_or_already_exists).
Freeze(c) ==
  LET r == req[c]
  IN /\ r.at = "freeze"
     /\ \/ /\ r.backend = "overlay" /\ r.source \notin SafeSources
           /\ Finish(c)
        \/ /\ r.backend = "overlay" => r.source \in SafeSources
           /\ made[r.base]
           /\ Continue(c, AlreadyExists(r.op))
        \/ /\ r.backend = "overlay" => r.source \in SafeSources
           /\ ~made[r.base]
           /\ Update(c, [at |-> "mkdir", d |-> r.base])
     /\ Quiet

\* env_create: the base decides the backend.
Create(c) ==
  LET r == req[c]
  IN /\ r.at = "create"
     /\ IF rec[r.base] = None \/ made[r.env] THEN Finish(c)
        ELSE Update(c, [at |-> "mkdir", d |-> r.env, backend |-> rec[r.base].backend])
     /\ Quiet

Mkdir(c) ==
  LET r == req[c]
  IN /\ r.at = "mkdir"
     /\ \/ made' = [made EXCEPT ![r.d] = TRUE] /\ Goto(c, "clone")
        \/ Finish(c) /\ UNCHANGED made
     /\ UNCHANGED <<tree, rec, view, wiping, crashes>>

\* What there is to copy: the host directory, or the base's tree.
Original(r) ==
  CASE r.d \notin Bases -> tree[r.base] [] r.source \in Directories -> Parts [] OTHER -> {}

AfterCopy(r, todo) ==
  IF todo = {} /\ ~(r.d \in Bases /\ r.source \in Endless) THEN "write" ELSE "copy"

HasPlace(r) == r.d \in Bases /\ r.backend = "overlay" => r.source \in Placeable

\* A source with ".." has no place in an overlay's base: the request ends,
\* and the directory stays.  clone_tree refuses a source that is no directory
\* and a target that exists; otherwise it makes the target's top directory.
Clone(c) ==
  LET r == req[c]
  IN /\ r.at = "clone"
     /\ \/ /\ ~HasPlace(r)
           /\ Finish(c) /\ UNCHANGED <<made, tree>>
        \/ /\ HasPlace(r) /\ (Root \notin Original(r) \/ Root \in tree[r.d])
           /\ Goto(c, "clean") /\ UNCHANGED <<made, tree>>
        \/ /\ HasPlace(r) /\ Root \in Original(r) /\ Root \notin tree[r.d]
           /\ tree' = [tree EXCEPT ![r.d] = @ \cup {Root}]
           /\ made' = [made EXCEPT ![r.d] = TRUE]
           /\ LET todo == Original(r) \ {Root}
              IN Update(c, [at |-> AfterCopy(r, todo), todo |-> todo])
     /\ UNCHANGED <<rec, view, wiping, crashes>>

\* One entry of the walk.  Its parents are made again if they are gone.
Copy(c) ==
  LET r == req[c]
  IN /\ r.at = "copy" /\ r.todo # {}
     /\ \E p \in r.todo :
          /\ tree' = [tree EXCEPT ![r.d] = @ \cup {Root, p}]
          /\ made' = [made EXCEPT ![r.d] = TRUE]
          /\ LET todo == r.todo \ {p}
             IN Update(c, [at |-> AfterCopy(r, todo), todo |-> todo])
     /\ UNCHANGED <<rec, view, wiping, crashes>>

\* Mutant: an entry that cannot be cloned is left out.
CopyFailsSilently(c) ==
  /\ req[c].at = "copy"
  /\ Update(c, [at |-> "write", todo |-> {}])
  /\ Quiet

\* The first entry that cannot be cloned ends the walk.
CopyFails(c) ==
  /\ req[c].at = "copy"
  /\ Goto(c, "clean")
  /\ Quiet

\* The cleanup of a clone that failed: remove_dir_all, whose own error is
\* ignored and may leave any part of the directory.  It cannot remove a
\* directory that holds a mounted view.  A lane goes on if the answer is
\* that the target "already exists".
Clean(c) ==
  LET r == req[c]
  IN /\ r.at = "clean"
     /\ \/ /\ r.d \in Envs => ~view[r.d]
           /\ made' = [made EXCEPT ![r.d] = FALSE]
           /\ tree' = [tree EXCEPT ![r.d] = {}]
           /\ rec' = [rec EXCEPT ![r.d] = None]
        \/ /\ \E left \in SUBSET tree[r.d] :
                /\ left = {} \/ Root \in left
                /\ tree' = [tree EXCEPT ![r.d] = left]
           /\ rec' = [rec EXCEPT ![r.d] = None] \/ UNCHANGED rec
           /\ UNCHANGED made
     /\ \/ Finish(c)
        \/ r.d \in Bases /\ Continue(c, AlreadyExists(r.op))
     /\ UNCHANGED <<view, wiping, crashes>>

\* The record is written when all else is done.
WriteRecord(c) ==
  LET r == req[c]
  IN /\ r.at = "write"
     /\ rec' = [rec EXCEPT ![r.d] =
                  IF r.d \in Bases THEN [backend |-> r.backend, source |-> r.source]
                  ELSE [base |-> r.base, backend |-> r.backend, state |-> "Created",
                        sessions |-> {}]]
     /\ made' = [made EXCEPT ![r.d] = TRUE]
     /\ Continue(c, IF r.d \in Bases THEN AfterFreeze(r.op) ELSE AfterCreate(r.op))
     /\ UNCHANGED <<tree, view, wiping, crashes>>

\* dpkg.list, created_at, the overlay's directories or the limits failed:
\* the directory stays without a record.
WriteFails(c) ==
  /\ req[c].at = "write"
  /\ Finish(c)
  /\ Quiet

-----------------------------------------------------------------------------
(* Requests arrive.                                                        *)

\* new_target: an env that has a record is only started; its base, source
\* and backend are not compared with those asked for.
New(c, e, b, s, k) ==
  /\ req[c].at = "idle"
  /\ IF rec[e] # None
     THEN Begin(c, [at |-> "started", op |-> "new", env |-> e, base |-> b])
     ELSE Begin(c, [at |-> "ensureBase", op |-> "new", env |-> e, base |-> b,
                    source |-> s, backend |-> k])
  /\ Quiet

\* ensure_base: the backend asked for, and an overlay's source, must be the
\* base's own.
EnsureBase(c) ==
  LET r == req[c]  b == rec[r.base]
  IN /\ r.at = "ensureBase"
     /\ \/ b = None /\ Update(c, [at |-> "freeze",
                                   backend |-> IF r.backend = None THEN "clone" ELSE r.backend])
        \/ /\ b # None /\ r.backend \in {None, b.backend}
           /\ b.backend = "overlay" => b.source = r.source
           /\ Continue(c, "ensureEnv")
        \/ /\ b # None
           /\ \/ r.backend \notin {None, b.backend}
              \/ b.backend = "overlay" /\ b.source # r.source
           /\ Finish(c)
     /\ Quiet

EnsureEnv(c) ==
  /\ req[c].at = "ensureEnv"
  /\ Goto(c, IF rec[req[c].env] # None THEN "started" ELSE "create")
  /\ Quiet

\* ensure_env_started
EnsureStarted(c) ==
  LET e == rec[req[c].env]
  IN /\ req[c].at = "started"
     /\ CASE e = None -> Finish(c)
          [] e # None /\ e.state = "Running" -> Goto(c, "target")
          [] OTHER -> Goto(c, "start")
     /\ Quiet

\* Base freeze, env create and create_lane, which sends a freeze whose
\* "already exists" it ignores, a create and a start.
FreezeRequest(c, op, e, b, s, k) ==
  /\ req[c].at = "idle"
  /\ Begin(c, [at |-> "freeze", op |-> op, env |-> e, base |-> b, source |-> s, backend |-> k])
  /\ Quiet

CreateRequest(c, e, b) ==
  /\ req[c].at = "idle"
  /\ Begin(c, [at |-> "create", env |-> e, base |-> b])
  /\ Quiet

-----------------------------------------------------------------------------
(* env_start and env_stop change nothing but the record: sessions of a     *)
(* stopped env go on.  Like every request on a running env they write back *)
(* the copy they have read.                                                *)

StateRequest(c, e, state) ==
  /\ req[c].at = "idle"
  /\ rec[e] # None
  /\ Begin(c, [at |-> "back", env |-> e, copy |-> [rec[e] EXCEPT !.state = state]])
  /\ Quiet

\* env_start, as a part of new and of a lane.
Start(c) ==
  LET e == rec[req[c].env]
  IN /\ req[c].at = "start"
     /\ IF e = None THEN Finish(c)
        ELSE Update(c, [at |-> "back", copy |-> [e EXCEPT !.state = "Running"]])
     /\ Quiet

\* write_env.  An error leaves the old record.
WriteBack(c) ==
  LET r == req[c]
  IN /\ r.at = "back"
     /\ \/ /\ rec' = [rec EXCEPT ![r.env] = r.copy]
           /\ made' = [made EXCEPT ![r.env] = TRUE]
           /\ IF r.op = "new" THEN Goto(c, "target") ELSE Finish(c)
        \/ Finish(c) /\ UNCHANGED <<made, rec>>
     /\ UNCHANGED <<tree, view, wiping, crashes>>

\* target_response without a command: a shell that the client starts itself.
ShellResponse(c) ==
  /\ req[c].at = "target"
  /\ Finish(c)
  /\ Quiet

-----------------------------------------------------------------------------
(* env_destroy, and remove_lane's own removal when agent-forkd cannot be   *)
(* reached.                                                                *)

BeginWipe(c, e) ==
  /\ Begin(c, [at |-> "wipe", env |-> e])
  /\ wiping' = wiping \cup {e}

Destroy(c, e) ==
  /\ req[c].at = "idle"
  /\ made[e] \/ rec[e] # None
  /\ IF rec[e] # None /\ rec[e].backend = "overlay"
     THEN /\ Begin(c, [at |-> "unmount", env |-> e])
          /\ UNCHANGED wiping
     ELSE BeginWipe(c, e)
  /\ UNCHANGED <<made, tree, rec, view, crashes>>

DirectRemove(c, e) ==
  /\ req[c].at = "idle"
  /\ made[e]
  /\ rec[e] # None => rec[e].backend = "clone"
  /\ BeginWipe(c, e)
  /\ UNCHANGED <<made, tree, rec, view, crashes>>

\* unmount_macos_overlay_if_active, by force if need be; if the view is
\* active even then, nothing is removed.  When mount(8) cannot be asked the
\* view counts as inactive.
Unmount(c) ==
  LET r == req[c]
  IN /\ r.at = "unmount"
     /\ \/ view' = [view EXCEPT ![r.env] = FALSE] /\ BeginWipe(c, r.env)
        \/ view[r.env] /\ BeginWipe(c, r.env) /\ UNCHANGED view
        \/ view[r.env] /\ Finish(c) /\ UNCHANGED <<view, wiping>>
     /\ UNCHANGED <<made, tree, rec, crashes>>

\* remove_dir_all takes the entries of the directory one by one in no known
\* order: the record may go before the tree or after it.
Wipe(c) ==
  LET e == req[c].env
  IN /\ req[c].at = "wipe"
     /\ \/ /\ \E p \in tree[e] :
                /\ p = Root => tree[e] = {Root}
                /\ tree' = [tree EXCEPT ![e] = @ \ {p}]
           /\ UNCHANGED rec
        \/ /\ rec[e] # None
           /\ rec' = [rec EXCEPT ![e] = None]
           /\ UNCHANGED tree
     /\ UNCHANGED <<made, view, req, wiping, crashes>>

\* The directory itself is the last.  A mounted view cannot be removed.
Wiped(c) ==
  LET e == req[c].env
  IN /\ req[c].at = "wipe"
     /\ tree[e] = {} /\ rec[e] = None /\ ~view[e]
     /\ made' = [made EXCEPT ![e] = FALSE]
     /\ wiping' = wiping \ {e}
     /\ Finish(c)
     /\ UNCHANGED <<tree, rec, view, crashes>>

WipeFails(c) ==
  /\ req[c].at = "wipe"
  /\ Finish(c)
  /\ Quiet

-----------------------------------------------------------------------------
(* agent-forkd is killed: what its requests had not done is not done.      *)

Crash ==
  /\ crashes < MaxCrashes
  /\ crashes' = crashes + 1
  /\ req' = [c \in Clients |-> Idle]
  /\ UNCHANGED <<made, tree, rec, view, wiping>>

ControlInit ==
  /\ made = [d \in Ids |-> FALSE]
  /\ tree = [d \in Ids |-> {}]
  /\ rec = [d \in Ids |-> None]
  /\ view = [e \in Envs |-> FALSE]
  /\ req = [c \in Clients |-> Idle]
  /\ wiping = {}
  /\ crashes = 0

\* One step of a request in progress.
Proceed(c) ==
  \/ EnsureBase(c) \/ Freeze(c) \/ EnsureEnv(c) \/ Create(c) \/ Mkdir(c)
  \/ Clone(c) \/ Copy(c) \/ CopyFails(c) \/ Clean(c) \/ WriteRecord(c) \/ WriteFails(c)
  \/ EnsureStarted(c) \/ Start(c) \/ WriteBack(c) \/ Unmount(c)

Request(c) ==
  \/ \E e \in Envs, b \in Bases :
       \/ CreateRequest(c, e, b)
       \/ \E s \in Sources : \/ \E k \in Backends \cup {None} : New(c, e, b, s, k)
                             \/ \E k \in Backends, op \in {"base_freeze", "lane"} :
                                  FreezeRequest(c, op, e, b, s, k)
  \/ \E e \in Envs : \/ \E state \in {"Running", "Stopped"} : StateRequest(c, e, state)
                      \/ Destroy(c, e) \/ DirectRemove(c, e)

ControlNext ==
  \/ Crash
  \/ \E c \in Clients :
       Proceed(c) \/ Request(c) \/ ShellResponse(c) \/ Wipe(c) \/ Wiped(c) \/ WipeFails(c)

ControlSpec == ControlInit /\ [][ControlNext]_controlVars

-----------------------------------------------------------------------------
\* What has a record has the whole tree: a base or env that a killed or
\* failed clone has left behind is never taken for a finished one, and an
\* env loses parts only to a destroy that was begun (and cut off) on it.
WholeTrees ==
  \A d \in Ids : rec[d] # None /\ d \notin wiping => made[d] /\ tree[d] = Parts

\* A frozen base never changes again, whatever is asked for under its name
\* later: every env is made from the same tree and backend.
BaseStaysFrozen ==
  [][\A b \in Bases : rec[b] # None => rec'[b] = rec[b] /\ tree'[b] = tree[b]]_<<rec, tree>>

=============================================================================
