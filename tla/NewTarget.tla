------------------------------ MODULE NewTarget ------------------------------
(***************************************************************************)
(* `agentctl new` on Linux: AgentService::new_target, which freezes the    *)
(* base if there is none, creates the env if there is none, starts it if   *)
(* it does not run, and runs the command; base_freeze by itself; and the   *)
(* new worlds of `agentctl studio` and the lanes of agent-studio, three    *)
(* requests one after the other, of which some may answer "already         *)
(* exists".  The handlers of the env are those of EnvLifecycle.            *)
(*                                                                         *)
(* One base is enough: on Linux it is base-001 whatever the source.        *)
(* Backend says whether the sources are Btrfs subvolumes, and is_subvolume *)
(* is taken to find out.  A freeze holds no lock: two at a time are beyond *)
(* this model, so a run has one client.  The shell that ends a `new`       *)
(* without a command is a session request (EnvSessions).                   *)
(***************************************************************************)
EXTENDS EnvLifecycle, Sequences

CONSTANTS
  NewOps,    \* what clients ask for besides Ops: "new", "studio", "lane", "freeze"
  Sources,   \* the directories a base can be made of
  NoSource   \* none of them

ASSUME SourcesAssumption == NoSource \notin Sources

VARIABLES
  base,    \* the base: its directory, its rootfs, the source its manifest.json names
  job,     \* per client: what a new, lane or freeze has still to do
  origin,  \* history: the base as it was when the env was made of it
  cut      \* history: a freeze, create or destroy was killed, or its removals failed

newVars == <<vars, base, job, origin, cut>>

\* tree: none, raw, clean or frozen.
NoBase == [dir |-> FALSE, tree |-> "none", record |-> NoSource]
NoJob == [op |-> "none", from |-> NoSource, todo |-> <<>>, step |-> "none"]
HasRecord == base.record # NoSource

Busy(c) == job[c] # NoJob
Stage(c) == IF job[c].todo = <<>> THEN "none" ELSE Head(job[c].todo)
Freezes(c, step) == job[c].step = step

NewIdle(c) == At(c, "idle") /\ ~Busy(c)

-----------------------------------------------------------------------------
(* The stages of a job: the calls of new_target, the requests of a lane.   *)

Stages ==
  [new    |-> <<"ensureBase", "ensureEnv", "ensureStarted", "exec">>,
   studio |-> <<"freeze", "create", "start">>,
   lane   |-> <<"freeze", "create", "start">>,
   freeze |-> <<"freeze">>]

Begin(c, op, from) ==
  /\ NewIdle(c)
  /\ job' = [job EXCEPT ![c] = [op |-> op, from |-> from, todo |-> Stages[op], step |-> "none"]]
  /\ UNCHANGED <<vars, base, origin, cut>>

NextStage(c) ==
  job' = [job EXCEPT ![c] =
            IF Len(job[c].todo) = 1 THEN NoJob
            ELSE [op |-> job[c].op, from |-> job[c].from, todo |-> Tail(job[c].todo), step |-> "none"]]

EndJob(c) == job' = [job EXCEPT ![c] = NoJob]

\* ok_or_already_exists, which `agentctl studio` uses for the first two
\* requests and agent-studio for the freeze.
Tolerated(c) == job[c].op = "studio" \/ (job[c].op = "lane" /\ Stage(c) = "freeze")

AlreadyExists(c) == IF Tolerated(c) THEN NextStage(c) ELSE EndJob(c)

-----------------------------------------------------------------------------
(* base_freeze                                                             *)

FreezeGoto(c, step) == job' = [job EXCEPT ![c].step = step]

HasBase(c) ==
  /\ Stage(c) = "ensureBase" /\ Freezes(c, "none")
  /\ HasRecord
  /\ NextStage(c)
  /\ UNCHANGED <<vars, base, origin, cut>>

\* Mutant: the directory of an earlier freeze is used again.
FreezeCheckSkipped(c) ==
  /\ Freezes(c, "none")
  /\ Stage(c) = "freeze" \/ (Stage(c) = "ensureBase" /\ ~HasRecord)
  /\ FreezeGoto(c, "mkdir")
  /\ UNCHANGED <<vars, base, origin, cut>>

FreezeCheck(c) ==
  /\ Freezes(c, "none")
  /\ Stage(c) = "freeze" \/ (Stage(c) = "ensureBase" /\ ~HasRecord)
  /\ IF base.dir THEN AlreadyExists(c) ELSE FreezeGoto(c, "mkdir")
  /\ UNCHANGED <<vars, base, origin, cut>>

FreezeMkdir(c) ==
  /\ Freezes(c, "mkdir")
  /\ base' = [base EXCEPT !.dir = TRUE]
  /\ FreezeGoto(c, IF Backend = "Btrfs" THEN "snapshot" ELSE "record")
  /\ UNCHANGED <<vars, origin, cut>>

FreezeSnapshot(c) ==
  /\ Freezes(c, "snapshot")
  /\ base' = [base EXCEPT !.tree = "raw"]
  /\ FreezeGoto(c, "clean")
  /\ UNCHANGED <<vars, origin, cut>>

\* Mutant: the manifest is written before the tree is made read-only.
FreezeCleanRecorded(c) ==
  /\ Freezes(c, "clean")
  /\ base' = [base EXCEPT !.tree = "clean", !.record = job[c].from]
  /\ FreezeGoto(c, "readonly")
  /\ UNCHANGED <<vars, origin, cut>>

\* clean_runtime_paths: proc, sys, dev, run, tmp and agentfs are emptied.
FreezeClean(c) ==
  /\ Freezes(c, "clean")
  /\ base' = [base EXCEPT !.tree = "clean"]
  /\ FreezeGoto(c, "readonly")
  /\ UNCHANGED <<vars, origin, cut>>

FreezeReadonly(c) ==
  /\ Freezes(c, "readonly")
  /\ base' = [base EXCEPT !.tree = "frozen"]
  /\ FreezeGoto(c, "record")
  /\ UNCHANGED <<vars, origin, cut>>

\* dpkg.list, created_at and manifest.json.  A base of an overlay is the
\* source itself and has no tree of its own.
FreezeRecord(c) ==
  /\ Freezes(c, "record")
  /\ base' = [base EXCEPT !.record = job[c].from]
  /\ NextStage(c)
  /\ UNCHANGED <<vars, origin, cut>>

\* Mutant: a step that fails ends the request as it stands.
FreezeFailsAtOnce(c) ==
  /\ job[c].step \in {"mkdir", "snapshot", "clean", "readonly", "record"}
  /\ EndJob(c)
  /\ UNCHANGED <<vars, base, origin, cut>>

\* Any step may fail; only a failed mkdir is not cleaned up after.
FreezeFails(c) ==
  /\ \/ Freezes(c, "mkdir") /\ EndJob(c)
     \/ Freezes(c, "snapshot") /\ FreezeGoto(c, "remove")
     \/ job[c].step \in {"clean", "readonly", "record"}
        /\ FreezeGoto(c, IF Backend = "Btrfs" THEN "thaw" ELSE "remove")
  /\ UNCHANGED <<vars, base, origin, cut>>

\* cleanup_failed_base_freeze makes the subvolume writable and deletes it,
\* and goes on whether or not that works.
FreezeThaw(c) ==
  /\ Freezes(c, "thaw")
  /\ \E tree \in {base.tree, "none"} \cup (IF base.tree = "frozen" THEN {"clean"} ELSE {}) :
       base' = [base EXCEPT !.tree = tree]
  /\ FreezeGoto(c, "remove")
  /\ UNCHANGED <<vars, origin, cut>>

\* remove_dir_all, whose error is dropped too; it cannot empty a tree that
\* is read-only.
FreezeRemove(c) ==
  /\ Freezes(c, "remove")
  /\ \/ base.tree # "frozen" /\ base' = NoBase
     \/ base' = base
     \/ base.tree # "frozen" /\ base' = [base EXCEPT !.tree = "none"]
  /\ cut' = (cut \/ base'.dir)
  /\ EndJob(c)
  /\ UNCHANGED <<vars, origin>>

Freeze(c) ==
  \/ FreezeCheck(c) \/ FreezeMkdir(c) \/ FreezeSnapshot(c) \/ FreezeClean(c)
  \/ FreezeReadonly(c) \/ FreezeRecord(c)
  \/ FreezeFails(c) \/ FreezeThaw(c) \/ FreezeRemove(c)

-----------------------------------------------------------------------------
(* ensure_env and ensure_env_started, and the requests of a lane.  A stage *)
(* begins with the first step of the handler it calls.                     *)

\* env_create reads the base first.
CanCreate == HasRecord /\ ~dir

StageBegins(c) ==
  /\ \/ Stage(c) = "ensureEnv" /\ meta = NoMeta /\ HasRecord /\ CreateCheck(c)
     \/ Stage(c) = "create" /\ HasRecord /\ CreateCheck(c)
     \/ Stage(c) = "ensureStarted" /\ StatusRead(c)
     \/ Stage(c) = "start" /\ StartRead(c)
     \/ Stage(c) = "exec" /\ ExecRead(c)
  /\ UNCHANGED <<base, job, origin, cut>>

\* The env is there, or the stage cannot begin.
StageEndsAtOnce(c) ==
  /\ At(c, "idle")
  /\ \/ Stage(c) = "ensureEnv" /\ meta # NoMeta /\ NextStage(c)
     \/ Stage(c) = "ensureEnv" /\ meta = NoMeta /\ ~CanCreate /\ EndJob(c)
     \/ Stage(c) = "create" /\ HasRecord /\ dir /\ AlreadyExists(c)
     \/ Stage(c) = "create" /\ ~HasRecord /\ EndJob(c)
     \/ Stage(c) \in {"ensureStarted", "start", "exec"} /\ meta = NoMeta /\ EndJob(c)
     \/ Stage(c) = "exec" /\ meta # NoMeta /\ meta.state # "Running" /\ EndJob(c)
  /\ UNCHANGED <<vars, base, origin, cut>>

\* Mutant: the env is started whatever its status.
EnsureStartedAlways(c) ==
  job' = [job EXCEPT ![c].todo = <<"start">> \o Tail(@)]

\* ensure_env_started, with the status that env_status has just returned.
EnsureStarted(c) ==
  CASE req[c].env.state = "Running" -> NextStage(c)
    [] req[c].env.state \in {"Created", "Stopped"} ->
         job' = [job EXCEPT ![c].todo = <<"start">> \o Tail(@)]
    [] OTHER -> EndJob(c)

HandlerSucceeds(c) ==
  /\ CreateCommit(c) \/ WriteBack(c)
  /\ IF Stage(c) = "ensureStarted" THEN EnsureStarted(c) ELSE NextStage(c)

HandlerFails(c) ==
  /\ RequestFails(c) \/ StartFail(c) \/ CleanRmdir(c)
  /\ EndJob(c)

HandlerGoesOn(c) ==
  /\ ~At(c, "idle")
  /\ Handler(c)
  /\ ~At(c, "idle")'
  /\ UNCHANGED job

\* A request by itself, which is no part of a job.
PlainRequest(c) ==
  /\ ~Busy(c)
  /\ Handler(c)
  /\ (At(c, "idle") /\ At(c, "createMkdir")') => HasRecord
  /\ UNCHANGED job

-----------------------------------------------------------------------------
(* What the steps of the env mean for the base and the histories.          *)

\* The env's subvolume is a snapshot of the base's.
Origin(c) ==
  origin' = IF At(c, "createRootfs") /\ rootfs' # rootfs THEN base ELSE origin

Removes(c) == req[c].pc \in {"cleanRmdir", "destroyContents", "destroyRmdir"}

\* A removal that ends its request with the directory still there.
Cut(c) == cut' = (cut \/ (Removes(c) /\ At(c, "idle")' /\ dir'))

EnvStep(c) ==
  /\ \/ PlainRequest(c)
     \/ Busy(c) /\ (HandlerSucceeds(c) \/ HandlerFails(c) \/ HandlerGoesOn(c))
  /\ Origin(c)
  /\ Cut(c)
  /\ UNCHANGED base

\* Steps of env_create and env_destroy between which the directory is there
\* without a record.
Between == {"createRootfs", "createConfig", "createCommit", "destroyRmdir",
            "cleanRootfs", "cleanSubvol", "cleanQgroup", "cleanContents", "cleanRmdir"}

NewCrash ==
  /\ Crash
  /\ job' = [c \in Clients |-> NoJob]
  /\ cut' = (cut \/ \E c \in Clients : job[c].step # "none" \/ req[c].pc \in Between)
  /\ UNCHANGED <<base, origin>>

NewInit ==
  /\ Init
  /\ base = NoBase
  /\ job = [c \in Clients |-> NoJob]
  /\ origin = NoBase
  /\ cut = FALSE

NewStep(c) ==
  \/ \E op \in NewOps, from \in Sources : Begin(c, op, from)
  \/ HasBase(c) \/ Freeze(c)
  \/ StageBegins(c) \/ StageEndsAtOnce(c)
  \/ EnvStep(c)

NewNext ==
  \/ \E c \in Clients : NewStep(c)
  \/ /\ MachineBoots \/ MachineExits \/ DiskUseChanges \/ TimePasses
     /\ UNCHANGED <<base, job, origin, cut>>
  \/ NewCrash

NewSpec == NewInit /\ [][NewNext]_newVars

\* What has begun goes on, and a client that repeats its destroy does not have
\* the same step fail every time.
NewInFlight(c) == ~NewIdle(c) /\ NewStep(c)

DestroyIsRetried(c) ==
  /\ SF_newVars(DestroyRead(c) /\ EnvStep(c))
  /\ SF_newVars(DestroyMachine(c) /\ EnvStep(c))
  /\ SF_newVars(DestroyRootfs(c) /\ EnvStep(c))
  /\ SF_newVars(DestroySubvol(c) /\ EnvStep(c))
  /\ SF_newVars(DestroyQgroup(c) /\ EnvStep(c))
  /\ SF_newVars(DestroyConfig(c) /\ EnvStep(c))
  /\ SF_newVars(DestroyContents(c) /\ EnvStep(c))

RetrySpec ==
  NewSpec /\ \A c \in Clients : WF_newVars(NewInFlight(c)) /\ DestroyIsRetried(c)

-----------------------------------------------------------------------------
(* Properties                                                              *)

\* An env is made only of a base whose freeze has come to its end: cleaned,
\* read-only and recorded, whatever was cut off or failed before.
EnvFromFrozenBase ==
  Backend = "Btrfs" /\ rootfs # 0 => origin.tree = "frozen" /\ origin.record # NoSource

\* A base that has been recorded stays as it is: neither a later freeze nor
\* the cleanup of one that failed touches it.
BaseIsFinal == [][HasRecord => base' = base]_newVars

\* A `new`, freeze or lane that failed can be repeated: unless something was
\* killed, or could not be removed, no directory is left without its record,
\* which every later create or freeze would take for what it should make.
NewCanBeRepeated ==
  (~cut /\ \A c \in Clients : NewIdle(c)) =>
    /\ base.dir => HasRecord
    /\ dir => meta # NoMeta

\* A `new` of an env that is recorded as running enters it; it does not stop
\* its machine, unless the env has been idle for too long.
NewSparesRunning ==
  [][\A c \in Clients :
       (/\ job[c].op = "new" /\ req[c].pc = "startStopUnit"
        /\ machine = "running" /\ req'[c] # req[c] /\ crashes' = crashes)
       => meta.state # "Running"]_newVars
=============================================================================
