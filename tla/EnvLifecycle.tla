---------------------------- MODULE EnvLifecycle ----------------------------
(***************************************************************************)
(* The life of one environment of the Linux backend (AgentService in       *)
(* agent-core/src/service.rs): create, start, stop, destroy, status, exec, *)
(* diff and export.  agent-forkd spawns one task per client connection and *)
(* no handler takes a lock, so every handler is a read of meta.json, some  *)
(* external commands, and a write of the possibly stale copy it read; the  *)
(* handlers of different clients interleave at every await.                *)
(*                                                                         *)
(* One environment is enough: every path, unit, machine and config name a  *)
(* handler touches is a function of the env id.                            *)
(*                                                                         *)
(* A step of a handler is one action.  A log append is part of the step    *)
(* that follows or precedes it; what matters of it is that it creates the  *)
(* missing directories up to the log file (CommandRunner::append_to_file). *)
(* A metadata write that fails is taken to fail before its rename.         *)
(***************************************************************************)
EXTENDS Naturals

CONSTANTS
  Clients,      \* connections to agent-forkd, each with one request at a time
  Sessions,     \* session ids, for the index kept in meta.json
  Backend,      \* RootfsBackend of the env: "Btrfs" or "Overlay"
  Ops,          \* the requests the clients issue
  HasTimeout,   \* limits.idle_timeout is not "unlimited"
  MaxCrashes,   \* bound: restarts of the daemon or of the host
  MaxSubvols,   \* bound: snapshots ever taken for this env
  NoMeta        \* meta.json is missing

ASSUME BackendAssumption == Backend \in {"Btrfs", "Overlay"}
ASSUME BoundsAssumption ==
  /\ MaxCrashes \in Nat
  /\ MaxSubvols \in Nat \ {0}
  /\ HasTimeout \in BOOLEAN

EnvState == {"Created", "Running", "Stopped", "Failed", "QuotaExceeded"}

\* model.rs Env, cut down to the fields handlers change.  fresh says that
\* last_active_at is younger than the idle timeout.
EnvRecord == [state : EnvState, fresh : BOOLEAN, sessions : SUBSET Sessions]

ASSUME NoMetaAssumption == NoMeta \notin EnvRecord

VARIABLES
  dir,       \* envs/<id> exists
  meta,      \* content of envs/<id>/meta.json, or NoMeta
  rootfs,    \* Btrfs: id of the subvolume; Overlay: 1 if it is mounted; or 0
  nested,    \* Btrfs: a second snapshot landed inside the subvolume
  lastId,    \* Btrfs: the id of the subvolume made last
  qgroups,   \* Btrfs: the qgroups of subvolumes of this env, past and present
  config,    \* /etc/systemd/nspawn/<machine>.nspawn exists
  machine,   \* the nspawn unit: "absent", "starting" or "running"
  overQuota, \* the subvolume has reached its limit
  req,       \* per client: the next step of its request and its copy of Env
  crashes

vars == <<dir, meta, rootfs, nested, lastId, qgroups, config, machine, overQuota, req, crashes>>

volumes == <<nested, lastId, qgroups>>

resources == <<rootfs, nested, lastId, qgroups, config, machine, overQuota, crashes>>

-----------------------------------------------------------------------------
(* Requests in flight.                                                     *)

Idle == [pc |-> "idle", env |-> NoMeta, qgroup |-> 0]

At(c, label) == req[c].pc = label

AllIdle == \A c \in Clients : At(c, "idle")

GotoWith(c, label, env, qgroup) ==
  req' = [req EXCEPT ![c] = [pc |-> label, env |-> env, qgroup |-> qgroup]]

Goto(c, label, env) == GotoWith(c, label, env, 0)

Done(c) == req' = [req EXCEPT ![c] = Idle]

\* The first step of a handler: read_env.  A read that fails is an error
\* reply and changes nothing.
ReadEnv(c, op, label) ==
  /\ op \in Ops
  /\ At(c, "idle")
  /\ meta # NoMeta
  /\ Goto(c, label, meta)
  /\ UNCHANGED <<dir, meta, resources>>

\* write_env replaces meta.json as a whole; write_json creates the missing
\* directories first.
WriteEnv(env) ==
  /\ dir' = TRUE
  /\ meta' = env

-----------------------------------------------------------------------------
(* The pure decisions of the handlers.                                     *)

\* Mutant: the terminal states are refreshed as well.
RefreshEveryState(state) == state \in EnvState

ShouldRefreshLiveState(state) == state \in {"Created", "Running", "Stopped"}

ShouldCheckQuota(state) == state \notin {"Failed", "QuotaExceeded"}

ShouldMarkStopped(state) == state \in {"Created", "Running", "Stopped"}

ApplyStopped(env) ==
  IF ShouldMarkStopped(env.state) THEN [env EXCEPT !.state = "Stopped"] ELSE env

MarkActive(env) == [env EXCEPT !.fresh = TRUE]

\* Mutant: the word machinectl prints is recorded as it stands.
RawMachineState == machine

\* What machinectl show reports: a machine that is missing or in another
\* state than running counts as stopped.
LiveState == IF machine = "running" THEN "Running" ELSE "Stopped"

IdleExpired(env) == HasTimeout /\ env.state = "Running" /\ ~env.fresh

-----------------------------------------------------------------------------
(* env_create.  The existence check, the mkdir and every later step are    *)
(* separate awaits, so two creates of one id can both pass the check.      *)

CreateCheck(c) ==
  /\ "create" \in Ops
  /\ At(c, "idle")
  /\ ~dir
  /\ Goto(c, "createMkdir", NoMeta)
  /\ UNCHANGED <<dir, meta, resources>>

CreateMkdir(c) ==
  /\ At(c, "createMkdir")
  /\ dir' = TRUE
  /\ Goto(c, "createRootfs", NoMeta)
  /\ UNCHANGED <<meta, resources>>

\* A snapshot is taken into an existing directory; where the subvolume is
\* there already, the new one lands inside it.
Snapshot ==
  /\ dir
  /\ ~nested
  /\ lastId < MaxSubvols
  /\ lastId' = lastId + 1
  /\ qgroups' = qgroups \cup {lastId'}
  /\ IF rootfs = 0
       THEN rootfs' = lastId' /\ overQuota' = FALSE /\ UNCHANGED nested
       ELSE nested' = TRUE /\ UNCHANGED <<rootfs, overQuota>>
  /\ UNCHANGED dir

CreateRootfs(c) ==
  /\ At(c, "createRootfs")
  /\ IF Backend = "Btrfs"
       THEN Snapshot
       ELSE dir' = TRUE /\ UNCHANGED <<rootfs, volumes, overQuota>>
  /\ Goto(c, "createConfig", NoMeta)
  /\ UNCHANGED <<meta, config, machine, crashes>>

\* set_limit, ensure_env_dirs, the two log lines and the .nspawn file.
CreateConfig(c) ==
  /\ At(c, "createConfig")
  /\ dir' = TRUE
  /\ config' = TRUE
  /\ Goto(c, "createCommit", NoMeta)
  /\ UNCHANGED <<meta, rootfs, volumes, machine, overQuota, crashes>>

CreateCommit(c) ==
  /\ At(c, "createCommit")
  /\ WriteEnv([state |-> "Created", fresh |-> TRUE, sessions |-> {}])
  /\ Done(c)
  /\ UNCHANGED resources

\* A step that fails sends the request to the cleanup; only a failed
\* write_env takes the .nspawn file away first.
CreateFails(c) ==
  /\ \/ /\ At(c, "createRootfs")
        /\ Goto(c, "cleanContents", NoMeta)
        /\ UNCHANGED <<dir, config>>
     \/ /\ At(c, "createConfig")
        /\ dir' \in {dir, TRUE}
        /\ Goto(c, "cleanRootfs", NoMeta)
        /\ UNCHANGED config
     \/ /\ At(c, "createCommit")
        /\ dir' \in {dir, TRUE}
        /\ config' = FALSE
        /\ Goto(c, "cleanRootfs", NoMeta)
  /\ UNCHANGED <<meta, rootfs, volumes, machine, overQuota, crashes>>

\* cleanup_failed_env_create drops the errors of its own steps.  It asks for
\* the qgroup id, deletes the subvolume, and destroys the qgroup, which
\* Btrfs refuses (busy) while the subvolume lives.
CleanRootfs(c) ==
  /\ At(c, "cleanRootfs")
  /\ IF Backend = "Btrfs"
       THEN \E id \in {0, rootfs} : GotoWith(c, "cleanSubvol", NoMeta, id)
       ELSE Goto(c, "cleanContents", NoMeta)
  /\ UNCHANGED <<dir, meta, resources>>

\* A subvolume with another one inside cannot be deleted.
DeleteSubvolume ==
  /\ ~nested
  /\ rootfs' = 0

CleanSubvol(c) ==
  /\ At(c, "cleanSubvol")
  /\ DeleteSubvolume \/ UNCHANGED rootfs
  /\ GotoWith(c, "cleanQgroup", NoMeta, req[c].qgroup)
  /\ UNCHANGED <<dir, meta, volumes, config, machine, overQuota, crashes>>

CleanQgroup(c) ==
  /\ At(c, "cleanQgroup")
  /\ \/ /\ req[c].qgroup # rootfs
        /\ qgroups' = qgroups \ {req[c].qgroup}
     \/ UNCHANGED qgroups
  /\ Goto(c, "cleanContents", NoMeta)
  /\ UNCHANGED <<dir, meta, rootfs, nested, lastId, config, machine, overQuota, crashes>>

\* remove_dir_all empties the tree first, left-over subvolumes with it; it
\* cannot remove the mount point of a mounted overlay.
RemoveContents ==
  /\ meta' = NoMeta
  /\ rootfs' = (IF Backend = "Overlay" THEN rootfs ELSE 0)
  /\ nested' = FALSE

CleanContents(c) ==
  /\ At(c, "cleanContents")
  /\ \/ RemoveContents
     \/ UNCHANGED <<meta, rootfs, nested>>
  /\ Goto(c, "cleanRmdir", NoMeta)
  /\ UNCHANGED <<dir, lastId, qgroups, config, machine, overQuota, crashes>>

Rmdir ==
  /\ meta = NoMeta
  /\ rootfs = 0
  /\ dir' = FALSE

CleanRmdir(c) ==
  /\ At(c, "cleanRmdir")
  /\ Rmdir \/ UNCHANGED dir
  /\ Done(c)
  /\ UNCHANGED <<meta, resources>>

-----------------------------------------------------------------------------
(* env_start with Nspawn::start.  It does not look at the recorded state:  *)
(* a running machine is stopped and launched again.                        *)

StartRead(c) == ReadEnv(c, "start", "startPrep")

\* Overlay mount, preflight of the child rootfs, mask targets, hostname and
\* network files.
StartPrep(c) ==
  /\ At(c, "startPrep")
  /\ dir' = TRUE
  /\ rootfs' \in (IF Backend = "Overlay" THEN {rootfs, 1} ELSE {rootfs})
  /\ \/ rootfs' # 0 /\ Goto(c, "startStopUnit", req[c].env)
     \/ Goto(c, "startFail", req[c].env)
  /\ UNCHANGED <<meta, volumes, config, machine, overQuota, crashes>>

StartStopUnit(c) ==
  /\ At(c, "startStopUnit")
  /\ \/ machine' = "absent" /\ Goto(c, "startRun", req[c].env)
     \/ machine' \in {machine, "absent"} /\ Goto(c, "startFail", req[c].env)
  /\ UNCHANGED <<dir, meta, rootfs, volumes, config, overQuota, crashes>>

\* systemd-run refuses a unit name that is in use.
StartRun(c) ==
  /\ At(c, "startRun")
  /\ config' \in {config, TRUE}
  /\ \/ /\ config'
        /\ machine = "absent"
        /\ machine' = "starting"
        /\ Goto(c, "startWait", req[c].env)
     \/ Goto(c, "startFail", req[c].env) /\ UNCHANGED machine
  /\ UNCHANGED <<dir, meta, rootfs, volumes, overQuota, crashes>>

\* wait_until_running and wait_until_shell_ready poll the machine name and
\* may give up at any time; the machine they leave keeps running.
StartWait(c) ==
  /\ At(c, "startWait")
  /\ \/ /\ machine = "running"
        /\ dir' = TRUE
        /\ Goto(c, "startWrite", [MarkActive(req[c].env) EXCEPT !.state = "Running"])
     \/ Goto(c, "startFail", req[c].env) /\ UNCHANGED dir
  /\ UNCHANGED <<meta, resources>>

StartFail(c) ==
  /\ At(c, "startFail")
  /\ WriteEnv([req[c].env EXCEPT !.state = "Failed"])
  /\ Done(c)
  /\ UNCHANGED resources

-----------------------------------------------------------------------------
(* env_stop                                                                *)

StopRead(c) == ReadEnv(c, "stop", "stopMachine")

StopMachine(c) ==
  /\ At(c, "stopMachine")
  /\ dir' = TRUE
  /\ machine' = "absent"
  /\ Goto(c, "stopCheck", req[c].env)
  /\ UNCHANGED <<meta, rootfs, volumes, config, overQuota, crashes>>

\* The rootfs after umount_overlay_rootfs.
Unmounted == IF Backend = "Overlay" THEN 0 ELSE rootfs

\* The machine may have been started again by somebody else: then the
\* request fails (RequestFails) and the recorded state stays.
StopCheck(c) ==
  /\ At(c, "stopCheck")
  /\ LiveState # "Running"
  /\ dir' = TRUE
  /\ rootfs' = Unmounted
  /\ Goto(c, "stopWrite", ApplyStopped(req[c].env))
  /\ UNCHANGED <<meta, volumes, config, machine, overQuota, crashes>>

-----------------------------------------------------------------------------
(* env_destroy.  The directory, and with it meta.json, goes last; a retry  *)
(* finds what is already gone and goes on.                                 *)

DestroyRead(c) == ReadEnv(c, "destroy", "destroyMachine")

\* Mutant: the result of machinectl terminate and systemctl stop is dropped.
DestroyMachineUnchecked(c) ==
  /\ At(c, "destroyMachine")
  /\ dir' = TRUE
  /\ Goto(c, "destroyRootfs", req[c].env)
  /\ UNCHANGED <<meta, rootfs, volumes, config, machine, overQuota, crashes>>

DestroyMachine(c) ==
  /\ At(c, "destroyMachine")
  /\ dir' = TRUE
  /\ machine' = "absent"
  /\ Goto(c, "destroyRootfs", req[c].env)
  /\ UNCHANGED <<meta, rootfs, volumes, config, overQuota, crashes>>

\* Btrfs: qgroup_id, which finds nothing when the subvolume is gone.
DestroyRootfs(c) ==
  /\ At(c, "destroyRootfs")
  /\ IF Backend = "Btrfs"
       THEN GotoWith(c, "destroySubvol", req[c].env, rootfs)
       ELSE Goto(c, "destroyConfig", req[c].env)
  /\ rootfs' = Unmounted
  /\ UNCHANGED <<dir, meta, volumes, config, machine, overQuota, crashes>>

\* delete_subvolume takes a missing subvolume for a deleted one.
DestroySubvolNext(c) ==
  IF req[c].qgroup = 0
    THEN Goto(c, "destroyConfig", req[c].env)
    ELSE GotoWith(c, "destroyQgroup", req[c].env, req[c].qgroup)

\* Mutant: a missing subvolume is an error.
DestroySubvolStrict(c) ==
  /\ At(c, "destroySubvol")
  /\ rootfs # 0
  /\ DeleteSubvolume
  /\ DestroySubvolNext(c)
  /\ UNCHANGED <<dir, meta, volumes, config, machine, overQuota, crashes>>

\* Mutant: a subvolume that cannot be deleted is passed over.
DestroySubvolLenient(c) ==
  /\ At(c, "destroySubvol")
  /\ DeleteSubvolume \/ UNCHANGED rootfs
  /\ DestroySubvolNext(c)
  /\ UNCHANGED <<dir, meta, volumes, config, machine, overQuota, crashes>>

DestroySubvol(c) ==
  /\ At(c, "destroySubvol")
  /\ DeleteSubvolume
  /\ DestroySubvolNext(c)
  /\ UNCHANGED <<dir, meta, volumes, config, machine, overQuota, crashes>>

DestroyQgroup(c) ==
  /\ At(c, "destroyQgroup")
  /\ qgroups' = qgroups \ {req[c].qgroup}
  /\ Goto(c, "destroyConfig", req[c].env)
  /\ UNCHANGED <<dir, meta, rootfs, nested, lastId, config, machine, overQuota, crashes>>

\* Mutant: the .nspawn file is left where it is.
DestroyConfigSkipped(c) ==
  /\ At(c, "destroyConfig")
  /\ Goto(c, "destroyContents", req[c].env)
  /\ UNCHANGED <<dir, meta, rootfs, volumes, config, machine, overQuota, crashes>>

DestroyConfig(c) ==
  /\ At(c, "destroyConfig")
  /\ config' = FALSE
  /\ Goto(c, "destroyContents", req[c].env)
  /\ UNCHANGED <<dir, meta, rootfs, volumes, machine, overQuota, crashes>>

DestroyContents(c) ==
  /\ At(c, "destroyContents")
  /\ RemoveContents
  /\ Goto(c, "destroyRmdir", req[c].env)
  /\ UNCHANGED <<dir, lastId, qgroups, config, machine, overQuota, crashes>>

DestroyRmdir(c) ==
  /\ At(c, "destroyRmdir")
  /\ Rmdir
  /\ Done(c)
  /\ UNCHANGED <<meta, resources>>

-----------------------------------------------------------------------------
(* env_status; env_list is env_status for every listed env.                *)

StatusRead(c) == ReadEnv(c, "status", "statusRefresh")

\* Mutant: a machine that machinectl does not know is no news.
RefreshedWhenKnown(env) ==
  IF ShouldRefreshLiveState(env.state) /\ machine # "absent"
    THEN [env EXCEPT !.state = LiveState]
    ELSE env

\* Nspawn::refresh_state, for the states that a refresh may change.
Refreshed(env) ==
  IF ShouldRefreshLiveState(env.state) THEN [env EXCEPT !.state = LiveState] ELSE env

StatusRefresh(c) ==
  /\ At(c, "statusRefresh")
  /\ LET env == Refreshed(req[c].env)
     IN Goto(c, IF IdleExpired(env) THEN "statusIdle" ELSE "statusQuota", env)
  /\ UNCHANGED <<dir, meta, resources>>

StatusIdle(c) ==
  /\ At(c, "statusIdle")
  /\ dir' = TRUE
  /\ machine' = "absent"
  /\ Goto(c, "statusQuota", ApplyStopped(req[c].env))
  /\ UNCHANGED <<meta, rootfs, volumes, config, overQuota, crashes>>

\* quota_exceeded fails when there is no subvolume to ask about.
QuotaMarked(env) ==
  IF overQuota THEN [env EXCEPT !.state = "QuotaExceeded"] ELSE env

StatusQuota(c) ==
  /\ At(c, "statusQuota")
  /\ IF Backend = "Btrfs" /\ ShouldCheckQuota(req[c].env.state)
       THEN /\ rootfs # 0
            /\ dir' = (dir \/ overQuota)
            /\ Goto(c, "statusWrite", QuotaMarked(req[c].env))
       ELSE /\ Goto(c, "statusWrite", req[c].env)
            /\ UNCHANGED dir
  /\ UNCHANGED <<meta, resources>>

-----------------------------------------------------------------------------
(* exec.  The command may run for as long as it likes; when the machine is *)
(* gone machinectl fails, and the request goes on with that exit status.   *)

ExecRead(c) ==
  /\ ReadEnv(c, "exec", "execLog")
  /\ meta.state = "Running"

ExecLog(c) ==
  /\ At(c, "execLog")
  /\ dir' = TRUE
  /\ Goto(c, "execCmd", req[c].env)
  /\ UNCHANGED <<meta, resources>>

ExecCmd(c) ==
  /\ At(c, "execCmd")
  /\ dir' = TRUE
  /\ IF Backend = "Btrfs"
       THEN rootfs # 0 /\ Goto(c, "execWrite", QuotaMarked(MarkActive(req[c].env)))
       ELSE Goto(c, "execWrite", MarkActive(req[c].env))
  /\ UNCHANGED <<meta, resources>>

-----------------------------------------------------------------------------
(* diff and export: mount an overlay if need be, write the artifact.       *)

TouchRead(c) == ReadEnv(c, "diff", "touchMount")

TouchMount(c) ==
  /\ At(c, "touchMount")
  /\ IF Backend = "Overlay"
       THEN dir' = TRUE /\ rootfs' = 1
       ELSE dir' \in {dir, TRUE} /\ UNCHANGED rootfs
  /\ Goto(c, "touchWrite", MarkActive(req[c].env))
  /\ UNCHANGED <<meta, volumes, config, machine, overQuota, crashes>>

-----------------------------------------------------------------------------
(* The last step of most handlers: the copy read at the start is written   *)
(* back, whatever has been written in between.                             *)

WriteSteps == {"startWrite", "stopWrite", "statusWrite", "execWrite", "touchWrite"}

WriteBack(c) ==
  /\ req[c].pc \in WriteSteps
  /\ WriteEnv(req[c].env)
  /\ Done(c)
  /\ UNCHANGED resources

-----------------------------------------------------------------------------
(* A step that fails ends its request with an error reply, and leaves what *)
(* it had done by then: a directory made for a log line, a stopped         *)
(* machine, a mounted or unmounted overlay, a half-removed tree.           *)

StopSteps == {"stopMachine", "destroyMachine", "statusIdle"}

LogSteps == StopSteps \cup WriteSteps
            \cup {"stopCheck", "statusQuota", "execLog", "execCmd", "touchMount", "startFail"}

DestroySteps == {"destroyRootfs", "destroySubvol", "destroyQgroup", "destroyConfig",
                 "destroyContents", "destroyRmdir"}

\* A status request of a terminal env asks neither machinectl nor btrfs.
CanFail(c) ==
  CASE At(c, "statusRefresh") -> ShouldRefreshLiveState(req[c].env.state)
    [] At(c, "statusQuota") -> Backend = "Btrfs" /\ ShouldCheckQuota(req[c].env.state)
    [] OTHER -> req[c].pc \in LogSteps \cup DestroySteps \cup {"createMkdir"}

RequestFails(c) ==
  /\ CanFail(c)
  /\ dir' \in (IF req[c].pc \in LogSteps THEN {dir, TRUE} ELSE {dir})
  /\ machine' \in (IF req[c].pc \in StopSteps THEN {machine, "absent"} ELSE {machine})
  /\ meta' \in (IF At(c, "destroyContents") THEN {meta, NoMeta} ELSE {meta})
  /\ rootfs' \in (IF At(c, "stopCheck") THEN {rootfs, Unmounted}
                  ELSE IF At(c, "touchMount") /\ Backend = "Overlay" THEN {rootfs, 1}
                  ELSE {rootfs})
  /\ rootfs' # 0 => dir'
  /\ Done(c)
  /\ UNCHANGED <<volumes, config, overQuota, crashes>>

-----------------------------------------------------------------------------
(* What happens outside the handlers.                                      *)

MachineBoots ==
  /\ machine = "starting"
  /\ rootfs # 0
  /\ machine' = "running"
  /\ UNCHANGED <<dir, meta, rootfs, volumes, config, overQuota, req, crashes>>

\* RuntimeMaxSec, a shutdown from inside, a boot that fails.
MachineExits ==
  /\ machine # "absent"
  /\ machine' = "absent"
  /\ UNCHANGED <<dir, meta, rootfs, volumes, config, overQuota, req, crashes>>

DiskUseChanges ==
  /\ Backend = "Btrfs"
  /\ machine = "running"
  /\ rootfs # 0
  /\ overQuota' = ~overQuota
  /\ UNCHANGED <<dir, meta, rootfs, volumes, config, machine, req, crashes>>

\* The idle timeout goes by: every last_active_at recorded so far is old.
Aged(env) == IF env = NoMeta THEN NoMeta ELSE [env EXCEPT !.fresh = FALSE]

TimePasses ==
  /\ HasTimeout
  /\ meta' = Aged(meta)
  /\ req' = [c \in Clients |-> [req[c] EXCEPT !.env = Aged(@)]]
  /\ UNCHANGED <<dir, resources>>

\* The daemon dies and its requests with it; machines and files stay.  When
\* the host goes down, machines and mounts go too.
Crash ==
  /\ crashes < MaxCrashes
  /\ crashes' = crashes + 1
  /\ req' = [c \in Clients |-> Idle]
  /\ \/ UNCHANGED <<machine, rootfs>>
     \/ /\ machine' = "absent"
        /\ rootfs' = Unmounted
  /\ UNCHANGED <<dir, meta, volumes, config, overQuota>>

-----------------------------------------------------------------------------
Init ==
  /\ dir = FALSE
  /\ meta = NoMeta
  /\ rootfs = 0
  /\ nested = FALSE
  /\ lastId = 0
  /\ qgroups = {}
  /\ config = FALSE
  /\ machine = "absent"
  /\ overQuota = FALSE
  /\ req = [c \in Clients |-> Idle]
  /\ crashes = 0

Create(c) ==
  \/ CreateCheck(c) \/ CreateMkdir(c) \/ CreateRootfs(c) \/ CreateConfig(c)
  \/ CreateCommit(c) \/ CreateFails(c)
  \/ CleanRootfs(c) \/ CleanSubvol(c) \/ CleanQgroup(c) \/ CleanContents(c) \/ CleanRmdir(c)

Start(c) ==
  \/ StartRead(c) \/ StartPrep(c) \/ StartStopUnit(c) \/ StartRun(c)
  \/ StartWait(c) \/ StartFail(c)

Stop(c) == StopRead(c) \/ StopMachine(c) \/ StopCheck(c)

Destroy(c) ==
  \/ DestroyRead(c) \/ DestroyMachine(c) \/ DestroyRootfs(c) \/ DestroySubvol(c)
  \/ DestroyQgroup(c) \/ DestroyConfig(c) \/ DestroyContents(c) \/ DestroyRmdir(c)

Status(c) == StatusRead(c) \/ StatusRefresh(c) \/ StatusIdle(c) \/ StatusQuota(c)

Exec(c) == ExecRead(c) \/ ExecLog(c) \/ ExecCmd(c)

Touch(c) == TouchRead(c) \/ TouchMount(c)

Handler(c) ==
  \/ Create(c) \/ Start(c) \/ Stop(c) \/ Destroy(c) \/ Status(c) \/ Exec(c) \/ Touch(c)
  \/ WriteBack(c) \/ RequestFails(c)

Environment == MachineBoots \/ MachineExits \/ DiskUseChanges \/ TimePasses \/ Crash

Next == (\E c \in Clients : Handler(c)) \/ Environment

Spec == Init /\ [][Next]_vars

-----------------------------------------------------------------------------
(* Fairness.  Requests in flight go on, to a reply or to an error: tokio   *)
(* runs every task.  Beyond that each liveness property assumes a client   *)
(* that repeats its request and external commands that do not fail every   *)
(* time.                                                                   *)

\* An env in place, as env_create leaves it, which does not mount an overlay,
\* or as env_start does.
EnvInPlace(state, unit) ==
  /\ dir = TRUE
  /\ meta = [state |-> state, fresh |-> TRUE, sessions |-> {}]
  /\ rootfs = (IF Backend = "Btrfs" \/ unit = "running" THEN 1 ELSE 0)
  /\ nested = FALSE
  /\ lastId = (IF Backend = "Btrfs" THEN 1 ELSE 0)
  /\ qgroups = (IF Backend = "Btrfs" THEN {1} ELSE {})
  /\ config = TRUE
  /\ machine = unit
  /\ overQuota = FALSE
  /\ req = [c \in Clients |-> Idle]
  /\ crashes = 0

\* It is used and polled, has no idle timeout, and is not destroyed meanwhile.
PolledInit == EnvInPlace("Created", "absent")

Use(c) ==
  \/ Start(c) \/ Stop(c) \/ StatusRead(c) \/ StatusRefresh(c) \/ StatusQuota(c)
  \/ Exec(c) \/ Touch(c) \/ WriteBack(c) \/ RequestFails(c)

PolledNext == (\E c \in Clients : Use(c)) \/ MachineBoots \/ MachineExits

InFlight(c) == ~At(c, "idle") /\ Use(c)

StatusIsPolled(c) ==
  /\ SF_vars(StatusRead(c))
  /\ SF_vars(StatusRefresh(c))
  /\ SF_vars(StatusQuota(c))
  /\ SF_vars(At(c, "statusWrite") /\ WriteBack(c))

PollSpec ==
  /\ PolledInit /\ [][PolledNext]_vars
  /\ \A c \in Clients : WF_vars(InFlight(c)) /\ StatusIsPolled(c)

-----------------------------------------------------------------------------
(* Properties.                                                             *)

\* Steps of the session requests (EnvSessions), which share req.
SessionSteps == {"sessRead", "sessProbe", "shellCreate", "sessTmux", "sessFile", "shellIndex",
                 "shellReread", "markStopped", "markRunning", "detachTmux", "killTmux",
                 "killMark", "listLive", "listFiles", "listMark"}

Labels == {"idle"}
  \cup {"createMkdir", "createRootfs", "createConfig", "createCommit"}
  \cup {"cleanRootfs", "cleanSubvol", "cleanQgroup", "cleanContents", "cleanRmdir"}
  \cup {"startPrep", "startStopUnit", "startRun", "startWait", "startFail"}
  \cup {"stopMachine", "stopCheck", "destroyMachine"} \cup DestroySteps
  \cup {"statusRefresh", "statusIdle", "statusQuota", "execLog", "execCmd", "touchMount"}
  \cup WriteSteps \cup SessionSteps

\* Steps of a request that has no copy of the metadata.
Unread == {"idle", "createMkdir", "createRootfs", "createConfig", "createCommit",
           "cleanRootfs", "cleanSubvol", "cleanQgroup", "cleanContents", "cleanRmdir"}

SubvolIds == 1..MaxSubvols

Request == {r \in [pc : Labels, env : EnvRecord \cup {NoMeta}, qgroup : 0..MaxSubvols] :
              r.env = NoMeta <=> r.pc \in Unread}

StoreOK ==
  /\ dir \in BOOLEAN
  /\ meta \in EnvRecord \cup {NoMeta}
  /\ rootfs \in 0..MaxSubvols
  /\ nested \in BOOLEAN
  /\ lastId \in 0..MaxSubvols
  /\ qgroups \subseteq SubvolIds
  /\ config \in BOOLEAN
  /\ machine \in {"absent", "starting", "running"}
  /\ overQuota \in BOOLEAN
  /\ crashes \in 0..MaxCrashes

\* Every variable has its type, and a request holds a copy of the metadata
\* exactly from its read_env on.
TypeOK ==
  /\ StoreOK
  /\ req \in [Clients -> Request]

\* With one request at a time, and restarts at any point: a machine that is
\* there between requests has a meta.json, without which env_stop and
\* env_destroy could not reach it (env_destroy removes it last).
MachineHasRecord == AllIdle /\ machine # "absent" => meta # NoMeta

\* With one request at a time: once the env directory is gone, whichever way
\* (env_destroy, or the cleanup of a failed env_create), so are the machine,
\* the subvolume or mount and the .nspawn file.
DestroyedLeavesNothing ==
  AllIdle /\ ~dir => machine = "absent" /\ rootfs = 0 /\ ~config

Terminal == {"Failed", "QuotaExceeded"}

\* Failed and QuotaExceeded are left only by the outcome of an env_start (or
\* with the env): status refreshes, stops and execs preserve them.
TerminalStatesSticky ==
  [][ /\ meta # NoMeta /\ meta.state \in Terminal
      /\ meta' # NoMeta /\ meta'.state # meta.state
      => \E c \in Clients : req[c].pc \in {"startWrite", "startFail"} ]_vars

\* However requests interleave, the subvolume in place keeps its qgroup, and
\* with it its disk limit: env_destroy never releases the qgroup of a
\* subvolume that another request has made since.
LiveSubvolumeHasQgroup == Backend = "Btrfs" /\ rootfs # 0 => rootfs \in qgroups

\* An env_destroy that is repeated ends, whatever failed or crashed halfway:
\* what an earlier attempt removed does not stop the next one.
DestroyRetried == meta # NoMeta ~> meta = NoMeta

\* A record that says Running about a machine that is gone for good is
\* corrected by the status refresh, again and again if stale copies of it
\* are written back in between.
MachineStaysGone == machine = "absent" /\ (Backend = "Btrfs" => rootfs # 0)

StaleRunningHeals ==
  <>[]MachineStaysGone => []<>(meta = NoMeta \/ meta.state # "Running")

=============================================================================
