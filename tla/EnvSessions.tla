---------------------------- MODULE EnvSessions ----------------------------
(***************************************************************************)
(* The tmux sessions of an env (session_create .. session_list in          *)
(* agent-core/src/service.rs, TmuxSessionBackend in session.rs), on top of *)
(* EnvLifecycle: between its creation and its destruction an env is        *)
(* started, stopped and refreshed while sessions come and go in it.        *)
(*                                                                         *)
(* A session is known in three places that no lock keeps together: tmux in *)
(* the machine, the session file sessions/<id>.json, and the session index *)
(* in meta.json.  tmux goes away with the machine; session files are only  *)
(* removed with the env; the index is part of the Env that every handler   *)
(* reads at its start and writes back at its end.                          *)
(*                                                                         *)
(* What tmux answers is taken from the exit status of machinectl shell, as *)
(* session.rs does.                                                        *)
(***************************************************************************)
EXTENDS EnvLifecycle

CONSTANTS
  ShellSession,  \* the session id "shell"
  NoSession      \* no session id

ASSUME ShellAssumption == ShellSession \in Sessions /\ NoSession \notin Sessions

VARIABLES
  files,   \* state in sessions/<id>.json, or "none"
  tmux,    \* sessions alive in the machine
  arg      \* per client: what a session request has found out so far

sessionVars == <<vars, files, tmux, arg>>

SessionOps == {"session_create", "shell", "attach", "detach", "kill", "logs", "session_list"}

NoArg == [op |-> "none", sid |-> NoSession, was |-> "none", live |-> {}, listed |-> {}, todo |-> {}]

Known == {s \in Sessions : files[s] # "none"}

-----------------------------------------------------------------------------
(* Requests.  A session request keeps EnvLifecycle's copy of meta.json in  *)
(* req and the rest in arg.                                                *)

SetArg(c, a) == arg' = [arg EXCEPT ![c] = a]

Keep == UNCHANGED <<dir, meta, resources>>

\* ensure_running_env
EnsureRunning(env) == env.state = "Running"

SessionRead(c, op, s) ==
  /\ op \in SessionOps \ {"session_list"}
  /\ ReadEnv(c, op, "sessRead")
  /\ op # "logs" => EnsureRunning(meta)
  /\ op = "shell" => s = ShellSession
  /\ SetArg(c, [NoArg EXCEPT !.op = op, !.sid = s])
  /\ UNCHANGED <<files, tmux>>

\* The last part of a successful request: write_env with a new
\* last_active_at (WriteBack of EnvLifecycle).
Active(c) ==
  /\ Goto(c, "touchWrite", MarkActive(req[c].env))
  /\ SetArg(c, NoArg)

GiveUp(c) ==
  /\ Done(c)
  /\ SetArg(c, NoArg)

-----------------------------------------------------------------------------
(* read_session, and is_running where the request asks for it.  A session  *)
(* without a file is created, or is an error (SessionFails).               *)

IsCreate(op) == op \in {"session_create", "shellCreate"}

SessionFile(c) ==
  LET op == arg[c].op  s == arg[c].sid
  IN /\ At(c, "sessRead")
     /\ \/ /\ files[s] = "none" /\ IsCreate(op)
           /\ Goto(c, "sessTmux", req[c].env)
           /\ UNCHANGED arg
        \/ /\ files[s] = "none" /\ op = "shell"
           /\ Goto(c, "shellCreate", req[c].env)
           /\ UNCHANGED arg
        \/ /\ files[s] # "none" /\ (IsCreate(op) \/ op \in {"shell", "attach", "detach"})
           /\ Goto(c, "sessProbe", req[c].env)
           /\ SetArg(c, [arg[c] EXCEPT !.was = files[s]])
        \/ /\ files[s] # "none" /\ op = "kill"
           /\ Goto(c, "killTmux", req[c].env)
           /\ UNCHANGED arg
        \/ /\ files[s] # "none" /\ op = "logs"
           /\ Active(c)
     /\ Keep /\ UNCHANGED <<files, tmux>>

\* tmux has-session: fails without a machine to ask.
SessionProbe(c) ==
  LET op == arg[c].op  alive == arg[c].sid \in tmux
  IN /\ At(c, "sessProbe")
     /\ machine = "running"
     /\ \/ alive /\ IsCreate(op) /\ GiveUp(c)
        \/ ~alive /\ IsCreate(op) /\ Goto(c, "sessTmux", req[c].env) /\ UNCHANGED arg
        \/ alive /\ op = "shell" /\ Active(c)
        \/ ~alive /\ op = "shell" /\ Goto(c, "shellCreate", req[c].env) /\ UNCHANGED arg
        \/ alive /\ op = "detach" /\ Goto(c, "detachTmux", req[c].env) /\ UNCHANGED arg
        \/ alive /\ op = "attach" /\ arg[c].was = "Running" /\ Active(c)
        \/ /\ alive /\ op = "attach" /\ arg[c].was # "Running"
           /\ Goto(c, "markRunning", req[c].env) /\ UNCHANGED arg
        \/ /\ ~alive /\ op \in {"attach", "detach"}
           /\ Goto(c, "markStopped", req[c].env) /\ UNCHANGED arg
     /\ Keep /\ UNCHANGED <<files, tmux>>

-----------------------------------------------------------------------------
(* session_create, alone or called by shell_attach_target.                 *)

\* shell_attach_target calls session_create, which reads meta.json again.
ShellCreate(c) ==
  /\ At(c, "shellCreate")
  /\ meta # NoMeta
  /\ EnsureRunning(meta)
  /\ Goto(c, "sessRead", meta)
  /\ SetArg(c, [arg[c] EXCEPT !.op = "shellCreate"])
  /\ Keep /\ UNCHANGED <<files, tmux>>

WithSession(env, s) == [env EXCEPT !.sessions = @ \cup {s}]

\* tmux new-session refuses a name that is taken.
SessionTmux(c) ==
  /\ At(c, "sessTmux")
  /\ machine = "running"
  /\ arg[c].sid \notin tmux
  /\ tmux' = tmux \cup {arg[c].sid}
  /\ dir' = TRUE
  /\ Goto(c, "sessFile", MarkActive(WithSession(req[c].env, arg[c].sid)))
  /\ UNCHANGED <<meta, resources, files, arg>>

WriteSession(s, state) ==
  /\ files' = [files EXCEPT ![s] = state]
  /\ dir' = TRUE

\* After write_session: the index.  A shell goes on after it.
SessionCreated(c) ==
  IF arg[c].op = "shellCreate"
    THEN Goto(c, "shellIndex", req[c].env) /\ UNCHANGED arg
    ELSE Goto(c, "touchWrite", req[c].env) /\ SetArg(c, NoArg)

\* Mutant: the index is written before the session file.
SessionFileAfterIndex(c) ==
  /\ At(c, "sessFile")
  /\ IF meta # NoMeta /\ arg[c].sid \in meta.sessions
       THEN WriteSession(arg[c].sid, "Running") /\ SessionCreated(c) /\ UNCHANGED meta
       ELSE WriteEnv(req[c].env) /\ UNCHANGED <<files, req, arg>>
  /\ UNCHANGED <<resources, tmux>>

SessionFileWritten(c) ==
  /\ At(c, "sessFile")
  /\ WriteSession(arg[c].sid, "Running")
  /\ SessionCreated(c)
  /\ UNCHANGED <<meta, resources, tmux>>

ShellIndex(c) ==
  /\ At(c, "shellIndex")
  /\ WriteEnv(req[c].env)
  /\ Goto(c, "shellReread", req[c].env)
  /\ UNCHANGED <<resources, files, tmux, arg>>

ShellReread(c) ==
  /\ At(c, "shellReread")
  /\ meta # NoMeta
  /\ Goto(c, "touchWrite", MarkActive(meta))
  /\ SetArg(c, NoArg)
  /\ Keep /\ UNCHANGED <<files, tmux>>

-----------------------------------------------------------------------------
(* session_attach_target, session_detach, session_kill.                    *)

\* A session that is found dead is recorded as Stopped, and the request
\* fails.
MarkStopped(c) ==
  /\ At(c, "markStopped")
  /\ WriteSession(arg[c].sid, "Stopped")
  /\ GiveUp(c)
  /\ UNCHANGED <<meta, resources, tmux>>

MarkRunning(c) ==
  /\ At(c, "markRunning")
  /\ WriteSession(arg[c].sid, "Running")
  /\ Active(c)
  /\ UNCHANGED <<meta, resources, tmux>>

DetachTmux(c) ==
  /\ At(c, "detachTmux")
  /\ machine = "running"
  /\ arg[c].sid \in tmux
  /\ Active(c)
  /\ Keep /\ UNCHANGED <<files, tmux>>

KillTmux(c) ==
  /\ At(c, "killTmux")
  /\ machine = "running"
  /\ arg[c].sid \in tmux
  /\ tmux' = tmux \ {arg[c].sid}
  /\ Goto(c, "killMark", req[c].env)
  /\ Keep /\ UNCHANGED <<files, arg>>

KillMark(c) ==
  /\ At(c, "killMark")
  /\ WriteSession(arg[c].sid, "Stopped")
  /\ Active(c)
  /\ UNCHANGED <<meta, resources, tmux>>

-----------------------------------------------------------------------------
(* session_list: every session file is rewritten with what tmux said, then *)
(* the index is replaced by the list of session files.                     *)

ListRead(c) ==
  /\ ReadEnv(c, "session_list", "listLive")
  /\ UNCHANGED <<files, tmux, arg>>

\* tmux list-sessions, when the env is recorded as running.
ListLive(c) ==
  /\ At(c, "listLive")
  /\ EnsureRunning(req[c].env) => machine = "running"
  /\ SetArg(c, [NoArg EXCEPT !.op = "session_list",
                             !.live = IF EnsureRunning(req[c].env) THEN tmux ELSE {}])
  /\ Goto(c, "listFiles", req[c].env)
  /\ Keep /\ UNCHANGED <<files, tmux>>

\* Mutant: the files are taken in turn before the list of them is made.
ListFilesLate(c) ==
  /\ At(c, "listFiles")
  /\ SetArg(c, [arg[c] EXCEPT !.todo = Known])
  /\ Goto(c, "listMark", req[c].env)
  /\ Keep /\ UNCHANGED <<files, tmux>>

ListFiles(c) ==
  /\ At(c, "listFiles")
  /\ SetArg(c, [arg[c] EXCEPT !.listed = Known, !.todo = Known])
  /\ Goto(c, "listMark", req[c].env)
  /\ Keep /\ UNCHANGED <<files, tmux>>

\* Mutant: only the sessions that are alive are rewritten.
ListMarkAlive(c) ==
  /\ At(c, "listMark")
  /\ \E s \in arg[c].todo :
       /\ IF s \in arg[c].live THEN WriteSession(s, "Running") ELSE UNCHANGED <<files, dir>>
       /\ SetArg(c, [arg[c] EXCEPT !.todo = @ \ {s}])
  /\ UNCHANGED <<meta, resources, req, tmux>>

ListMark(c) ==
  /\ At(c, "listMark")
  /\ \E s \in arg[c].todo :
       /\ WriteSession(s, IF s \in arg[c].live THEN "Running" ELSE "Stopped")
       /\ SetArg(c, [arg[c] EXCEPT !.todo = @ \ {s}])
  /\ UNCHANGED <<meta, resources, req, tmux>>

\* Mutant: an index that lacks sessions is left as it is.
NoSync(env, listed) == [env EXCEPT !.sessions = @ \cap listed]

SyncSessionIndex(env, listed) == [env EXCEPT !.sessions = listed]

ListIndex(c) ==
  LET env == SyncSessionIndex(req[c].env, arg[c].listed)
  IN /\ At(c, "listMark")
     /\ arg[c].todo = {}
     /\ IF env = req[c].env THEN UNCHANGED <<dir, meta>> ELSE WriteEnv(env)
     /\ GiveUp(c)
     /\ UNCHANGED <<resources, files, tmux>>

-----------------------------------------------------------------------------
\* A step that fails ends the request with an error reply.  The log entry of
\* session_create comes after tmux has the session.
SessionFails(c) ==
  /\ req[c].pc \in SessionSteps
  /\ tmux' \in (IF At(c, "sessTmux") /\ machine = "running"
                  THEN {tmux, tmux \cup {arg[c].sid}}
                  ELSE {tmux})
  /\ GiveUp(c)
  /\ Keep /\ UNCHANGED files

\* The command of a session ends.
SessionEnds ==
  /\ \E s \in tmux : tmux' = tmux \ {s}
  /\ UNCHANGED <<vars, files, arg>>

SessionHandler(c) ==
  \/ \E op \in SessionOps, s \in Sessions : SessionRead(c, op, s)
  \/ SessionFile(c) \/ SessionProbe(c) \/ ShellCreate(c) \/ SessionTmux(c)
  \/ SessionFileWritten(c) \/ ShellIndex(c) \/ ShellReread(c) \/ MarkStopped(c)
  \/ MarkRunning(c) \/ DetachTmux(c) \/ KillTmux(c) \/ KillMark(c)
  \/ ListRead(c) \/ ListLive(c) \/ ListFiles(c) \/ ListMark(c) \/ ListIndex(c)
  \/ SessionFails(c)

\* Everything else that happens to the env.  tmux runs in the machine.
LifecycleHandler(c) ==
  \/ Start(c) \/ Stop(c) \/ Status(c) \/ Exec(c) \/ Touch(c) \/ WriteBack(c) \/ RequestFails(c)

WithMachine ==
  /\ tmux' = (IF machine' = "running" THEN tmux ELSE {})
  /\ UNCHANGED files

EnvInit(state, unit) ==
  /\ EnvInPlace(state, unit)
  /\ files = [s \in Sessions |-> "none"]
  /\ tmux = {}
  /\ arg = [c \in Clients |-> NoArg]

\* What env_create leaves, and env_start after it.
CreatedInit == EnvInit("Created", "absent")

StartedInit == EnvInit("Running", "running")

SessionNext ==
  \/ \E c \in Clients : SessionHandler(c)
  \/ \E c \in Clients : LifecycleHandler(c) /\ WithMachine /\ UNCHANGED arg
  \/ /\ MachineBoots \/ MachineExits \/ DiskUseChanges \/ TimePasses
     /\ WithMachine
     /\ UNCHANGED arg
  \/ Crash /\ WithMachine /\ arg' = [c \in Clients |-> NoArg]
  \/ SessionEnds

SessionSpec == CreatedInit /\ [][SessionNext]_sessionVars

-----------------------------------------------------------------------------
(* Fairness: requests in flight end; a client keeps asking for             *)
(* session_list, and its steps do not fail every time.                     *)

ListIsPolled(c) ==
  /\ SF_sessionVars(ListRead(c))
  /\ SF_sessionVars(ListLive(c))
  /\ SF_sessionVars(ListFiles(c))
  /\ SF_sessionVars(ListMark(c))
  /\ SF_sessionVars(ListIndex(c))

RequestGoesOn(c) ==
  /\ ~At(c, "idle")
  /\ \/ SessionHandler(c)
     \/ LifecycleHandler(c) /\ WithMachine /\ UNCHANGED arg

RequestEnds(c) == WF_sessionVars(RequestGoesOn(c))

SessionPollSpec ==
  /\ StartedInit
  /\ [][SessionNext]_sessionVars
  /\ \A c \in Clients : RequestEnds(c) /\ ListIsPolled(c)

-----------------------------------------------------------------------------
(* Properties.                                                             *)

IndexOf(env) == IF env = NoMeta THEN {} ELSE env.sessions

ArgType == [op : {"none", "shellCreate"} \cup SessionOps, sid : Sessions \cup {NoSession},
            was : {"none", "Running", "Stopped"},
            live : SUBSET Sessions, listed : SUBSET Sessions, todo : SUBSET Sessions]

\* Steps of a session request that knows its session.
NamedSteps == SessionSteps \ {"listLive", "listFiles", "listMark"}

\* Every variable has its type, a request for a session has one, and a list
\* goes through sessions whose files it has read.
SessionTypeOK ==
  /\ TypeOK
  /\ files \in [Sessions -> {"none", "Running", "Stopped"}]
  /\ tmux \subseteq Sessions
  /\ arg \in [Clients -> ArgType]
  /\ \A c \in Clients :
       /\ req[c].pc \in NamedSteps => arg[c].sid \in Sessions
       /\ arg[c].todo \subseteq arg[c].listed
       /\ arg[c].listed \subseteq Known

\* The index names only sessions that have a session file: in meta.json, and
\* in every copy of it that some request may still write back.  The one
\* exception is the copy of a request that is about to write the file.
IndexedSessionsHaveFiles ==
  /\ IndexOf(meta) \subseteq Known
  /\ \A c \in Clients :
       IndexOf(req[c].env) \subseteq Known \cup (IF At(c, "sessFile") THEN {arg[c].sid} ELSE {})

\* While the machine runs, a session that has a file comes back into the
\* index, however often a failed request, a restart or the write-back of an
\* older copy drops it.
IndexRepaired ==
  <>[](machine = "running") =>
    \A s \in Sessions : []<>(files[s] = "none" \/ s \in IndexOf(meta))

\* While the machine runs, a session that is gone for good does not stay
\* recorded as Running.
SessionStateHeals ==
  \A s \in Sessions :
    <>[](machine = "running" /\ s \notin tmux) => []<>(files[s] # "Running")

=============================================================================
