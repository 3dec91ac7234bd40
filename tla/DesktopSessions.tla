-------------------------- MODULE DesktopSessions --------------------------
(***************************************************************************)
(* Commands, shells and sessions in the envs of DesktopControl (exec,      *)
(* open_app, session_create .. session_list, diff and export in            *)
(* agent-core/src/desktop.rs; agent-viewd/src/main.rs), as they are on     *)
(* macOS: a command in an overlay env is run by agent-viewd, which mounts  *)
(* the env's view unless it is mounted and unmounts it again if it was the *)
(* one that mounted it.                                                    *)
(*                                                                         *)
(* A session is a process known by the pid in a file.  The file outlives   *)
(* the process and the process outlives agent-forkd, the stop of its env   *)
(* and its removal; the number may come to name another process.           *)
(***************************************************************************)
EXTENDS DesktopControl

CONSTANTS
  Pids  \* process ids

VARIABLES
  procs,    \* per pid: the process that has it, or None
  pidFile,  \* per env and session: the pid in sessions/<id>.pid, or None
  files,    \* per env and session: the state in sessions/<id>.json, or "none"
  arg       \* per client: session, pid and listing of the request

sessionVars == <<procs, pidFile, files, arg>>
vars == <<controlVars, sessionVars>>

\* kind: a session's program, a command or a shell (with its viewd), or a
\* process of somebody else.  stage: viewd has no use for its paths, looks
\* for the view, waits for its own mount of it, or the program runs.
\* owner: it unmounts the view at its end.  killed: a session that was sent
\* SIGTERM.
Proc == [kind : {"session", "command", "other"}, env : Envs \cup {None},
         sid : Sessions \cup {None}, stage : {"refused", "enter", "mounting", "up"},
         owner : BOOLEAN, killed : BOOLEAN]

ASSUME ProcAssumption == None \notin Pids \cup Proc

NoArg == [sid |-> None, pid |-> None, listed |-> {}, todo |-> {}]
SetArg(c, a) == arg' = [arg EXCEPT ![c] = a]
Env(c) == req[c].env

Free == {p \in Pids : procs[p] = None}
Alive(p) == p \in Pids /\ procs[p] # None
Up(p) == Alive(p) /\ procs[p].stage = "up"
Entering(p) == Alive(p) /\ procs[p].stage # "up"

Running(e) == rec[e] # None /\ rec[e].state = "Running"
Known(e) == {s \in Sessions : files[e][s] # "none"}

-----------------------------------------------------------------------------
(* Processes.  Those in an overlay env begin as agent-viewd.               *)

SourceOf(e) == LET b == rec[rec[e].base] IN IF b = None THEN None ELSE b.source

\* The network and the client's directory are left open: viewd may fail.
Enterable ==
  {m \in Envs \X Sources \X (Sessions \cup {None}) :
     LET x == Entry(m[1], EnvWritten(m[1], "overlay", "host"),
                    BaseWritten(None, "overlay", m[2]), m[2], SessionLog(m[1], m[3]))
     IN ViewdAccepts(x) /\ OverlayfsAccepts(MountCall(x))}

Spawn(p, kind, e, s) ==
  procs' = [procs EXCEPT ![p] =
              [kind |-> kind, env |-> e, sid |-> s, owner |-> FALSE, killed |-> FALSE,
               stage |-> CASE rec[e].backend = "clone" -> "up"
                           [] <<e, SourceOf(e), s>> \in Enterable -> "enter"
                           [] OTHER -> "refused"]]

\* mount(8) lists the view.
OverlayIsReady(e) == view[e]

\* agent-overlayfs, from the check of its arguments on.
Mount(e) == view' = [view EXCEPT ![e] = TRUE]

\* ensure_overlay_mounted_at makes the env's directories again if they are
\* gone, and borrows a view that is ready.
ViewdEnters(p) ==
  /\ Alive(p) /\ procs[p].stage = "enter"
  /\ LET e == procs[p].env
     IN /\ made' = [made EXCEPT ![e] = TRUE]
        /\ tree' = [tree EXCEPT ![e] = @ \cup {Root}]
        /\ procs' = [procs EXCEPT ![p].stage = IF OverlayIsReady(e) THEN "up" ELSE "mounting"]
  /\ UNCHANGED <<rec, view, req, wiping, crashes, pidFile, files, arg>>

\* The view is ready: who has waited for it owns it.  For a session the
\* owner is forgotten (mem::forget) and the mount stays.
ViewdMounts(p) ==
  /\ Alive(p) /\ procs[p].stage = "mounting"
  /\ Mount(procs[p].env)
  /\ procs' = [procs EXCEPT ![p] = Changed(@, [stage |-> "up", owner |-> procs[p].kind # "session"])]
  /\ UNCHANGED <<made, tree, rec, req, wiping, crashes, pidFile, files, arg>>

\* The paths are refused, the helper exits or is not ready in time.  A
\* session_create that waits for this viewd ends with its error.
ViewdFails(p) ==
  LET waits(c) == req[c].at = "spawn" /\ arg[c].pid = p
  IN /\ Entering(p)
     /\ procs' = [procs EXCEPT ![p] = None]
     /\ req' = [c \in Clients |-> IF waits(c) THEN Idle ELSE req[c]]
     /\ arg' = [c \in Clients |-> IF waits(c) THEN NoArg ELSE arg[c]]
     /\ UNCHANGED <<made, tree, rec, view, wiping, crashes, pidFile, files>>

\* A process ends, by itself or by a SIGTERM it was sent before.
Exit(p) ==
  /\ Up(p)
  /\ procs' = [procs EXCEPT ![p] = None]
  /\ view' = IF procs[p].owner THEN [view EXCEPT ![procs[p].env] = FALSE] ELSE view
  /\ UNCHANGED <<made, tree, rec, req, wiping, crashes, pidFile, files, arg>>

\* The system gives a free pid to a process of somebody else.
PidReused(p) ==
  /\ procs[p] = None
  /\ \E e \in Envs, s \in Sessions : pidFile[e][s] = p
  /\ procs' = [procs EXCEPT ![p] = [kind |-> "other", env |-> None, sid |-> None,
                                    stage |-> "up", owner |-> FALSE, killed |-> FALSE]]
  /\ UNCHANGED <<controlVars, pidFile, files, arg>>

\* Everything that is not a file goes.
Reboot ==
  /\ crashes < MaxCrashes
  /\ crashes' = crashes + 1
  /\ procs' = [p \in Pids |-> None]
  /\ view' = [e \in Envs |-> FALSE]
  /\ req' = [c \in Clients |-> Idle]
  /\ arg' = [c \in Clients |-> NoArg]
  /\ UNCHANGED <<made, tree, rec, wiping, pidFile, files>>

\* A shell is started by the client from the answer to new.
StartShell(c) ==
  /\ ShellResponse(c)
  /\ rec[req[c].env] # None
  /\ \E p \in Free : Spawn(p, "command", req[c].env, None)
  /\ UNCHANGED <<pidFile, files, arg>>

\* Request::Shell.  The helper scripts it writes are among what programs do
\* to their own files; nothing is written back to the record.
Shell(c, e) ==
  /\ req[c].at = "idle"
  /\ Running(e)
  /\ \E p \in Free : Spawn(p, "command", e, None)
  /\ Quiet /\ UNCHANGED <<pidFile, files, arg, req>>

-----------------------------------------------------------------------------
(* Requests that read meta.json, do something that takes time and write    *)
(* back what they have read, with a new last_active_at.                    *)

Files == <<pidFile, files>>

BeginBack(c, e, env) ==
  Begin(c, [at |-> "back", env |-> e, copy |-> env])

\* exec, alone or at the end of new; the command may take any time.
Exec(c, e) ==
  /\ \/ req[c].at = "idle"
     \/ req[c].at = "target" /\ e = Env(c)
  /\ Running(e)
  /\ \E p \in Free : Spawn(p, "command", e, None) /\ SetArg(c, [NoArg EXCEPT !.pid = p])
  /\ Begin(c, [at |-> "running", env |-> e, copy |-> rec[e]])
  /\ Quiet /\ UNCHANGED Files

ExecEnds(c) ==
  LET p == arg[c].pid
  IN /\ req[c].at = "running"
     /\ ~(Alive(p) /\ procs[p].kind = "command")
     /\ BeginBack(c, Env(c), req[c].copy)
     /\ SetArg(c, NoArg)
     /\ Quiet /\ UNCHANGED <<procs, Files>>

\* open_app, diff and export need a running env; session_logs a session.
Touch(c, e) ==
  /\ req[c].at = "idle"
  /\ rec[e] # None
  /\ Running(e) \/ Known(e) # {}
  /\ BeginBack(c, e, rec[e])
  /\ Quiet /\ UNCHANGED sessionVars

-----------------------------------------------------------------------------
(* session_create                                                          *)

\* session_process_running: the pid in the file names a process, whichever.
ProcessRunning(e, s) == Alive(pidFile[e][s])

\* Mutant: a session with a file is started again.
SessionCreateUnchecked(c, e, s) ==
  /\ req[c].at = "idle"
  /\ Running(e)
  /\ Begin(c, [at |-> "spawn", op |-> "session_create", env |-> e,
               copy |-> [rec[e] EXCEPT !.sessions = @ \cup {s}]])
  /\ SetArg(c, [NoArg EXCEPT !.sid = s])
  /\ Quiet /\ UNCHANGED <<procs, Files>>

\* The pid file is only looked at if there is a session file.
SessionCreate(c, e, s) ==
  /\ req[c].at = "idle"
  /\ Running(e)
  /\ ~(s \in Known(e) /\ ProcessRunning(e, s))
  /\ Begin(c, [at |-> "spawn", op |-> "session_create", env |-> e,
               copy |-> [rec[e] EXCEPT !.sessions = @ \cup {s}]])
  /\ SetArg(c, [NoArg EXCEPT !.sid = s])
  /\ Quiet /\ UNCHANGED <<procs, Files>>

SessionSpawn(c) ==
  /\ req[c].at = "spawn" /\ arg[c].pid = None
  /\ \/ \E p \in Free :
          /\ rec[Env(c)] # None
          /\ Spawn(p, "session", Env(c), arg[c].sid)
          /\ SetArg(c, [arg[c] EXCEPT !.pid = p])
          /\ UNCHANGED req
     \/ Finish(c) /\ SetArg(c, NoArg) /\ UNCHANGED procs
  /\ Quiet /\ UNCHANGED Files

\* The pid is known: at once, or when viewd has started the program.
SessionSpawned(c) ==
  /\ req[c].at = "spawn" /\ arg[c].pid # None
  /\ ~Entering(arg[c].pid)
  /\ Goto(c, "named")
  /\ Quiet /\ UNCHANGED sessionVars

\* Any of the writes that follow may fail; the request then ends with an
\* error and leaves what it has done.
GiveUp(c) ==
  /\ req[c].at \in {"named", "logged", "filed", "unname"}
  /\ Finish(c) /\ SetArg(c, NoArg)
  /\ Quiet /\ UNCHANGED <<procs, Files>>

WritePidFile(c) ==
  /\ req[c].at = "named"
  /\ pidFile' = [pidFile EXCEPT ![Env(c)][arg[c].sid] = arg[c].pid]
  /\ Goto(c, "logged")
  /\ Quiet /\ UNCHANGED <<procs, files, arg>>

AppendLog(c) ==
  /\ req[c].at = "logged"
  /\ Goto(c, "filed")
  /\ Quiet /\ UNCHANGED sessionVars

\* Mutant: the index is written without the session file.
WriteSessionLate(c) ==
  /\ req[c].at = "filed"
  /\ Goto(c, "back")
  /\ SetArg(c, NoArg)
  /\ Quiet /\ UNCHANGED <<procs, Files>>

\* write_session, here and in session_kill; the index in meta.json is last.
WriteSession(c) ==
  /\ req[c].at = "filed"
  /\ files' = [files EXCEPT ![Env(c)][arg[c].sid] =
                  IF req[c].op = "session_create" THEN "Running" ELSE "Stopped"]
  /\ Goto(c, "back")
  /\ SetArg(c, NoArg)
  /\ Quiet /\ UNCHANGED <<procs, pidFile>>

-----------------------------------------------------------------------------
(* session_detach, session_kill and session_list                           *)

SessionDetach(c, e, s) ==
  /\ req[c].at = "idle"
  /\ Running(e) /\ s \in Known(e)
  /\ IF ProcessRunning(e, s)
     THEN BeginBack(c, e, rec[e]) /\ UNCHANGED files
     ELSE files' = [files EXCEPT ![e][s] = "Stopped"] /\ UNCHANGED req
  /\ Quiet /\ UNCHANGED <<procs, pidFile, arg>>

SessionKill(c, e, s) ==
  /\ req[c].at = "idle"
  /\ Running(e) /\ s \in Known(e)
  /\ Begin(c, [at |-> "signal", op |-> "kill", env |-> e, copy |-> rec[e]])
  /\ SetArg(c, Changed(NoArg, [sid |-> s, pid |-> pidFile[e][s]]))
  /\ Quiet /\ UNCHANGED <<procs, Files>>

\* kill_process_tree sends SIGTERM to the process that has the pid now and
\* does not wait for its end; for one of another user it fails.
Signal(c) ==
  LET p == arg[c].pid
  IN /\ req[c].at = "signal"
     /\ \/ /\ ~Alive(p)
           /\ Goto(c, "unname") /\ UNCHANGED <<procs, arg>>
        \/ /\ Alive(p)
           /\ procs' = [procs EXCEPT ![p].killed = procs[p].kind = "session"]
           /\ Goto(c, "unname") /\ UNCHANGED arg
        \/ /\ Alive(p) /\ procs[p].kind = "other"
           /\ Finish(c) /\ SetArg(c, NoArg) /\ UNCHANGED procs
     /\ Quiet /\ UNCHANGED Files

RemovePidFile(c) ==
  /\ req[c].at = "unname"
  /\ pidFile' = [pidFile EXCEPT ![Env(c)][arg[c].sid] = None]
  /\ Goto(c, "filed")
  /\ Quiet /\ UNCHANGED <<procs, files, arg>>

SessionList(c, e) ==
  /\ req[c].at = "idle"
  /\ rec[e] # None
  /\ Begin(c, [at |-> "sync", env |-> e, copy |-> rec[e]])
  /\ SetArg(c, Changed(NoArg, [listed |-> Known(e), todo |-> Known(e)]))
  /\ Quiet /\ UNCHANGED <<procs, Files>>

\* Each session file is rewritten with what its process looks like now; in
\* an env that is not running every session counts as stopped.
ListMark(c) ==
  LET e == Env(c)
  IN /\ req[c].at = "sync"
     /\ \E s \in arg[c].todo :
          /\ files' = [files EXCEPT ![e][s] =
                          IF req[c].copy.state = "Running" /\ ProcessRunning(e, s)
                          THEN "Running" ELSE "Stopped"]
          /\ SetArg(c, [arg[c] EXCEPT !.todo = @ \ {s}])
     /\ Quiet /\ UNCHANGED <<req, procs, pidFile>>

\* sync_env_session_index
ListSync(c) ==
  LET index == arg[c].listed  env == req[c].copy
  IN /\ req[c].at = "sync" /\ arg[c].todo = {}
     /\ IF env.sessions = index THEN Finish(c)
        ELSE BeginBack(c, Env(c), [env EXCEPT !.sessions = index])
     /\ SetArg(c, NoArg)
     /\ Quiet /\ UNCHANGED <<procs, Files>>

-----------------------------------------------------------------------------
(* The removal of an env takes its session files with it, and leaves the   *)
(* processes alone.                                                        *)

WipeSessions(c) ==
  LET e == Env(c)
  IN /\ req[c].at = "wipe"
     /\ \E s \in Sessions :
          \/ files[e][s] # "none" /\ files' = [files EXCEPT ![e][s] = "none"] /\ UNCHANGED pidFile
          \/ pidFile[e][s] # None /\ pidFile' = [pidFile EXCEPT ![e][s] = None] /\ UNCHANGED files
     /\ UNCHANGED <<controlVars, procs, arg>>

AllWiped(c) ==
  /\ Wiped(c)
  /\ \A s \in Sessions : files[Env(c)][s] = "none" /\ pidFile[Env(c)][s] = None
  /\ UNCHANGED sessionVars

Init ==
  /\ ControlInit
  /\ procs = [p \in Pids |-> None]
  /\ pidFile = [e \in Envs |-> [s \in Sessions |-> None]]
  /\ files = [e \in Envs |-> [s \in Sessions |-> "none"]]
  /\ arg = [c \in Clients |-> NoArg]

SessionStep(c) ==
  \/ ExecEnds(c) \/ SessionSpawn(c) \/ SessionSpawned(c) \/ WritePidFile(c) \/ AppendLog(c)
  \/ WriteSession(c) \/ GiveUp(c) \/ Signal(c) \/ RemovePidFile(c)
  \/ ListMark(c) \/ ListSync(c) \/ WipeSessions(c) \/ AllWiped(c) \/ StartShell(c)

SessionRequest(c) ==
  \E e \in Envs :
    \/ Exec(c, e) \/ Touch(c, e) \/ Shell(c, e) \/ SessionList(c, e)
    \/ \E s \in Sessions :
         SessionCreate(c, e, s) \/ SessionDetach(c, e, s) \/ SessionKill(c, e, s)

HostStep ==
  \/ Reboot
  \/ Crash /\ arg' = [c \in Clients |-> NoArg] /\ UNCHANGED <<procs, Files>>
  \/ \E p \in Pids :
       ViewdEnters(p) \/ ViewdMounts(p) \/ ViewdFails(p) \/ Exit(p) \/ PidReused(p)

Next ==
  \/ HostStep
  \/ \E c \in Clients :
       \/ SessionStep(c) \/ SessionRequest(c)
       \/ (Proceed(c) \/ Request(c) \/ Wipe(c) \/ WipeFails(c)) /\ UNCHANGED sessionVars

Spec == Init /\ [][Next]_vars

-----------------------------------------------------------------------------
\* Every entry of e with these records: a command, a session's program, a shell.
Entries(e, env, base, cwd) ==
  {Entry(e, env, base, cwd, log) : log \in {<<>>} \cup {SessionLog(e, s) : s \in Sessions}}
    \cup {ShellEntry(env, base, cwd)}

\* The program starts in the view, where the client is if that is in the source.
StartsInView(x, e, cwd) ==
  \E rest \in {SubSeq(cwd, i, Len(cwd)) : i \in 1..Len(cwd) + 1} :
    /\ MountedCwd(x) = EnvDir(e) \o <<"view-root">> \o rest
    /\ cwd = x.source \o rest \/ (~IsPrefix(x.source, cwd) /\ rest = <<>>)

WellEntered ==
  {source \in Sources :
     \A e \in Envs, b \in Bases, cwd \in Dirs, network \in {"host", "none"} :
       LET base == BaseWritten(b, "overlay", source)
           env == EnvWritten(e, "overlay", network)
       IN /\ BaseAccepted(base, b) /\ EnvAccepted(env, e)
          /\ \A s \in Sessions : SessionAccepted(SessionWritten(e, s), e, s)
          /\ \A x \in Entries(e, env, base, cwd) :
               ViewdAccepts(x) /\ OverlayfsAccepts(MountCall(x)) /\ StartsInView(x, e, cwd)}

Linked == {source \in Sources : ~(NoLinks(source) /\ NoLinks(Store))}

\* An overlay env that was made of a directory by its real path can be
\* entered: its records are accepted when they are read again, what the
\* freeze has accepted agent-viewd accepts, and what that accepts
\* agent-overlayfs mounts, for every kind of command; and a command starts
\* in the view, where its client was if that is in the source.  (With
\* a source behind a symbolic link all is made and nothing can be entered.)
CreatedCanBeEntered ==
  \A e \in Envs :
    (rec[e] # None /\ rec[e].backend = "overlay") => SourceOf(e) \in Linked \cup WellEntered

\* Every session an env's record names has a session file, so that the
\* requests on it can be answered; a kill in the middle of any request
\* included.  Only an env whose removal was cut off may lack some.
IndexHasFiles ==
  \A e \in Envs : rec[e] # None /\ e \notin wiping => rec[e].sessions \subseteq Known(e)

\* The pid file names p, a live process of a session that nobody has told to end.
Names(e, s, p) ==
  /\ pidFile[e][s] = p
  /\ Alive(p) /\ procs[p].kind = "session" /\ ~procs[p].killed
  /\ procs[p].env = e /\ procs[p].sid = s

\* The pid file of a live session goes on naming its process until that has
\* ended, was sent a signal, or the env is being removed.
LosesNone(e, s) ==
  \A p \in Pids :
    Names(e, s, p) /\ procs'[p] = procs[p] => pidFile'[e][s] = p \/ e \in wiping

\* Native sessions are tracked as background host processes (README.md:372):
\* session_create, kill, list or a restart of agent-forkd never loses one that
\* has a session file.
KnownSessionsStayTracked ==
  [][\A e \in Envs, s \in Sessions : s \in Known(e) => LosesNone(e, s)]_vars

=============================================================================
