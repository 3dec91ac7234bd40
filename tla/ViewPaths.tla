----------------------------- MODULE ViewPaths -----------------------------
(***************************************************************************)
(* Which directories an overlay env may be made of and entered with.  Three*)
(* programs decide it, each for itself: agent-forkd when the base is frozen*)
(* (desktop.rs), agent-viewd before a command is started in the env, and   *)
(* agent-overlayfs before it mounts the env's view.                        *)
(*                                                                         *)
(* A path is the sequence of its components; all are absolute, as the      *)
(* programs demand.  The host's files are constants.                       *)
(***************************************************************************)
EXTENDS SequencesExt

CONSTANTS
  Dirs,        \* the host's directories, by their real paths
  Links,       \* its symbolic links: path to real path
  Home, Store, \* $HOME, and --agentfs
  BroadRoots   \* system directories that are no projects

ASSUME HostAssumption == \A p \in Dirs \cup {Store} : p \in Seq(Range(p))

Followed(p) == IF p \in DOMAIN Links THEN Links[p] ELSE p

\* std::fs::canonicalize
Canonical(p) ==
  LET Enter(real, name) ==
        IF name # ".." THEN Followed(Append(real, name))
        ELSE IF real = <<>> THEN real ELSE Front(real)
  IN FoldLeft(Enter, <<>>, p)

NoDots(p) == ".." \notin Range(p)
NoLinks(p) == \A i \in 1..Len(p) : SubSeq(p, 1, i) \notin DOMAIN Links
Plain(p) == NoDots(p) /\ NoLinks(p)

-----------------------------------------------------------------------------
(* agent-forkd                                                             *)

IsDir(from) == Canonical(from) \in Dirs

\* ensure_safe_path_preserving_source: asked of an overlay's source only.
SafeSource(from) ==
  LET real == Canonical(from)
  IN /\ IsDir(from)
     /\ real \notin {<<>>, Canonical(Home)} \cup BroadRoots
     /\ ~IsPrefix(Canonical(Store), real)

\* absolute_path_as_overlay_relative: where the source lies in the base.
OverlayRelativeExists(from) == NoDots(from)

\* A copy into the directory that is copied comes to what it has itself
\* written, and ends by an error alone.
ContainsStore(from) == IsPrefix(Canonical(from), Canonical(Store))

BaseDir(b) == Store \o <<"bases", b>>
EnvDir(e) == Store \o <<"envs", e>>
Trees == {"view-root", "lower", "upper", "whiteouts"}
SessionLog(e, s) == EnvDir(e) \o <<"logs", "sessions", s>>
BaseRootfs(b, backend) == Append(BaseDir(b), IF backend = "overlay" THEN "lower" ELSE "rootfs")
EnvRootfs(e, backend) == Append(EnvDir(e), IF backend = "overlay" THEN "view-root" ELSE "rootfs")

\* manifest.json, meta.json and sessions/<id>.json as they are written.
BaseWritten(b, backend, source) ==
  [id |-> b, backend |-> backend, readonly |-> TRUE, rootfs |-> BaseRootfs(b, backend),
   manifest |-> BaseDir(b) \o <<"dpkg.list">>, source |-> source]
EnvWritten(e, backend, network) ==
  [id |-> e, backend |-> backend, machine |-> e, network |-> network,
   rootfs |-> EnvRootfs(e, backend)]
SessionWritten(e, s) == [id |-> s, env |-> e, log |-> SessionLog(e, s)]

\* What is asked of them whenever they are read under an id.
BaseAccepted(x, b) ==
  /\ x.id = b /\ x.readonly
  /\ x.rootfs = BaseRootfs(b, x.backend) /\ x.manifest = BaseDir(b) \o <<"dpkg.list">>
EnvAccepted(x, e) ==
  /\ x.id = e /\ x.machine = e /\ x.network \in {"host", "bridge", "none"}
  /\ x.rootfs = EnvRootfs(e, x.backend)
SessionAccepted(x, e, s) == x.env = e /\ x.id = s /\ x.log = SessionLog(e, s)

\* Mutant: the client's directory is kept wherever it is.
CwdAnywhere(source, cwd) == cwd

PreservedCwd(source, cwd) == IF IsPrefix(source, cwd) THEN cwd ELSE source

\* What viewd is called with: an exec, an open, a session, or (by the client)
\* a shell, whose command is made of view-root's parent instead.
Entry(e, env, base, cwd, log) ==
  [trees |-> [t \in Trees |-> IF t = "view-root" THEN env.rootfs ELSE EnvDir(e) \o <<t>>],
   source |-> base.source, cwd |-> PreservedCwd(base.source, cwd),
   network |-> env.network, log |-> log]

ShellEntry(env, base, cwd) ==
  [trees |-> [t \in Trees |-> Append(Front(env.rootfs), t)],
   source |-> base.source, cwd |-> PreservedCwd(base.source, cwd),
   network |-> env.network, log |-> <<>>]

-----------------------------------------------------------------------------
(* agent-viewd                                                             *)

\* The trees are the four of one env directory under "envs".
EnvLayout(trees, names, dir) ==
  /\ dir # <<>> /\ Front(dir) # <<>> /\ Last(Front(dir)) = "envs"
  /\ \A t \in names : Plain(trees[t]) /\ trees[t] = Append(dir, t)

ValidOverlayPaths(x) == EnvLayout(x.trees, Trees, Front(x.trees["view-root"]))

ValidSource(x) ==
  /\ Plain(x.source) /\ x.source \in Dirs \ {<<>>}
  /\ EnvLayout(x.trees, Trees \ {"view-root"}, Front(x.trees["lower"]))

\* An env with the network "bridge" can be made, and is never entered.
ValidNetwork(x) == x.network \in {"host", "none"}

ValidRuntime(x) == IsPrefix(x.source, x.cwd)

ValidLog(x) ==
  x.log # <<>> => Plain(x.log) /\ Front(x.log) = Front(x.trees["view-root"]) \o <<"logs", "sessions">>

ViewdAccepts(x) ==
  ValidNetwork(x) /\ ValidOverlayPaths(x) /\ ValidSource(x) /\ ValidRuntime(x) /\ ValidLog(x)

\* source_view_path: where the program starts.
MountedCwd(x) ==
  x.trees["view-root"] \o SubSeq(x.cwd, Len(x.source) + 1, Len(x.cwd))

\* What of the system shows through, by kind.
SystemFallbackRoots == {"programs", "libraries", "devices", "settings", "scratch"}

MountCall(x) ==
  [mount |-> x.trees["view-root"], visible |-> x.source, trees |-> x.trees,
   fallback |-> SystemFallbackRoots]

-----------------------------------------------------------------------------
(* agent-overlayfs                                                         *)

FallbackAllowlist == {"programs", "libraries", "devices", "settings", "scratch"}

\* validate_mount_args: the view is mounted at the env's view-root, or (by
\* older versions) at the source itself.
OverlayfsAccepts(call) ==
  LET dir == Front(call.trees["lower"])
  IN /\ Plain(call.mount) /\ Plain(call.visible)
     /\ EnvLayout(call.trees, Trees \ {"view-root"}, dir)
     /\ call.mount = Append(dir, "view-root") \/ call.mount = call.visible
     /\ call.fallback \subseteq FallbackAllowlist
=============================================================================
