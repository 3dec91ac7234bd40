------------------------------ MODULE Agentctl ------------------------------
(***************************************************************************)
(* The commands of agentctl: what a command line means on the machine where*)
(* it is typed, the command line that --remote runs over ssh, the request  *)
(* made of it, the fields a daemon takes, and the kind of its answer.      *)
(*                                                                         *)
(* A command line is its verb, the options given with their values, and    *)
(* --agentfs and --config, which go before the verb.  What a user types is *)
(* the value "typed"; values that begin with a hyphen are left out (clap   *)
(* takes them only as --option=value, which is not what is sent on).       *)
(***************************************************************************)
EXTENDS Functions

CONSTANT AwayPlatform   \* of the machine that --remote is used on: "linux" or "desktop"

\* "host" is where agent-forkd runs, a Linux; "away" is the other machine.
Platform(m) == IF m = "host" THEN "linux" ELSE AwayPlatform

Cwd(m) == IF m = "host" THEN "a directory of host" ELSE "a directory of away"

DefaultAgentfs(m) == IF Platform(m) = "linux" THEN "/agentfs" ELSE "~/.agentfs"

DefaultSource(m) == IF Platform(m) = "linux" THEN "/" ELSE Cwd(m)

\* f, and what g has besides.
With(f, g) == [x \in DOMAIN f \cup DOMAIN g |-> IF x \in DOMAIN f THEN f[x] ELSE g[x]]

-----------------------------------------------------------------------------
(* Command lines                                                           *)

LimitOptions == {"cpu_max", "memory_max", "pids_max", "disk_max", "network",
                 "idle_timeout", "max_runtime"}

OfEnv == {"env start", "env stop", "env destroy", "env status", "rm", "diff", "session list"}
OfSession == {"session attach", "session detach", "session kill", "session logs"}
Plain == {"init", "ls", "env list"}

Verbs == OfEnv \cup OfSession \cup Plain \cup
  {"-t", "new", "base freeze", "env create", "shell", "exec", "open", "session create",
   "export", "apply"}

Required(verb) ==
  CASE verb \in Plain -> {}
    [] verb \in OfEnv \cup {"shell", "open", "apply"} -> {"env_id"}
    [] verb \in OfSession -> {"env_id", "session_id"}
    [] verb \in {"-t", "new"} -> {"target"}
    [] verb = "base freeze" -> {"name", "from"}
    [] verb = "env create" -> {"env_id", "base"}
    [] verb = "exec" -> {"env_id", "command"}
    [] verb = "session create" -> {"env_id", "session_id", "command"}
    [] verb = "export" -> {"env_id", "type"}

Optional(verb) ==
  CASE verb = "new" -> {"base", "from", "backend", "profile", "command"} \cup LimitOptions
    [] verb = "base freeze" -> {"backend"}
    [] verb = "env create" -> {"profile"} \cup LimitOptions
    [] verb = "shell" -> {"persistent"}
    [] verb = "open" -> {"app", "path"}
    [] verb = "apply" -> {"force"}
    [] OTHER -> {}

Globals == {"agentfs", "config"}

CanParse(line) ==
  /\ line.verb \in Verbs
  /\ Required(line.verb) \subseteq DOMAIN line.opts
  /\ DOMAIN line.opts \subseteq Required(line.verb) \cup Optional(line.verb)

\* What clap puts in for an option that is not given.
Defaults(verb, m) ==
  CASE verb \in {"new", "-t"} -> [from |-> DefaultSource(m)]
    [] verb = "open" -> [app |-> "code"]
    [] OTHER -> << >>

\* RawCli::parse and Cli::try_from.
Cli(line, m) ==
  [verb    |-> IF line.verb = "-t" THEN "new" ELSE line.verb,
   opts    |-> With(line.opts, Defaults(line.verb, m)),
   globals |-> With(line.globals, [agentfs |-> DefaultAgentfs(m)])]

-----------------------------------------------------------------------------
(* --remote                                                                *)

Pushed(verb) ==
  CASE verb = "new" -> {"target", "base", "from", "backend", "profile", "command"} \cup LimitOptions
    [] verb = "base freeze" -> {"name", "from", "backend"}
    [] verb = "env create" -> {"env_id", "base", "profile"} \cup LimitOptions
    [] verb = "shell" -> {"persistent", "env_id"}
    [] verb = "exec" -> {"env_id", "command"}
    [] verb = "open" -> {"env_id", "app", "path"}
    [] verb = "session create" -> {"env_id", "session_id", "command"}
    [] verb = "export" -> {"env_id", "type"}
    [] verb = "apply" -> {"env_id", "force"}
    [] verb \in OfSession -> {"env_id", "session_id"}
    [] verb \in OfEnv -> {"env_id"}
    [] verb \in Plain -> {}

\* `ls` and `rm` are sent on as what they stand for.
AsSent(verb) == CASE verb = "ls" -> "env list" [] verb = "rm" -> "env destroy" [] OTHER -> verb

\* Mutant: one of the limits is not sent on.
AppendWithoutNetwork(cli) == Restrict(cli.opts, (Pushed(cli.verb) \ {"network"}) \cap DOMAIN cli.opts)

AppendCommandArgs(cli) == Restrict(cli.opts, Pushed(cli.verb) \cap DOMAIN cli.opts)

\* --agentfs always goes along, --config if it was given.
RemoteLine(cli) ==
  [verb |-> AsSent(cli.verb), opts |-> AppendCommandArgs(cli), globals |-> cli.globals]

\* Mutant: only the commands that are named for it get a terminal.
TtyOfShells(cli) == cli.verb \in {"shell", "session attach"}

NeedsRemoteTty(cli) ==
  \/ cli.verb = "new" /\ "command" \notin DOMAIN cli.opts
  \/ cli.verb \in {"shell", "session attach"}

-----------------------------------------------------------------------------
(* The daemon's configuration, and the request                             *)

\* A config file is taken to be the daemon's, at host.
LoadConfig(cli) ==
  IF "config" \in DOMAIN cli.globals
  THEN [agentfs |-> "/agentfs", profile |-> "configured"]
  ELSE [agentfs |-> cli.globals["agentfs"], profile |-> "privileged-dev"]

\* The only command that to_request refuses.
Refused(cli) == cli.verb = "init" /\ LoadConfig(cli).agentfs # cli.globals["agentfs"]

Given(opts, S) == Restrict(opts, S \cap DOMAIN opts)

Profile(cli) ==
  IF "profile" \in DOMAIN cli.opts THEN cli.opts["profile"] ELSE LoadConfig(cli).profile

Type(verb) ==
  CASE verb = "init" -> "init"
    [] verb \in {"ls", "env list"} -> "env_list"
    [] verb \in {"rm", "env destroy"} -> "env_destroy"
    [] verb = "base freeze" -> "base_freeze"
    [] verb = "env create" -> "env_create"
    [] verb = "env start" -> "env_start"
    [] verb = "env stop" -> "env_stop"
    [] verb = "env status" -> "env_status"
    [] verb = "session create" -> "session_create"
    [] verb = "session attach" -> "session_attach"
    [] verb = "session detach" -> "session_detach"
    [] verb = "session kill" -> "session_kill"
    [] verb = "session list" -> "session_list"
    [] verb = "session logs" -> "session_logs"
    [] OTHER -> verb

Fields(cli, m) ==
  LET o == cli.opts IN
  CASE cli.verb = "init" -> [agentfs |-> cli.globals["agentfs"]]
    [] cli.verb \in {"ls", "env list"} -> << >>
    [] cli.verb \in {"rm", "env start", "env stop", "env destroy", "env status"} ->
         [id |-> o["env_id"]]
    [] cli.verb = "new" ->
         With(Given(o, {"target", "from", "backend", "base", "command"}),
              [base |-> "base-001", command |-> "none", profile |-> Profile(cli),
               limits |-> Given(o, LimitOptions), cwd |-> Cwd(m)])
    [] cli.verb = "env create" ->
         [id |-> o["env_id"], base |-> o["base"], profile |-> Profile(cli),
          limits |-> Given(o, LimitOptions)]
    [] cli.verb = "shell" -> With(Given(o, {"persistent"}), [id |-> o["env_id"], cwd |-> Cwd(m)])
    [] cli.verb = "exec" -> [id |-> o["env_id"], command |-> o["command"], cwd |-> Cwd(m)]
    [] cli.verb = "open" -> With(o, [path |-> Cwd(m)])
    [] cli.verb = "session create" -> With(o, [cwd |-> Cwd(m)])
    [] cli.verb = "export" -> [env_id |-> o["env_id"], export_type |-> o["type"]]
    [] cli.verb = "apply" -> [env_id |-> o["env_id"], force |-> "force" \in DOMAIN o]
    [] OTHER -> o

ToRequest(cli, m) == [type |-> Type(cli.verb), fields |-> Fields(cli, m)]

-----------------------------------------------------------------------------
(* What a daemon takes: the table of request_allowed_fields, and the fields*)
(* that serde wants.                                                       *)

AllowedFields(type) ==
  CASE type = "init" -> {"agentfs"}
    [] type = "new" -> {"target", "base", "from", "backend", "profile", "limits", "command", "cwd"}
    [] type = "base_freeze" -> {"name", "from", "backend"}
    [] type = "env_create" -> {"id", "base", "profile", "limits"}
    [] type \in {"env_start", "env_stop", "env_destroy", "env_status"} -> {"id"}
    [] type = "shell" -> {"id", "cwd", "persistent"}
    [] type = "env_list" -> {}
    [] type = "exec" -> {"id", "command", "cwd"}
    [] type = "open" -> {"env_id", "app", "path"}
    [] type = "session_create" -> {"env_id", "session_id", "command", "cwd"}
    [] type \in {"session_attach", "session_detach", "session_kill", "session_logs"} ->
         {"env_id", "session_id"}
    [] type \in {"session_list", "diff"} -> {"env_id"}
    [] type = "export" -> {"env_id", "export_type"}
    [] type = "apply" -> {"env_id", "force"}

\* #[serde(default)] of Request: what may be left out.
MayBeMissing == {"backend", "cwd", "path", "persistent"}

Understood(request) ==
  /\ DOMAIN request.fields \subseteq AllowedFields(request.type)
  /\ AllowedFields(request.type) \ MayBeMissing \subseteq DOMAIN request.fields

\* The answer of AgentService::handle_result when all goes well.
Answer(request) ==
  CASE request.type = "new" -> IF request.fields["command"] = "none" THEN "attach" ELSE "exec"
    [] request.type \in {"shell", "session_attach"} -> "attach"
    [] request.type = "exec" -> "exec"
    [] request.type = "env_list" -> "envs"
    [] request.type = "env_status" -> "env_status"
    [] request.type = "session_list" -> "sessions"
    [] request.type \in {"session_logs", "diff", "export"} -> "text"
    [] request.type \in {"open", "apply"} -> "error"
    [] OTHER -> "ok"
=============================================================================
