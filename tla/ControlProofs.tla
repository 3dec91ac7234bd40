---------------------------- MODULE ControlProofs ----------------------------
(***************************************************************************)
(* Proofs about ControlPlane: what a command becomes on its way through    *)
(* --remote, for every set of command lines that clap takes.               *)
(***************************************************************************)
EXTENDS ControlPlane, TLAPS

-----------------------------------------------------------------------------
(* Functions put together.                                                 *)

IsMap(f) == f = [x \in DOMAIN f |-> f[x]]

LEMMA WithDomain ==
  ASSUME NEW f, NEW g PROVE DOMAIN With(f, g) = DOMAIN f \cup DOMAIN g /\ IsMap(With(f, g))
BY DEF With, IsMap

LEMMA WithFirst ==
  ASSUME NEW f, NEW g, NEW x \in DOMAIN f PROVE With(f, g)[x] = f[x]
BY DEF With

LEMMA WithRest ==
  ASSUME NEW f, NEW g, NEW x \in DOMAIN g \ DOMAIN f PROVE With(f, g)[x] = g[x]
BY DEF With

LEMMA WithNothingNew ==
  ASSUME NEW f, NEW g, IsMap(f), DOMAIN g \subseteq DOMAIN f PROVE With(f, g) = f
BY DEF With, IsMap

LEMMA RestrictToAll ==
  ASSUME NEW f, NEW S, IsMap(f), DOMAIN f \subseteq S PROVE Restrict(f, S \cap DOMAIN f) = f
<1>1. S \cap DOMAIN f = DOMAIN f
  OBVIOUS
<1> QED BY <1>1 DEF Restrict, IsMap

-----------------------------------------------------------------------------
(* A command, as agentctl has parsed it.                                   *)

\* Nothing is missing, nothing is left to put in.
Complete(cli) ==
  /\ cli.verb \in Verbs \ {"-t"}
  /\ IsMap(cli.opts) /\ IsMap(cli.globals)
  /\ Required(cli.verb) \subseteq DOMAIN cli.opts
  /\ DOMAIN cli.opts \subseteq Required(cli.verb) \cup Optional(cli.verb)
  /\ cli.verb = "new" => "from" \in DOMAIN cli.opts
  /\ cli.verb = "open" => "app" \in DOMAIN cli.opts
  /\ "agentfs" \in DOMAIN cli.globals

LEMMA DefaultsDomain ==
  ASSUME NEW verb, NEW m
  PROVE  DOMAIN Defaults(verb, m) = CASE verb \in {"new", "-t"} -> {"from"}
                                      [] verb = "open" -> {"app"}
                                      [] OTHER -> {}
BY DEF Defaults

LEMMA CliIsComplete ==
  ASSUME NEW line, CanParse(line), NEW m PROVE Complete(Cli(line, m))
<1> DEFINE cli == Cli(line, m)
<1>1. DOMAIN cli.opts = DOMAIN line.opts \cup DOMAIN Defaults(line.verb, m) /\ IsMap(cli.opts)
  BY WithDomain DEF Cli
<1>2. "agentfs" \in DOMAIN cli.globals /\ IsMap(cli.globals)
  BY WithDomain DEF Cli
<1>3. cli.verb = (IF line.verb = "-t" THEN "new" ELSE line.verb)
  BY DEF Cli
<1> HIDE DEF cli
<1>4. cli.verb \in Verbs \ {"-t"}
  BY <1>3 DEF CanParse, Verbs, OfEnv, OfSession, Plain
<1>5. Required(cli.verb) = Required(line.verb)
  BY <1>3 DEF Required, OfEnv, OfSession, Plain
<1>6. Optional(line.verb) \cup DOMAIN Defaults(line.verb, m) \subseteq Optional(cli.verb)
  <2>1. CASE line.verb \in {"new", "-t"}
    <3>1. Optional("-t") \cup {"from"} \subseteq Optional("new")
      BY DEF Optional
    <3>2. cli.verb = "new" /\ DOMAIN Defaults(line.verb, m) = {"from"}
      BY <1>3, <2>1, DefaultsDomain
    <3>3. "from" \in Optional("new")
      BY <3>1
    <3> QED BY <2>1, <3>1, <3>2, <3>3
  <2>2. CASE line.verb = "open"
    <3>1. "app" \in Optional("open")
      BY DEF Optional
    <3> QED BY <1>3, <2>2, <3>1, DefaultsDomain
  <2>3. CASE line.verb \notin {"new", "-t", "open"}
    BY <1>3, <2>3, DefaultsDomain
  <2> QED BY <2>1, <2>2, <2>3
<1>7. /\ cli.verb = "new" => "from" \in DOMAIN cli.opts
      /\ cli.verb = "open" => "app" \in DOMAIN cli.opts
  BY <1>1, <1>3, DefaultsDomain
<1>8. /\ Required(cli.verb) \subseteq DOMAIN cli.opts
      /\ DOMAIN cli.opts \subseteq Required(cli.verb) \cup Optional(cli.verb)
  BY <1>1, <1>5, <1>6 DEF CanParse
<1> QED BY <1>1, <1>2, <1>4, <1>7, <1>8 DEF Complete, cli

\* What a command becomes when it is sent on and parsed there.
Forwarded(cli) == [verb |-> AsSent(cli.verb), opts |-> cli.opts, globals |-> cli.globals]

LEMMA AllIsPushed ==
  ASSUME NEW cli, Complete(cli) PROVE DOMAIN cli.opts \subseteq Pushed(cli.verb)
<1>1. Required(cli.verb) \cup Optional(cli.verb) \subseteq Pushed(cli.verb)
  <2>1. ASSUME NEW verb \in Verbs \ {"-t"}
        PROVE  Required(verb) \subseteq Pushed(verb) /\ Optional(verb) \subseteq Pushed(verb)
    <3>1. CASE verb \in OfEnv
      BY <3>1 DEF OfEnv, OfSession, Plain, Required, Optional, Pushed
    <3>2. CASE verb \in OfSession
      BY <3>2 DEF OfEnv, OfSession, Plain, Required, Optional, Pushed
    <3>3. CASE verb \in Plain
      BY <3>3 DEF OfEnv, OfSession, Plain, Required, Optional, Pushed
    <3>4. CASE verb \in {"new", "base freeze", "env create", "shell"}
      BY <3>4 DEF OfEnv, OfSession, Plain, Required, Optional, Pushed
    <3>5. CASE verb \in {"exec", "open", "session create", "export", "apply"}
      BY <3>5 DEF OfEnv, OfSession, Plain, Required, Optional, Pushed
    <3> QED BY <3>1, <3>2, <3>3, <3>4, <3>5 DEF Verbs
  <2> QED BY <2>1 DEF Complete
<1> QED BY <1>1 DEF Complete

LEMMA ArrivesWhole ==
  ASSUME NEW cli, Complete(cli), NEW m
  PROVE  CanParse(RemoteLine(cli)) /\ Cli(RemoteLine(cli), m) = Forwarded(cli)
<1> DEFINE line == RemoteLine(cli)
<1>1. line = [verb |-> AsSent(cli.verb), opts |-> cli.opts, globals |-> cli.globals]
  BY AllIsPushed, RestrictToAll DEF Complete, RemoteLine, AppendCommandArgs
<1>2. line.verb = AsSent(cli.verb) /\ line.opts = cli.opts /\ line.globals = cli.globals
  BY <1>1
<1>3. line.verb \in Verbs \ {"-t"}
  BY <1>2 DEF AsSent, Complete, Verbs, OfEnv, OfSession, Plain
<1>4. Required(line.verb) = Required(cli.verb) /\ Optional(line.verb) = Optional(cli.verb)
  BY <1>2 DEF AsSent, Required, Optional, OfEnv, OfSession, Plain
<1>5. CanParse(line)
  BY <1>2, <1>3, <1>4 DEF Complete, CanParse
<1>6. DOMAIN Defaults(line.verb, m) \subseteq DOMAIN cli.opts
  <2>1. line.verb \in {"new", "open"} => line.verb = cli.verb
    BY <1>2 DEF AsSent
  <2>2. CASE line.verb = "new"
    BY <2>1, <2>2, DefaultsDomain DEF Complete
  <2>3. CASE line.verb = "open"
    BY <2>1, <2>3, DefaultsDomain DEF Complete
  <2>4. CASE line.verb \notin {"new", "open"}
    BY <1>3, <2>4, DefaultsDomain
  <2> QED BY <2>2, <2>3, <2>4
<1>7. With(line.opts, Defaults(line.verb, m)) = cli.opts
  BY <1>2, <1>6, WithNothingNew DEF Complete
<1>8. With(line.globals, [agentfs |-> DefaultAgentfs(m)]) = cli.globals
  BY <1>2, WithNothingNew DEF Complete
<1> HIDE DEF line
<1>9. Cli(line, m) = Forwarded(cli)
  BY <1>2, <1>3, <1>7, <1>8 DEF Cli, Forwarded
<1> QED BY <1>5, <1>9 DEF line

-----------------------------------------------------------------------------
(* The request that is made of it.                                         *)

LEMMA SameRequest ==
  ASSUME NEW cli, NEW m PROVE ToRequest(Forwarded(cli), m) = ToRequest(cli, m)
<1> DEFINE sent == Forwarded(cli)
<1>1. sent.verb = AsSent(cli.verb) /\ sent.opts = cli.opts /\ sent.globals = cli.globals
  BY DEF Forwarded
<1> HIDE DEF sent
<1>2. Profile(sent) = Profile(cli)
  BY <1>1 DEF Profile, LoadConfig
<1>3. Type(sent.verb) = Type(cli.verb)
  BY <1>1 DEF Type, AsSent
<1>4. Fields(sent, m) = Fields(cli, m)
  <2>1. CASE cli.verb = "ls"
    BY <1>1, <2>1 DEF Fields, AsSent
  <2>2. CASE cli.verb = "rm"
    BY <1>1, <2>2 DEF Fields, AsSent
  <2>3. CASE cli.verb \notin {"ls", "rm"}
    <3>1. sent.verb = cli.verb
      BY <1>1, <2>3 DEF AsSent
    <3> QED BY <1>1, <1>2, <3>1 DEF Fields
  <2> QED BY <2>1, <2>2, <2>3
<1> QED BY <1>3, <1>4 DEF ToRequest, sent

LEMMA GivenDomain == ASSUME NEW f, NEW S PROVE DOMAIN Given(f, S) = S \cap DOMAIN f
BY DEF Given, Restrict

\* The daemon takes every request that agentctl makes.
LEMMA RequestIsUnderstood ==
  ASSUME NEW cli, Complete(cli), NEW m PROVE Understood(ToRequest(cli, m))
<1> DEFINE type == Type(cli.verb)
           fields == DOMAIN Fields(cli, m)
<1>1. SUFFICES /\ fields \subseteq AllowedFields(type)
               /\ AllowedFields(type) \ MayBeMissing \subseteq fields
  BY DEF Understood, ToRequest
<1>2. /\ Required(cli.verb) \subseteq DOMAIN cli.opts
      /\ DOMAIN cli.opts \subseteq Required(cli.verb) \cup Optional(cli.verb)
  BY DEF Complete
<1>3. CASE cli.verb = "init"
  <2>1. fields = {"agentfs"} /\ AllowedFields(type) = {"agentfs"}
    BY <1>3 DEF Fields, Type, AllowedFields
  <2> QED BY <2>1
<1>4. CASE cli.verb \in {"ls", "env list"}
  <2>1. Fields(cli, m) = << >>
    BY <1>4 DEF Fields
  <2>2. fields = {}
    BY <2>1
  <2>3. AllowedFields(type) = {}
    BY <1>4 DEF Type, AllowedFields
  <2> QED BY <2>2, <2>3
<1>5. CASE cli.verb \in {"rm", "env start", "env stop", "env destroy", "env status"}
  <2>1. fields = {"id"}
    BY <1>5 DEF Fields
  <2>2. AllowedFields(type) = {"id"}
    BY <1>5 DEF Type, AllowedFields
  <2> QED BY <2>1, <2>2
<1>6. CASE cli.verb = "new"
  <2> DEFINE given == Given(cli.opts, {"target", "from", "backend", "base", "command"})
             rest == [base |-> "base-001", command |-> "none", profile |-> Profile(cli),
                      limits |-> Given(cli.opts, LimitOptions), cwd |-> Cwd(m)]
  <2>1. Fields(cli, m) = With(given, rest)
    BY <1>6 DEF Fields
  <2>2. DOMAIN given = {"target", "from", "backend", "base", "command"} \cap DOMAIN cli.opts
    BY GivenDomain
  <2>3. DOMAIN rest = {"base", "command", "profile", "limits", "cwd"}
    OBVIOUS
  <2>4. fields = DOMAIN given \cup DOMAIN rest
    BY <2>1, WithDomain
  <2> HIDE DEF given, rest
  <2>5. "target" \in DOMAIN given /\ "from" \in DOMAIN given
    BY <1>2, <1>6, <2>2 DEF Required, OfEnv, OfSession, Plain, Complete
  <2>6. AllowedFields(type) =
          {"target", "base", "from", "backend", "profile", "limits", "command", "cwd"}
    BY <1>6 DEF Type, AllowedFields
  <2> QED BY <2>2, <2>3, <2>4, <2>5, <2>6 DEF MayBeMissing
<1>7. CASE cli.verb = "env create"
  <2>1. fields = {"id", "base", "profile", "limits"}
    BY <1>7 DEF Fields
  <2>2. AllowedFields(type) = {"id", "base", "profile", "limits"}
    BY <1>7 DEF Type, AllowedFields
  <2> QED BY <2>1, <2>2
<1>8. CASE cli.verb = "shell"
  <2> DEFINE given == Given(cli.opts, {"persistent"})
             rest == [id |-> cli.opts["env_id"], cwd |-> Cwd(m)]
  <2>1. Fields(cli, m) = With(given, rest)
    BY <1>8 DEF Fields
  <2>2. DOMAIN given \subseteq {"persistent"} /\ DOMAIN rest = {"id", "cwd"}
    BY GivenDomain
  <2>3. fields = DOMAIN given \cup DOMAIN rest
    BY <2>1, WithDomain
  <2> HIDE DEF given, rest
  <2>4. AllowedFields(type) = {"id", "cwd", "persistent"}
    BY <1>8 DEF Type, AllowedFields
  <2> QED BY <2>2, <2>3, <2>4 DEF MayBeMissing
<1>9. CASE cli.verb = "exec"
  <2>1. fields = {"id", "command", "cwd"}
    BY <1>9 DEF Fields
  <2>2. AllowedFields(type) = {"id", "command", "cwd"}
    BY <1>9 DEF Type, AllowedFields
  <2> QED BY <2>1, <2>2
<1>10. CASE cli.verb \in {"open", "session create"}
  <2>1. CASE cli.verb = "open"
    <3>1. fields = DOMAIN cli.opts \cup {"path"}
      BY <2>1, WithDomain DEF Fields
    <3>2. AllowedFields(type) = {"env_id", "app", "path"}
      BY <2>1 DEF Type, AllowedFields
    <3>3. "env_id" \in DOMAIN cli.opts /\ "app" \in DOMAIN cli.opts
          /\ DOMAIN cli.opts \subseteq {"env_id", "app", "path"}
      BY <1>2, <2>1 DEF Required, Optional, OfEnv, OfSession, Plain, Complete
    <3> QED BY <3>1, <3>2, <3>3
  <2>2. CASE cli.verb = "session create"
    <3>1. fields = DOMAIN cli.opts \cup {"cwd"}
      BY <2>2, WithDomain DEF Fields
    <3>2. AllowedFields(type) = {"env_id", "session_id", "command", "cwd"}
      BY <2>2 DEF Type, AllowedFields
    <3>3. DOMAIN cli.opts = {"env_id", "session_id", "command"}
      BY <1>2, <2>2 DEF Required, Optional, OfEnv, OfSession, Plain
    <3> QED BY <3>1, <3>2, <3>3
  <2> QED BY <1>10, <2>1, <2>2
<1>11. CASE cli.verb = "export"
  <2>1. fields = {"env_id", "export_type"}
    BY <1>11 DEF Fields
  <2>2. AllowedFields(type) = {"env_id", "export_type"}
    BY <1>11 DEF Type, AllowedFields
  <2> QED BY <2>1, <2>2
<1>12. CASE cli.verb = "apply"
  <2>1. fields = {"env_id", "force"}
    BY <1>12 DEF Fields
  <2>2. AllowedFields(type) = {"env_id", "force"}
    BY <1>12 DEF Type, AllowedFields
  <2> QED BY <2>1, <2>2
<1>13. CASE cli.verb \in OfSession \cup {"session list", "diff", "base freeze"}
  <2>1. fields = DOMAIN cli.opts
    BY <1>13 DEF Fields, OfSession
  <2>2. CASE cli.verb \in OfSession
    <3>1. DOMAIN cli.opts = {"env_id", "session_id"}
      BY <1>2, <2>2 DEF Required, Optional, OfEnv, OfSession, Plain
    <3>2. AllowedFields(type) = {"env_id", "session_id"}
      BY <2>2 DEF Type, AllowedFields, OfSession
    <3> QED BY <2>1, <3>1, <3>2
  <2>3. CASE cli.verb \in {"session list", "diff"}
    <3>1. DOMAIN cli.opts = {"env_id"}
      BY <1>2, <2>3 DEF Required, Optional, OfEnv, OfSession, Plain
    <3>2. AllowedFields(type) = {"env_id"}
      BY <2>3 DEF Type, AllowedFields
    <3> QED BY <2>1, <3>1, <3>2
  <2>4. CASE cli.verb = "base freeze"
    <3>1. {"name", "from"} \subseteq DOMAIN cli.opts
          /\ DOMAIN cli.opts \subseteq {"name", "from", "backend"}
      BY <1>2, <2>4 DEF Required, Optional, OfEnv, OfSession, Plain
    <3>2. AllowedFields(type) = {"name", "from", "backend"}
      BY <2>4 DEF Type, AllowedFields
    <3> QED BY <2>1, <3>1, <3>2 DEF MayBeMissing
  <2> QED BY <1>13, <2>2, <2>3, <2>4
<1> QED BY <1>3, <1>4, <1>5, <1>6, <1>7, <1>8, <1>9, <1>10, <1>11, <1>12, <1>13
        DEF Complete, Verbs, OfEnv, OfSession, Plain

LEMMA AnswerIsOne ==
  ASSUME NEW request PROVE Answer(request) \notin {"usage", "invalid"}
BY DEF Answer

\* What ends in a terminal session has asked for a terminal.
LEMMA AttachAsksForTty ==
  ASSUME NEW cli, Complete(cli), NEW m,
         "command" \in DOMAIN cli.opts => cli.opts["command"] # "none",
         Answer(ToRequest(cli, m)) = "attach"
  PROVE  NeedsRemoteTty(cli)
<1> DEFINE fields == Fields(cli, m)
<1>1. \/ Type(cli.verb) \in {"shell", "session_attach"}
      \/ Type(cli.verb) = "new" /\ fields["command"] = "none"
  BY DEF Answer, ToRequest
<1>2. CASE Type(cli.verb) \in {"shell", "session_attach"}
  BY <1>2 DEF Type, NeedsRemoteTty, Complete, Verbs, OfEnv, OfSession, Plain
<1>3. CASE Type(cli.verb) = "new" /\ fields["command"] = "none"
  <2>1. cli.verb = "new"
    BY <1>3 DEF Type, Complete, Verbs, OfEnv, OfSession, Plain
  <2> DEFINE given == Given(cli.opts, {"target", "from", "backend", "base", "command"})
  <2>2. ASSUME "command" \in DOMAIN cli.opts PROVE fields["command"] = cli.opts["command"]
    <3>1. "command" \in DOMAIN given /\ given["command"] = cli.opts["command"]
      BY <2>2 DEF Given, Restrict
    <3> HIDE DEF given
    <3>2. \E rest : fields = With(given, rest)
      BY <2>1 DEF Fields, given
    <3> QED BY <3>1, <3>2, WithFirst
  <2> QED BY <1>3, <2>1, <2>2 DEF NeedsRemoteTty
<1> QED BY <1>1, <1>2, <1>3

-----------------------------------------------------------------------------
(* The clients.                                                            *)

Away(line) == Cli(line, "away")

\* What a client knows of its command.
ClientOK(r) ==
  /\ r = [pc |-> r.pc, line |-> r.line, remote |-> r.remote, tty |-> r.tty, to |-> r.to,
          answer |-> r.answer]
  /\ r.remote \in BOOLEAN
  /\ r.pc # "idle" => r.line \in Lines
  /\ r.pc = "idle" => ~r.remote
  /\ r.pc = "ssh" => r.remote
  /\ r.pc \in {"idle", "ssh", "typed"} => r.answer = "none"
  /\ r.remote /\ r.pc # "ssh" => (NeedsRemoteTty(Away(r.line)) => r.tty)
  /\ ~r.remote => r.tty
  /\ r.answer \notin {"usage", "invalid"}
  /\ r.answer = "attach" => r.tty

ClientInv == client = [c \in Clients |-> client[c]] /\ \A c \in Clients : ClientOK(client[c])

\* Wherever it was typed, the daemon's machine has a command of its own.
LEMMA MadeIsComplete ==
  ASSUME NEW line \in Lines, NEW remote \in BOOLEAN
  PROVE  /\ Complete(Away(line)) /\ CanParse(RemoteLine(Away(line)))
         /\ Made(line, remote) = IF remote THEN Forwarded(Away(line)) ELSE Cli(line, "host")
         /\ Complete(Cli(line, "host"))
BY LinesAssumption, CliIsComplete, ArrivesWhole DEF Made, Away

LEMMA SentIsUnderstood ==
  ASSUME NEW line \in Lines, NEW remote \in BOOLEAN
  PROVE  Understood(ToRequest(Made(line, remote), "host"))
<1>1. CASE remote
  <2>1. Understood(ToRequest(Away(line), "host"))
    BY MadeIsComplete, RequestIsUnderstood
  <2> QED BY <1>1, <2>1, MadeIsComplete, SameRequest
<1>2. CASE ~remote
  BY <1>2, MadeIsComplete, RequestIsUnderstood
<1> QED BY <1>1, <1>2

\* The command is as it was typed.
LEMMA CommandIsTyped ==
  ASSUME NEW line \in Lines, NEW m, "command" \in DOMAIN Cli(line, m).opts
  PROVE  Cli(line, m).opts["command"] # "none"
<1> DEFINE defaults == Defaults(line.verb, m)
<1>1. Cli(line, m).opts = With(line.opts, defaults)
  BY DEF Cli
<1>2. "command" \notin DOMAIN defaults
  BY DefaultsDomain
<1> HIDE DEF defaults
<1>3. DOMAIN Cli(line, m).opts = DOMAIN line.opts \cup DOMAIN defaults
  BY <1>1, WithDomain
<1>4. "command" \in DOMAIN line.opts
  BY <1>2, <1>3
<1> QED BY <1>1, <1>4, WithFirst, LinesAssumption

LEMMA AttachWantsTty ==
  ASSUME NEW line \in Lines, Answer(ToRequest(Made(line, TRUE), "host")) = "attach"
  PROVE  NeedsRemoteTty(Away(line))
<1>1. Answer(ToRequest(Away(line), "host")) = "attach"
  BY MadeIsComplete, SameRequest
<1>2. "command" \in DOMAIN Away(line).opts => Away(line).opts["command"] # "none"
  BY CommandIsTyped DEF Away
<1> QED BY <1>1, <1>2, MadeIsComplete, AttachAsksForTty

LEMMA Updated ==
  ASSUME ClientInv, NEW c \in Clients, NEW fields, Update(c, fields),
         ClientOK(With(fields, client[c]))
  PROVE  ClientInv'
BY DEF ClientInv, Update

\* The fields of a client that an update leaves alone.
LEMMA UpdatedField ==
  ASSUME NEW r, NEW fields,
         DOMAIN fields \subseteq DOMAIN r, DOMAIN r = {"pc", "line", "remote", "tty", "to", "answer"}
  PROVE  LET s == With(fields, r) IN
         /\ s = [pc |-> s.pc, line |-> s.line, remote |-> s.remote, tty |-> s.tty, to |-> s.to,
                 answer |-> s.answer]
         /\ \A x \in DOMAIN fields : s[x] = fields[x]
         /\ \A x \in DOMAIN r \ DOMAIN fields : s[x] = r[x]
<1> DEFINE s == With(fields, r)
<1>1. DOMAIN s = {"pc", "line", "remote", "tty", "to", "answer"} /\ IsMap(s)
  <2>1. DOMAIN s = DOMAIN fields \cup DOMAIN r /\ IsMap(s)
    BY WithDomain
  <2> QED BY <2>1
<1>2. /\ \A x \in DOMAIN fields : s[x] = fields[x]
      /\ \A x \in DOMAIN r \ DOMAIN fields : s[x] = r[x]
  BY WithFirst, WithRest
<1> HIDE DEF s
<1>3. s = [pc |-> s.pc, line |-> s.line, remote |-> s.remote, tty |-> s.tty, to |-> s.to,
           answer |-> s.answer]
  BY <1>1 DEF IsMap
<1> QED BY <1>2, <1>3 DEF s

LEMMA IdleOK == ClientOK(Idle)
BY DEF ClientOK, Idle

LEMMA ClientOver ==
  ASSUME NEW r, ClientOK(r), r.pc \notin {"idle", "ssh"}, NEW pc \in {"handled", "over"}, NEW answer,
         answer \notin {"usage", "invalid"}, answer = "attach" => r.tty
  PROVE  ClientOK(With([pc |-> pc, answer |-> answer], r))
<1> DEFINE fields == [pc |-> pc, answer |-> answer]
           s == With(fields, r)
<1>1. DOMAIN fields = {"pc", "answer"} /\ fields.pc = pc /\ fields.answer = answer
  OBVIOUS
<1>2. DOMAIN r = {"pc", "line", "remote", "tty", "to", "answer"}
  BY DEF ClientOK
<1> HIDE DEF fields
<1>3. /\ s = [pc |-> s.pc, line |-> s.line, remote |-> s.remote, tty |-> s.tty, to |-> s.to,
              answer |-> s.answer]
      /\ \A x \in DOMAIN fields : s[x] = fields[x]
      /\ \A x \in DOMAIN r \ DOMAIN fields : s[x] = r[x]
  BY <1>1, <1>2, UpdatedField
<1> HIDE DEF s
<1>4. s.pc = pc /\ s.answer = answer /\ s.line = r.line /\ s.remote = r.remote /\ s.tty = r.tty
  BY <1>1, <1>2, <1>3
<1>5. ClientOK(s)
  BY <1>3, <1>4 DEF ClientOK
<1> QED BY <1>5 DEF s, fields

LEMMA ClientTypes ==
  ASSUME NEW r, ClientOK(r), r.pc = "idle", NEW line \in Lines, NEW remote \in BOOLEAN
  PROVE  ClientOK(With([pc |-> IF remote THEN "ssh" ELSE "typed",
                        line |-> line, remote |-> remote], r))
<1> DEFINE fields == [pc |-> IF remote THEN "ssh" ELSE "typed", line |-> line, remote |-> remote]
           s == With(fields, r)
<1>1. /\ DOMAIN fields = {"pc", "line", "remote"}
      /\ fields.pc = (IF remote THEN "ssh" ELSE "typed") /\ fields.line = line
      /\ fields.remote = remote
  OBVIOUS
<1>2. DOMAIN r = {"pc", "line", "remote", "tty", "to", "answer"}
  BY DEF ClientOK
<1> HIDE DEF fields
<1>3. /\ s = [pc |-> s.pc, line |-> s.line, remote |-> s.remote, tty |-> s.tty, to |-> s.to,
              answer |-> s.answer]
      /\ \A x \in DOMAIN fields : s[x] = fields[x]
      /\ \A x \in DOMAIN r \ DOMAIN fields : s[x] = r[x]
  BY <1>1, <1>2, UpdatedField
<1> HIDE DEF s
<1>4. /\ s.pc = (IF remote THEN "ssh" ELSE "typed") /\ s.line = line /\ s.remote = remote
      /\ s.answer = r.answer /\ s.tty = r.tty
  BY <1>1, <1>2, <1>3
<1>5. ClientOK(s)
  BY <1>3, <1>4 DEF ClientOK
<1> QED BY <1>5 DEF s, fields

LEMMA ClientAsked ==
  ASSUME NEW r, ClientOK(r), r.pc = "ssh"
  PROVE  ClientOK(With([pc |-> "typed", tty |-> NeedsRemoteTty(Away(r.line))], r))
<1> DEFINE tty == NeedsRemoteTty(Away(r.line))
           fields == [pc |-> "typed", tty |-> tty]
           s == With(fields, r)
<1> HIDE DEF tty
<1>1. DOMAIN fields = {"pc", "tty"} /\ fields.pc = "typed" /\ fields.tty = tty
  OBVIOUS
<1>2. DOMAIN r = {"pc", "line", "remote", "tty", "to", "answer"}
  BY DEF ClientOK
<1> HIDE DEF fields
<1>3. /\ s = [pc |-> s.pc, line |-> s.line, remote |-> s.remote, tty |-> s.tty, to |-> s.to,
              answer |-> s.answer]
      /\ \A x \in DOMAIN fields : s[x] = fields[x]
      /\ \A x \in DOMAIN r \ DOMAIN fields : s[x] = r[x]
  BY <1>1, <1>2, UpdatedField
<1> HIDE DEF s
<1>4. s.pc = "typed" /\ s.line = r.line /\ s.remote = r.remote /\ s.answer = r.answer
  BY <1>1, <1>2, <1>3
<1>5. s.tty = tty
  BY <1>1, <1>3
<1>6. NeedsRemoteTty(Away(s.line)) => s.tty
  BY <1>4, <1>5 DEF tty
<1>7. ClientOK(s)
  BY <1>3, <1>4, <1>6 DEF ClientOK
<1> QED BY <1>7 DEF s, fields, tty

LEMMA ClientSends ==
  ASSUME NEW r, ClientOK(r), r.pc = "typed", NEW d
  PROVE  ClientOK(With([pc |-> "sent", to |-> d], r))
<1> DEFINE fields == [pc |-> "sent", to |-> d]
           s == With(fields, r)
<1>1. DOMAIN fields = {"pc", "to"} /\ fields.pc = "sent" /\ fields.to = d
  OBVIOUS
<1>2. DOMAIN r = {"pc", "line", "remote", "tty", "to", "answer"}
  BY DEF ClientOK
<1> HIDE DEF fields
<1>3. /\ s = [pc |-> s.pc, line |-> s.line, remote |-> s.remote, tty |-> s.tty, to |-> s.to,
              answer |-> s.answer]
      /\ \A x \in DOMAIN fields : s[x] = fields[x]
      /\ \A x \in DOMAIN r \ DOMAIN fields : s[x] = r[x]
  BY <1>1, <1>2, UpdatedField
<1> HIDE DEF s
<1>4. /\ s.pc = "sent" /\ s.line = r.line /\ s.remote = r.remote
      /\ s.answer = r.answer /\ s.tty = r.tty
  BY <1>1, <1>2, <1>3
<1>5. ClientOK(s)
  BY <1>3, <1>4 DEF ClientOK
<1> QED BY <1>5 DEF s, fields

LEMMA ClientStepKeeps ==
  ASSUME ClientInv, NEW c \in Clients, ClientStep(c) PROVE ClientInv'
<1> DEFINE r == client[c]
<1>1. ClientOK(r)
  BY DEF ClientInv
<1>2. CASE TypeLine(c)
  <2>1. PICK line \in Lines, remote \in BOOLEAN :
          Update(c, [pc |-> IF remote THEN "ssh" ELSE "typed", line |-> line, remote |-> remote])
    BY <1>2 DEF TypeLine
  <2>2. r.pc = "idle"
    BY <1>2 DEF TypeLine
  <2> QED BY <1>1, <2>1, <2>2, ClientTypes, Updated
<1>3. CASE RunSsh(c)
  <2>1. r.pc = "ssh" /\ r.line \in Lines
    BY <1>1, <1>3 DEF RunSsh, ClientOK
  <2>2. CanParse(RemoteLine(Away(r.line)))
    BY <2>1, MadeIsComplete
  <2>3. Update(c, [pc |-> "typed", tty |-> NeedsRemoteTty(Away(r.line))])
    BY <1>3, <2>2 DEF RunSsh, Away
  <2> QED BY <1>1, <2>1, <2>3, ClientAsked, Updated
<1>4. CASE ConnectAndSend(c)
  <2>1. r.pc = "typed"
    BY <1>4 DEF ConnectAndSend
  <2>2. \/ \E answer \in {"refused", "no daemon"} : Update(c, [pc |-> "over", answer |-> answer])
        \/ \E d \in Daemons : Update(c, [pc |-> "sent", to |-> d])
    BY <1>4 DEF ConnectAndSend, Over
  <2> QED BY <1>1, <2>1, <2>2, ClientOver, ClientSends, Updated
<1>5. CASE HandleLine(c)
  <2>1. r.pc = "sent" /\ r.line \in Lines /\ r.remote \in BOOLEAN
    BY <1>1, <1>5 DEF HandleLine, ClientOK
  <2>2. Understood(Sent(c))
    BY <2>1, SentIsUnderstood DEF Sent
  <2>3. PICK answer \in {Answer(Sent(c)), "error"} : Update(c, [pc |-> "handled", answer |-> answer])
    BY <1>5, <2>2 DEF HandleLine
  <2>4. answer \notin {"usage", "invalid"}
    BY AnswerIsOne
  <2>5. ASSUME answer = "attach" PROVE r.tty
    <3>1. CASE r.remote
      <4>1. Answer(ToRequest(Made(r.line, TRUE), "host")) = "attach"
        BY <2>5, <3>1 DEF Sent
      <4>2. NeedsRemoteTty(Away(r.line))
        BY <2>1, <4>1, AttachWantsTty
      <4> QED BY <1>1, <2>1, <3>1, <4>2 DEF ClientOK
    <3>2. CASE ~r.remote
      BY <1>1, <3>2 DEF ClientOK
    <3> QED BY <3>1, <3>2
  <2>6. ClientOK(With([pc |-> "handled", answer |-> answer], r))
    BY <1>1, <2>1, <2>4, <2>5, ClientOver
  <2> QED BY <2>3, <2>6, Updated
<1>6. CASE PrintResponse(c)
  <2>1. r.pc = "handled" /\ Update(c, [pc |-> "over", answer |-> r.answer])
    BY <1>6 DEF PrintResponse, Over
  <2>2. r.answer \notin {"usage", "invalid"} /\ (r.answer = "attach" => r.tty)
    BY <1>1 DEF ClientOK
  <2>3. ClientOK(With([pc |-> "over", answer |-> r.answer], r))
    BY <1>1, <2>1, <2>2, ClientOver
  <2> QED BY <2>1, <2>3, Updated
<1>7. CASE ClientEnds(c)
  BY <1>7, IdleOK DEF ClientEnds, ClientInv
<1> QED BY <1>2, <1>3, <1>4, <1>5, <1>6, <1>7 DEF ClientStep

LEMMA LostKeeps ==
  ASSUME ClientInv, NEW d \in Daemons, Lost(d) PROVE ClientInv'
<1>1. ASSUME NEW c \in Clients PROVE ClientOK(client'[c])
  <2>1. ClientOK(client[c])
    BY DEF ClientInv
  <2>2. CASE client[c].to = d /\ client[c].pc \in {"sent", "handled"}
    <3>1. client'[c] = With([pc |-> "over", answer |-> "lost"], client[c])
      BY <2>2 DEF Lost
    <3> QED BY <2>1, <2>2, <3>1, ClientOver
  <2>3. CASE ~(client[c].to = d /\ client[c].pc \in {"sent", "handled"})
    BY <2>1, <2>3 DEF Lost
  <2> QED BY <2>2, <2>3
<1>2. client' = [c \in Clients |-> client'[c]]
  BY DEF Lost
<1> QED BY <1>1, <1>2 DEF ClientInv

LEMMA ClientInvariance == Spec => []ClientInv
<1>1. Init => ClientInv
  BY IdleOK DEF Init, ClientInv
<1>2. ClientInv /\ [Next]_vars => ClientInv'
  <2> SUFFICES ASSUME ClientInv, [Next]_vars PROVE ClientInv'
    OBVIOUS
  <2>1. ASSUME NEW d \in Daemons, DaemonStep(d) PROVE ClientInv'
    <3>1. client' = client
      BY <2>1 DEF DaemonStep, StartDaemon, LookForSocket, ProbeSocket, RemoveSocket, BindSocket,
                  OpenSocket
    <3> QED BY <3>1 DEF ClientInv
  <2>2. ASSUME NEW d \in Daemons, KillDaemon(d) PROVE ClientInv'
    BY <2>2, LostKeeps DEF KillDaemon
  <2>3. CASE UNCHANGED vars
    BY <2>3 DEF vars, ClientInv
  <2> QED BY <2>1, <2>2, <2>3, ClientStepKeeps DEF Next
<1> QED BY <1>1, <1>2, PTL DEF Spec

-----------------------------------------------------------------------------
(* The theorems.                                                           *)

\* On whichever machine a command was typed: if its answer is a session to
\* attach to, it was given a terminal, although ssh had to be told before the
\* request was made.
THEOREM AttachedHasTty == Spec => []AttachHasTty
<1>1. ClientInv => AttachHasTty
  BY DEF ClientInv, ClientOK, AttachHasTty
<1> QED BY <1>1, ClientInvariance, PTL

\* What differs between two Linux machines is the directory.
LEMMA LinuxCli ==
  ASSUME AwayPlatform = "linux", NEW line
  PROVE  Away(line) = Cli(line, "host")
<1>1. DefaultAgentfs("away") = DefaultAgentfs("host") /\ DefaultSource("away") = DefaultSource("host")
  BY DEF DefaultAgentfs, DefaultSource, Platform
<1>2. Defaults(line.verb, "away") = Defaults(line.verb, "host")
  BY <1>1 DEF Defaults
<1> QED BY <1>1, <1>2 DEF Away, Cli

\* Between two Linux machines a command given through --remote becomes the
\* request that it would be if typed on the daemon's machine; clap takes it
\* there, and the daemon takes the request.
THEOREM LinuxRemoteIsLocal == ASSUME AwayPlatform = "linux" PROVE Spec => []RemoteIsLocal
<1>1. ClientInv => RemoteIsLocal
  <2> SUFFICES ASSUME ClientInv, NEW c \in Clients
               PROVE  /\ client[c].answer \notin {"usage", "invalid"}
                      /\ client[c].pc \in {"sent", "handled"} =>
                           Sent(c) = ToRequest(Cli(client[c].line, "host"), "host")
    BY DEF RemoteIsLocal
  <2>1. ClientOK(client[c])
    BY DEF ClientInv
  <2>2. ASSUME client[c].pc \in {"sent", "handled"}
        PROVE  Sent(c) = ToRequest(Cli(client[c].line, "host"), "host")
    <3>1. client[c].line \in Lines /\ client[c].remote \in BOOLEAN
      BY <2>1, <2>2 DEF ClientOK
    <3> QED BY <3>1, MadeIsComplete, LinuxCli, SameRequest DEF Sent
  <2> QED BY <2>1, <2>2 DEF ClientOK
<1> QED BY <1>1, ClientInvariance, PTL

\* The store that a command without --agentfs means.
LEMMA LinuxStore ==
  ASSUME AwayPlatform = "linux", NEW line \in Lines, line.globals = << >>
  PROVE  LoadConfig(Made(line, TRUE)).agentfs = "/agentfs"
<1> DEFINE default == [agentfs |-> DefaultAgentfs("away")]
           globals == With(line.globals, default)
<1>1. DefaultAgentfs("away") = "/agentfs"
  BY DEF DefaultAgentfs, Platform
<1>2. Made(line, TRUE).globals = globals
  <2>1. Made(line, TRUE) = Forwarded(Away(line))
    BY MadeIsComplete
  <2>2. Away(line).globals = globals
    BY DEF Away, Cli
  <2>3. Forwarded(Away(line)).globals = Away(line).globals
    BY DEF Forwarded
  <2> QED BY <2>1, <2>2, <2>3
<1>3. DOMAIN line.globals = {} /\ DOMAIN default = {"agentfs"} /\ default["agentfs"] = "/agentfs"
  BY <1>1
<1> HIDE DEF default
<1>4. DOMAIN globals = DOMAIN line.globals \cup DOMAIN default
  BY WithDomain
<1>5. globals["agentfs"] = "/agentfs" /\ "config" \notin DOMAIN globals
  BY <1>3, <1>4, WithRest
<1> HIDE DEF globals
<1> QED BY <1>2, <1>5 DEF LoadConfig

LEMMA FindsDaemon ==
  ASSUME AwayPlatform = "linux", ClientInv, NEW c \in Clients, ConnectAndSend(c),
         client[c].remote, client[c].line.globals = << >>, Reachable
  PROVE  client'[c].answer # "no daemon"
<1> DEFINE r == client[c]
           cli == Made(r.line, r.remote)
<1>1. ClientOK(r) /\ r.pc = "typed"
  BY DEF ClientInv, ConnectAndSend
<1>2. r.line \in Lines /\ r.remote = TRUE /\ r.answer = "none"
  BY <1>1 DEF ClientOK
<1>3. LoadConfig(cli).agentfs = "/agentfs"
  BY <1>2, LinuxStore
<1>4. \/ Update(c, [pc |-> "over", answer |-> "refused"])
      \/ \E d \in Daemons : Update(c, [pc |-> "sent", to |-> d])
  BY <1>3 DEF ConnectAndSend, Over
<1>5. DOMAIN r = {"pc", "line", "remote", "tty", "to", "answer"}
  BY <1>1 DEF ClientOK
<1>6. CASE Update(c, [pc |-> "over", answer |-> "refused"])
  <2> DEFINE fields == [pc |-> "over", answer |-> "refused"]
  <2>1. "answer" \in DOMAIN fields /\ fields["answer"] = "refused"
    OBVIOUS
  <2>2. client'[c] = With(fields, r)
    BY <1>6 DEF Update, ClientInv
  <2> HIDE DEF fields
  <2>3. With(fields, r)["answer"] = "refused"
    BY <2>1, WithFirst
  <2> QED BY <2>2, <2>3
<1>7. ASSUME NEW d \in Daemons, Update(c, [pc |-> "sent", to |-> d])
      PROVE  client'[c].answer # "no daemon"
  <2> DEFINE fields == [pc |-> "sent", to |-> d]
  <2>1. "answer" \notin DOMAIN fields
    OBVIOUS
  <2>2. client'[c] = With(fields, r)
    BY <1>7 DEF Update, ClientInv
  <2> HIDE DEF fields
  <2>3. With(fields, r)["answer"] = r["answer"]
    BY <1>5, <2>1, WithRest
  <2> QED BY <1>2, <2>2, <2>3
<1> QED BY <1>4, <1>6, <1>7

\* Between two Linux machines a remote command that names no store of its own
\* finds the daemon that is there.
THEOREM LinuxRemoteReachesDaemon ==
  ASSUME AwayPlatform = "linux" PROVE Spec => RemoteReachesDaemon
<1>1. ClientInv /\ [Next]_vars =>
        [\A c \in Clients :
           (/\ client[c].pc = "typed" /\ client[c].remote
            /\ client[c].line.globals = << >> /\ Reachable)
           => client'[c].answer # "no daemon"]_vars
  <2> SUFFICES ASSUME ClientInv, Next, NEW c \in Clients, client[c].pc = "typed", client[c].remote,
                      client[c].line.globals = << >>, Reachable
               PROVE  client'[c].answer # "no daemon"
    OBVIOUS
  <2>1. client[c].answer = "none"
    BY DEF ClientInv, ClientOK
  <2>2. ASSUME NEW d \in Daemons, DaemonStep(d) \/ KillDaemon(d) PROVE client'[c] = client[c]
    <3>1. CASE DaemonStep(d)
      BY <3>1 DEF DaemonStep, StartDaemon, LookForSocket, ProbeSocket, RemoveSocket, BindSocket,
                  OpenSocket
    <3>2. CASE KillDaemon(d)
      BY <3>2 DEF KillDaemon, Lost
    <3> QED BY <2>2, <3>1, <3>2
  <2>3. ASSUME NEW other \in Clients \ {c}, ClientStep(other) PROVE client'[c] = client[c]
    BY <2>3 DEF ClientStep, TypeLine, RunSsh, ConnectAndSend, HandleLine, PrintResponse, ClientEnds,
                Over, Update, ClientInv
  <2>4. CASE ClientStep(c)
    <3>1. ConnectAndSend(c) \/ ClientEnds(c)
      BY <2>4 DEF ClientStep, TypeLine, RunSsh, HandleLine, PrintResponse
    <3>2. CASE ClientEnds(c)
      BY <3>2 DEF ClientEnds, Idle, ClientInv
    <3> QED BY <3>1, <3>2, FindsDaemon
  <2> QED BY <2>1, <2>2, <2>3, <2>4 DEF Next
<1> QED BY <1>1, ClientInvariance, PTL DEF Spec, RemoteReachesDaemon

==============================================================================
