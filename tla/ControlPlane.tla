---------------------------- MODULE ControlPlane ----------------------------
(***************************************************************************)
(* agent-forkd's control socket and the clients that use it: a daemon      *)
(* looks whether somebody answers at the socket, removes it if nobody does,*)
(* binds it and opens it to all; it may be killed at any moment, and       *)
(* systemd (Supervised) starts it again.  A client makes its request, here *)
(* or through ssh on the daemon's machine, sends one line and reads one.   *)
(*                                                                         *)
(* The handlers are the other modules: here a request is handled or ends   *)
(* in an error.  A connection is served by a task of its own, so clients   *)
(* meet only at the socket.  That of the desktop is a TCP port, which      *)
(* leaves nothing behind: it is not modelled.                              *)
(***************************************************************************)
EXTENDS Agentctl, Naturals, FiniteSets

CONSTANTS
  Clients,     \* agentctl processes
  Daemons,     \* agent-forkd processes
  Supervised,  \* those that systemd starts again
  Lines,       \* the command lines that are tried
  NoOne,       \* no daemon, no line
  MaxCrashes   \* bound: kills of a daemon

ASSUME SupervisedAssumption == Supervised \subseteq Daemons
\* "none" is a request's command where none was typed.
ASSUME LinesAssumption ==
  \A line \in Lines :
    /\ CanParse(line)
    /\ "command" \in DOMAIN line.opts => line.opts["command"] # "none"

VARIABLES
  path,     \* socket_path: "none", "dead" (a socket of no process), or whose it is
  daemon,   \* per process: where it is
  client,   \* per client: where it is, what was typed and where, what came of it
  crashes,
  overlap   \* history: two daemons were starting up at the same time

vars == <<path, daemon, client, crashes, overlap>>

StartingUp == {"look", "probe", "remove", "bind", "open"}
Listening(d) == path = d /\ daemon[d] \in {"open", "serve"}
Reachable == \E d \in Daemons : path = d /\ daemon[d] = "serve"

Idle == [pc |-> "idle", line |-> NoOne, remote |-> FALSE, tty |-> TRUE, to |-> NoOne,
         answer |-> "none"]

-----------------------------------------------------------------------------
(* The daemon                                                              *)

Goto(d, pc) == daemon' = [daemon EXCEPT ![d] = pc]

\* With an error: Restart=on-failure starts a supervised one again.
Exits(d) == Goto(d, "down")

StartDaemon(d) ==
  /\ daemon[d] = "down"
  /\ Goto(d, "look")
  /\ overlap' = (overlap \/ \E other \in Daemons : daemon[other] \in StartingUp)
  /\ UNCHANGED <<path, client, crashes>>

LookForSocket(d) ==
  /\ daemon[d] = "look"
  /\ Goto(d, IF path = "none" THEN "bind" ELSE "probe")
  /\ UNCHANGED <<path, client, crashes, overlap>>

\* Mutant: a socket that nobody answers is left where it is.
ProbeLeaves(d) ==
  /\ daemon[d] = "probe"
  /\ IF \E other \in Daemons : Listening(other) THEN Exits(d) ELSE Goto(d, "bind")
  /\ UNCHANGED <<path, client, crashes, overlap>>

ProbeSocket(d) ==
  /\ daemon[d] = "probe"
  /\ IF \E other \in Daemons : Listening(other) THEN Exits(d) ELSE Goto(d, "remove")
  /\ UNCHANGED <<path, client, crashes, overlap>>

\* What is there now need not be what did not answer.
RemoveSocket(d) ==
  /\ daemon[d] = "remove"
  /\ path' = "none"
  /\ IF path = "none" THEN Exits(d) ELSE Goto(d, "bind")
  /\ UNCHANGED <<client, crashes, overlap>>

BindSocket(d) ==
  /\ daemon[d] = "bind"
  /\ IF path = "none" THEN path' = d /\ Goto(d, "open") ELSE UNCHANGED path /\ Exits(d)
  /\ UNCHANGED <<client, crashes, overlap>>

\* set_permissions 0666, by the path.
OpenSocket(d) ==
  /\ daemon[d] = "open"
  /\ IF path = "none" THEN Exits(d) ELSE Goto(d, "serve")
  /\ UNCHANGED <<path, client, crashes, overlap>>

\* A request under way loses its connection, whatever it has done so far.
Lost(d) ==
  client' = [c \in Clients |-> IF client[c].to = d /\ client[c].pc \in {"sent", "handled"}
                               THEN With([pc |-> "over", answer |-> "lost"], client[c])
                               ELSE client[c]]

KillDaemon(d) ==
  /\ daemon[d] # "down"
  /\ crashes < MaxCrashes
  /\ crashes' = crashes + 1
  /\ Goto(d, "down")
  /\ path' = IF path = d THEN "dead" ELSE path
  /\ Lost(d)
  /\ UNCHANGED overlap

-----------------------------------------------------------------------------
(* The client                                                              *)

Update(c, fields) == client' = [client EXCEPT ![c] = With(fields, @)]

Over(c, answer) == Update(c, [pc |-> "over", answer |-> answer])

\* The machine where the request is made, and the command as it is there.
Made(line, remote) ==
  IF remote THEN Cli(RemoteLine(Cli(line, "away")), "host") ELSE Cli(line, "host")

Sent(c) == ToRequest(Made(client[c].line, client[c].remote), "host")

TypeLine(c) ==
  /\ client[c].pc = "idle"
  /\ \E line \in Lines, remote \in BOOLEAN :
       Update(c, [pc |-> IF remote THEN "ssh" ELSE "typed", line |-> line, remote |-> remote])
  /\ UNCHANGED <<path, daemon, crashes, overlap>>

RunSsh(c) ==
  LET cli == Cli(client[c].line, "away") IN
  /\ client[c].pc = "ssh"
  /\ IF CanParse(RemoteLine(cli))
     THEN Update(c, [pc |-> "typed", tty |-> NeedsRemoteTty(cli)])
     ELSE Over(c, "usage")
  /\ UNCHANGED <<path, daemon, crashes, overlap>>

\* A request is refused, finds no daemon at its socket, or one whose socket
\* is not yet open to all, or is sent.
ConnectAndSend(c) ==
  LET cli == Made(client[c].line, client[c].remote) IN
  /\ client[c].pc = "typed"
  /\ \/ Refused(cli) /\ Over(c, "refused")
     \/ ~Refused(cli) /\ ~(Reachable /\ LoadConfig(cli).agentfs = "/agentfs") /\ Over(c, "no daemon")
     \/ \E d \in Daemons :
          ~Refused(cli) /\ LoadConfig(cli).agentfs = "/agentfs" /\ Listening(d)
            /\ Update(c, [pc |-> "sent", to |-> d])
  /\ UNCHANGED <<path, daemon, crashes, overlap>>

HandleLine(c) ==
  /\ client[c].pc = "sent"
  /\ daemon[client[c].to] = "serve"
  /\ \/ ~Understood(Sent(c)) /\ Update(c, [pc |-> "handled", answer |-> "invalid"])
     \/ Understood(Sent(c))
        /\ \E answer \in {Answer(Sent(c)), "error"} : Update(c, [pc |-> "handled", answer |-> answer])
  /\ UNCHANGED <<path, daemon, crashes, overlap>>

\* print_response: an attach runs `machinectl shell ... tmux attach-session`.
PrintResponse(c) ==
  /\ client[c].pc = "handled"
  /\ Over(c, client[c].answer)
  /\ UNCHANGED <<path, daemon, crashes, overlap>>

\* The process ends by itself, or is killed: what it asked for goes on.
ClientEnds(c) ==
  /\ client[c].pc # "idle"
  /\ client' = [client EXCEPT ![c] = Idle]
  /\ UNCHANGED <<path, daemon, crashes, overlap>>

-----------------------------------------------------------------------------

Init ==
  /\ path \in {"none", "dead"}
  /\ daemon = [d \in Daemons |-> "down"]
  /\ client = [c \in Clients |-> Idle]
  /\ crashes = 0
  /\ overlap = FALSE

DaemonStep(d) ==
  \/ StartDaemon(d) \/ LookForSocket(d) \/ ProbeSocket(d)
  \/ RemoveSocket(d) \/ BindSocket(d) \/ OpenSocket(d)

ClientStep(c) ==
  \/ TypeLine(c) \/ RunSsh(c) \/ ConnectAndSend(c) \/ HandleLine(c)
  \/ PrintResponse(c) \/ ClientEnds(c)

Next ==
  \/ \E d \in Daemons : DaemonStep(d) \/ KillDaemon(d)
  \/ \E c \in Clients : ClientStep(c)

Spec == Init /\ [][Next]_vars

\* What has begun to start up goes on, and systemd starts its daemon again.
Supervision ==
  \A d \in Daemons :
    /\ WF_vars(daemon[d] # "down" /\ DaemonStep(d))
    /\ d \in Supervised => WF_vars(StartDaemon(d))

FairSpec == Spec /\ Supervision

-----------------------------------------------------------------------------
(* Properties                                                              *)

\* Wherever daemons were killed, whatever sockets they left: in the end one
\* answers again, unless two have started up side by side, of which one can
\* remove the socket the other has just bound.
DaemonComesBack == []<>(Reachable \/ overlap)

\* A command that is given through --remote arrives, and becomes the request
\* that it would be if typed on the daemon's machine; and no command becomes a
\* request that the daemon does not understand.
RemoteIsLocal ==
  \A c \in Clients :
    /\ client[c].answer \notin {"usage", "invalid"}
    /\ client[c].pc \in {"sent", "handled"} => Sent(c) = ToRequest(Cli(client[c].line, "host"), "host")

\* A remote command that ends in a terminal session was given a terminal, which
\* is decided before its request is made.
AttachHasTty == \A c \in Clients : client[c].answer = "attach" => client[c].tty

\* A remote command that names no store of its own finds the daemon, if there
\* is one.
RemoteReachesDaemon ==
  [][\A c \in Clients :
       (/\ client[c].pc = "typed" /\ client[c].remote
        /\ client[c].line.globals = << >> /\ Reachable)
       => client'[c].answer # "no daemon"]_vars
=============================================================================
