----------------------------- MODULE MCDesktop -----------------------------
(* A user's home with the store in it, a project with a directory, a link  *)
(* to the project, and a roundabout way of writing its path.               *)
EXTENDS DesktopSessions

Symmetry == Permutations(Pids)

HomeDir == <<"Users", "me">>
StoreDir == HomeDir \o <<".agentfs">>
Project == HomeDir \o <<"project">>
Link == HomeDir \o <<"link">>

HostDirs == {<<>>, <<"Users">>, HomeDir, StoreDir, Project, Project \o <<"src">>}
HostLinks == Link :> Project
System == {<<"Users">>}

Dotted == Project \o <<"src", "..">>

MCSources == {Project, HomeDir, Link, Dotted}
=============================================================================
