------------------------- MODULE EnvRequestProofs -------------------------
(***************************************************************************)
(* Proofs about the two modules on top of EnvLifecycle.  What              *)
(* EnvLifecycleProofs shows of the steps they share is used as it stands.  *)
(*                                                                         *)
(* EnvSessions: for any number of clients and sessions.                    *)
(*                                                                         *)
(* NewTarget: its steps are steps of EnvLifecycle, and with one request at *)
(* a time a recorded base is final, an env is made of a frozen base only,  *)
(* a job that failed can be repeated, and a `new` leaves the machine of a  *)
(* running env alone.                                                      *)
(***************************************************************************)
EXTENDS EnvSessions, NewTarget, EnvLifecycleProofs

-----------------------------------------------------------------------------
(* Types.                                                                  *)

LEMMA SessionCopy ==
  ASSUME TypeOK, NEW c \in Clients, req[c].pc \in SessionSteps
  PROVE  req[c].env \in EnvRecord
BY CopyType, StepLabels DEF TypeOK

LEMMA WithSessionType ==
  ASSUME NEW env \in EnvRecord, NEW s \in Sessions
  PROVE  WithSession(env, s) \in EnvRecord
BY DEF WithSession, EnvRecord

LEMMA SyncType ==
  ASSUME NEW env \in EnvRecord, NEW listed \in SUBSET Sessions
  PROVE  SyncSessionIndex(env, listed) \in EnvRecord
BY DEF SyncSessionIndex, EnvRecord

LEMMA SessionStoreStep ==
  ASSUME SessionTypeOK, NEW c \in Clients, SessionHandler(c)
  PROVE  StoreOK'
<1> USE DEF SessionTypeOK, TypeOK, StoreOK, Keep, ReadEnv, resources, volumes, WriteSession
<1>1. ASSUME NEW op \in SessionOps, NEW s \in Sessions, SessionRead(c, op, s)
      PROVE  StoreOK'
  BY <1>1 DEF SessionRead
<1>2. ASSUME SessionFile(c) PROVE StoreOK'
  BY <1>2 DEF SessionFile
<1>3. ASSUME SessionProbe(c) PROVE StoreOK'
  BY <1>3 DEF SessionProbe
<1>4. ASSUME ShellCreate(c) PROVE StoreOK'
  BY <1>4 DEF ShellCreate
<1>5. ASSUME SessionTmux(c) PROVE StoreOK'
  BY <1>5 DEF SessionTmux
<1>6. ASSUME SessionFileWritten(c) PROVE StoreOK'
  BY <1>6 DEF SessionFileWritten
<1>7. ASSUME ShellIndex(c) PROVE StoreOK'
  <2>1. req[c].env \in EnvRecord
    BY <1>7, SessionCopy DEF ShellIndex, At, SessionSteps
  <2> QED BY <1>7, <2>1 DEF ShellIndex, WriteEnv, StoreOK, resources
<1>8. ASSUME ShellReread(c) PROVE StoreOK'
  BY <1>8 DEF ShellReread
<1>9. ASSUME MarkStopped(c) PROVE StoreOK'
  BY <1>9 DEF MarkStopped
<1>10. ASSUME MarkRunning(c) PROVE StoreOK'
  BY <1>10 DEF MarkRunning
<1>11. ASSUME DetachTmux(c) PROVE StoreOK'
  BY <1>11 DEF DetachTmux
<1>12. ASSUME KillTmux(c) PROVE StoreOK'
  BY <1>12 DEF KillTmux
<1>13. ASSUME KillMark(c) PROVE StoreOK'
  BY <1>13 DEF KillMark
<1>14. ASSUME ListRead(c) PROVE StoreOK'
  BY <1>14 DEF ListRead
<1>15. ASSUME ListLive(c) PROVE StoreOK'
  BY <1>15 DEF ListLive
<1>16. ASSUME ListFiles(c) PROVE StoreOK'
  BY <1>16 DEF ListFiles
<1>17. ASSUME ListMark(c) PROVE StoreOK'
  BY <1>17 DEF ListMark
<1>18. ASSUME ListIndex(c) PROVE StoreOK'
  <2>1. req[c].env \in EnvRecord
    BY <1>18, SessionCopy DEF ListIndex, At, SessionSteps
  <2>2. arg[c].listed \in SUBSET Sessions
    BY DEF ArgType
  <2>3. SyncSessionIndex(req[c].env, arg[c].listed) \in EnvRecord
    BY <2>1, <2>2, SyncType
  <2> QED BY <1>18, <2>3 DEF ListIndex, WriteEnv, StoreOK, resources
<1>19. ASSUME SessionFails(c) PROVE StoreOK'
  BY <1>19 DEF SessionFails
<1> QED
  BY <1>1, <1>2, <1>3, <1>4, <1>5, <1>6, <1>7, <1>8, <1>9, <1>10,
     <1>11, <1>12, <1>13, <1>14, <1>15, <1>16, <1>17, <1>18, <1>19
  DEF SessionHandler

LEMMA SessionRequestStep ==
  ASSUME SessionTypeOK, NEW c \in Clients, SessionHandler(c)
  PROVE  req' \in [Clients -> Request]
<1> USE DEF SessionTypeOK, TypeOK
<1>1. ASSUME NEW op \in SessionOps, NEW s \in Sessions, SessionRead(c, op, s)
      PROVE  req' \in [Clients -> Request]
  BY <1>1, GotoRead, ZeroId, StepLabels DEF SessionRead, ReadEnv, Goto, StoreOK, SessionSteps
<1>2. ASSUME SessionFile(c) PROVE req' \in [Clients -> Request]
  <2>1. req[c].env \in EnvRecord
    BY <1>2, SessionCopy DEF SessionFile, At, SessionSteps
  <2> QED
    BY <1>2, <2>1, GotoRead, ZeroId, StepLabels, DecisionTypes
    DEF SessionFile, Active, Goto, SessionSteps, WriteSteps
<1>3. ASSUME SessionProbe(c) PROVE req' \in [Clients -> Request]
  <2>1. req[c].env \in EnvRecord
    BY <1>3, SessionCopy DEF SessionProbe, At, SessionSteps
  <2>3. CASE GiveUp(c)
    BY <2>3, DoneType DEF GiveUp
  <2>4. CASE ~GiveUp(c)
    BY <1>3, <2>1, <2>4, GotoRead, ZeroId, StepLabels, DecisionTypes
    DEF SessionProbe, Active, Goto, SessionSteps, WriteSteps
  <2> QED BY <2>3, <2>4
<1>4. ASSUME ShellCreate(c) PROVE req' \in [Clients -> Request]
  BY <1>4, GotoRead, ZeroId, StepLabels, DecisionTypes DEF ShellCreate, Goto, StoreOK, SessionSteps, WriteSteps
<1>5. ASSUME SessionTmux(c) PROVE req' \in [Clients -> Request]
  <2>1. req[c].env \in EnvRecord
    BY <1>5, SessionCopy DEF SessionTmux, At, SessionSteps
  <2>2. arg[c].sid \in Sessions
    BY <1>5 DEF SessionTmux, At, NamedSteps, SessionSteps
  <2>3. MarkActive(WithSession(req[c].env, arg[c].sid)) \in EnvRecord
    BY <2>1, <2>2, WithSessionType, DecisionTypes
  <2> QED
    BY <1>5, <2>3, GotoRead, ZeroId, StepLabels DEF SessionTmux, Goto, SessionSteps
<1>6. ASSUME SessionFileWritten(c) PROVE req' \in [Clients -> Request]
  <2>1. req[c].env \in EnvRecord
    BY <1>6, SessionCopy DEF SessionFileWritten, At, SessionSteps
  <2> QED
    BY <1>6, <2>1, GotoRead, ZeroId, StepLabels
    DEF SessionFileWritten, SessionCreated, Goto, SessionSteps, WriteSteps
<1>7. ASSUME ShellIndex(c) PROVE req' \in [Clients -> Request]
  <2>1. req[c].env \in EnvRecord
    BY <1>7, SessionCopy DEF ShellIndex, At, SessionSteps
  <2> QED
    BY <1>7, <2>1, GotoRead, ZeroId, StepLabels, DecisionTypes
    DEF ShellIndex, Active, Goto, SessionSteps, WriteSteps
<1>8. ASSUME ShellReread(c) PROVE req' \in [Clients -> Request]
  BY <1>8, GotoRead, ZeroId, StepLabels, DecisionTypes DEF ShellReread, Goto, StoreOK, SessionSteps, WriteSteps
<1>9. ASSUME MarkStopped(c) PROVE req' \in [Clients -> Request]
  BY <1>9, DoneType DEF MarkStopped, GiveUp
<1>10. ASSUME MarkRunning(c) PROVE req' \in [Clients -> Request]
  <2>1. req[c].env \in EnvRecord
    BY <1>10, SessionCopy DEF MarkRunning, At, SessionSteps
  <2> QED
    BY <1>10, <2>1, GotoRead, ZeroId, StepLabels, DecisionTypes
    DEF MarkRunning, Active, Goto, SessionSteps, WriteSteps
<1>11. ASSUME DetachTmux(c) PROVE req' \in [Clients -> Request]
  <2>1. req[c].env \in EnvRecord
    BY <1>11, SessionCopy DEF DetachTmux, At, SessionSteps
  <2> QED
    BY <1>11, <2>1, GotoRead, ZeroId, StepLabels, DecisionTypes
    DEF DetachTmux, Active, Goto, SessionSteps, WriteSteps
<1>12. ASSUME KillTmux(c) PROVE req' \in [Clients -> Request]
  <2>1. req[c].env \in EnvRecord
    BY <1>12, SessionCopy DEF KillTmux, At, SessionSteps
  <2> QED
    BY <1>12, <2>1, GotoRead, ZeroId, StepLabels, DecisionTypes
    DEF KillTmux, Active, Goto, SessionSteps, WriteSteps
<1>13. ASSUME KillMark(c) PROVE req' \in [Clients -> Request]
  <2>1. req[c].env \in EnvRecord
    BY <1>13, SessionCopy DEF KillMark, At, SessionSteps
  <2> QED
    BY <1>13, <2>1, GotoRead, ZeroId, StepLabels, DecisionTypes
    DEF KillMark, Active, Goto, SessionSteps, WriteSteps
<1>14. ASSUME ListRead(c) PROVE req' \in [Clients -> Request]
  BY <1>14, GotoRead, ZeroId, StepLabels DEF ListRead, ReadEnv, Goto, StoreOK, SessionSteps
<1>15. ASSUME ListLive(c) PROVE req' \in [Clients -> Request]
  <2>1. req[c].env \in EnvRecord
    BY <1>15, SessionCopy DEF ListLive, At, SessionSteps
  <2> QED
    BY <1>15, <2>1, GotoRead, ZeroId, StepLabels, DecisionTypes
    DEF ListLive, Active, Goto, SessionSteps, WriteSteps
<1>16. ASSUME ListFiles(c) PROVE req' \in [Clients -> Request]
  <2>1. req[c].env \in EnvRecord
    BY <1>16, SessionCopy DEF ListFiles, At, SessionSteps
  <2> QED
    BY <1>16, <2>1, GotoRead, ZeroId, StepLabels, DecisionTypes
    DEF ListFiles, Active, Goto, SessionSteps, WriteSteps
<1>17. ASSUME ListMark(c) PROVE req' \in [Clients -> Request]
  BY <1>17 DEF ListMark
<1>18. ASSUME ListIndex(c) PROVE req' \in [Clients -> Request]
  BY <1>18, DoneType DEF ListIndex, GiveUp
<1>19. ASSUME SessionFails(c) PROVE req' \in [Clients -> Request]
  BY <1>19, DoneType DEF SessionFails, GiveUp
<1> QED
  BY <1>1, <1>2, <1>3, <1>4, <1>5, <1>6, <1>7, <1>8, <1>9, <1>10,
     <1>11, <1>12, <1>13, <1>14, <1>15, <1>16, <1>17, <1>18, <1>19
  DEF SessionHandler

\* What session requests have found out stays well formed, and session files
\* do not go away.
ArgsOK ==
  /\ files \in [Sessions -> {"none", "Running", "Stopped"}]
  /\ tmux \subseteq Sessions
  /\ arg \in [Clients -> ArgType]

LEMMA SidKnown ==
  ASSUME SessionTypeOK, NEW c \in Clients, req[c].pc \in NamedSteps
  PROVE  arg[c].sid \in Sessions
BY DEF SessionTypeOK

LEMMA NoArgType == NoArg \in ArgType
BY DEF NoArg, ArgType, SessionOps

LEMMA SessionArgsStep ==
  ASSUME SessionTypeOK, NEW c \in Clients, SessionHandler(c)
  PROVE  ArgsOK'
<1> USE NoArgType, SidKnown
    DEF SessionTypeOK, ArgsOK, ArgType, NoArg, SessionOps, SetArg, GiveUp, Active,
        WriteSession, SessionCreated, Known, At, NamedSteps, SessionSteps
<1>1. ASSUME NEW op \in SessionOps, NEW s \in Sessions, SessionRead(c, op, s)
      PROVE  ArgsOK'
  BY <1>1 DEF SessionRead
<1>2. ASSUME SessionFile(c) PROVE ArgsOK'
  BY <1>2 DEF SessionFile
<1>3. ASSUME SessionProbe(c) PROVE ArgsOK'
  BY <1>3 DEF SessionProbe
<1>4. ASSUME ShellCreate(c) PROVE ArgsOK'
  BY <1>4 DEF ShellCreate
<1>5. ASSUME SessionTmux(c) PROVE ArgsOK'
  BY <1>5 DEF SessionTmux
<1>6. ASSUME SessionFileWritten(c) PROVE ArgsOK'
  BY <1>6 DEF SessionFileWritten
<1>7. ASSUME ShellIndex(c) PROVE ArgsOK'
  BY <1>7 DEF ShellIndex
<1>8. ASSUME ShellReread(c) PROVE ArgsOK'
  BY <1>8 DEF ShellReread
<1>9. ASSUME MarkStopped(c) PROVE ArgsOK'
  BY <1>9 DEF MarkStopped
<1>10. ASSUME MarkRunning(c) PROVE ArgsOK'
  BY <1>10 DEF MarkRunning
<1>11. ASSUME DetachTmux(c) PROVE ArgsOK'
  BY <1>11 DEF DetachTmux
<1>12. ASSUME KillTmux(c) PROVE ArgsOK'
  BY <1>12 DEF KillTmux
<1>13. ASSUME KillMark(c) PROVE ArgsOK'
  BY <1>13 DEF KillMark
<1>14. ASSUME ListRead(c) PROVE ArgsOK'
  BY <1>14 DEF ListRead
<1>15. ASSUME ListLive(c) PROVE ArgsOK'
  BY <1>15 DEF ListLive
<1>16. ASSUME ListFiles(c) PROVE ArgsOK'
  BY <1>16 DEF ListFiles
<1>17. ASSUME ListMark(c) PROVE ArgsOK'
  BY <1>17 DEF ListMark
<1>18. ASSUME ListIndex(c) PROVE ArgsOK'
  BY <1>18 DEF ListIndex
<1>19. ASSUME SessionFails(c) PROVE ArgsOK'
  BY <1>19 DEF SessionFails
<1> QED
  BY <1>1, <1>2, <1>3, <1>4, <1>5, <1>6, <1>7, <1>8, <1>9, <1>10,
     <1>11, <1>12, <1>13, <1>14, <1>15, <1>16, <1>17, <1>18, <1>19
  DEF SessionHandler

LEMMA FilesStay ==
  ASSUME SessionTypeOK, NEW c \in Clients, SessionHandler(c)
  PROVE  Known \subseteq Known'
<1> USE DEF SessionTypeOK, WriteSession, Known
<1>1. ASSUME NEW op \in SessionOps, NEW s \in Sessions, SessionRead(c, op, s)
      PROVE  Known \subseteq Known'
  BY <1>1 DEF SessionRead
<1>2. ASSUME SessionFile(c) PROVE Known \subseteq Known'
  BY <1>2 DEF SessionFile
<1>3. ASSUME SessionProbe(c) PROVE Known \subseteq Known'
  BY <1>3 DEF SessionProbe
<1>4. ASSUME ShellCreate(c) PROVE Known \subseteq Known'
  BY <1>4 DEF ShellCreate
<1>5. ASSUME SessionTmux(c) PROVE Known \subseteq Known'
  BY <1>5 DEF SessionTmux
<1>6. ASSUME SessionFileWritten(c) PROVE Known \subseteq Known'
  BY <1>6 DEF SessionFileWritten
<1>7. ASSUME ShellIndex(c) PROVE Known \subseteq Known'
  BY <1>7 DEF ShellIndex
<1>8. ASSUME ShellReread(c) PROVE Known \subseteq Known'
  BY <1>8 DEF ShellReread
<1>9. ASSUME MarkStopped(c) PROVE Known \subseteq Known'
  BY <1>9 DEF MarkStopped
<1>10. ASSUME MarkRunning(c) PROVE Known \subseteq Known'
  BY <1>10 DEF MarkRunning
<1>11. ASSUME DetachTmux(c) PROVE Known \subseteq Known'
  BY <1>11 DEF DetachTmux
<1>12. ASSUME KillTmux(c) PROVE Known \subseteq Known'
  BY <1>12 DEF KillTmux
<1>13. ASSUME KillMark(c) PROVE Known \subseteq Known'
  BY <1>13 DEF KillMark
<1>14. ASSUME ListRead(c) PROVE Known \subseteq Known'
  BY <1>14 DEF ListRead
<1>15. ASSUME ListLive(c) PROVE Known \subseteq Known'
  BY <1>15 DEF ListLive
<1>16. ASSUME ListFiles(c) PROVE Known \subseteq Known'
  BY <1>16 DEF ListFiles
<1>17. ASSUME ListMark(c) PROVE Known \subseteq Known'
  BY <1>17 DEF ListMark
<1>18. ASSUME ListIndex(c) PROVE Known \subseteq Known'
  BY <1>18 DEF ListIndex
<1>19. ASSUME SessionFails(c) PROVE Known \subseteq Known'
  BY <1>19 DEF SessionFails
<1> QED
  BY <1>1, <1>2, <1>3, <1>4, <1>5, <1>6, <1>7, <1>8, <1>9, <1>10,
     <1>11, <1>12, <1>13, <1>14, <1>15, <1>16, <1>17, <1>18, <1>19
  DEF SessionHandler

\* A step of one client leaves the requests of the others alone.
LEMMA OthersStay ==
  ASSUME SessionTypeOK, NEW c \in Clients, NEW d \in Clients \ {c}, SessionHandler(c)
  PROVE  req'[d] = req[d] /\ arg'[d] = arg[d]
<1> USE DEF SessionTypeOK, ReadEnv, Goto, GotoWith, Done, SetArg, GiveUp, Active, SessionCreated, TypeOK
<1>1. ASSUME NEW op \in SessionOps, NEW s \in Sessions, SessionRead(c, op, s)
      PROVE  req'[d] = req[d] /\ arg'[d] = arg[d]
  BY <1>1 DEF SessionRead
<1>2. ASSUME SessionFile(c) PROVE req'[d] = req[d] /\ arg'[d] = arg[d]
  BY <1>2 DEF SessionFile
<1>3. ASSUME SessionProbe(c) PROVE req'[d] = req[d] /\ arg'[d] = arg[d]
  BY <1>3 DEF SessionProbe
<1>4. ASSUME ShellCreate(c) PROVE req'[d] = req[d] /\ arg'[d] = arg[d]
  BY <1>4 DEF ShellCreate
<1>5. ASSUME SessionTmux(c) PROVE req'[d] = req[d] /\ arg'[d] = arg[d]
  BY <1>5 DEF SessionTmux
<1>6. ASSUME SessionFileWritten(c) PROVE req'[d] = req[d] /\ arg'[d] = arg[d]
  BY <1>6 DEF SessionFileWritten
<1>7. ASSUME ShellIndex(c) PROVE req'[d] = req[d] /\ arg'[d] = arg[d]
  BY <1>7 DEF ShellIndex
<1>8. ASSUME ShellReread(c) PROVE req'[d] = req[d] /\ arg'[d] = arg[d]
  BY <1>8 DEF ShellReread
<1>9. ASSUME MarkStopped(c) PROVE req'[d] = req[d] /\ arg'[d] = arg[d]
  BY <1>9 DEF MarkStopped
<1>10. ASSUME MarkRunning(c) PROVE req'[d] = req[d] /\ arg'[d] = arg[d]
  BY <1>10 DEF MarkRunning
<1>11. ASSUME DetachTmux(c) PROVE req'[d] = req[d] /\ arg'[d] = arg[d]
  BY <1>11 DEF DetachTmux
<1>12. ASSUME KillTmux(c) PROVE req'[d] = req[d] /\ arg'[d] = arg[d]
  BY <1>12 DEF KillTmux
<1>13. ASSUME KillMark(c) PROVE req'[d] = req[d] /\ arg'[d] = arg[d]
  BY <1>13 DEF KillMark
<1>14. ASSUME ListRead(c) PROVE req'[d] = req[d] /\ arg'[d] = arg[d]
  BY <1>14 DEF ListRead
<1>15. ASSUME ListLive(c) PROVE req'[d] = req[d] /\ arg'[d] = arg[d]
  BY <1>15 DEF ListLive
<1>16. ASSUME ListFiles(c) PROVE req'[d] = req[d] /\ arg'[d] = arg[d]
  BY <1>16 DEF ListFiles
<1>17. ASSUME ListMark(c) PROVE req'[d] = req[d] /\ arg'[d] = arg[d]
  BY <1>17 DEF ListMark
<1>18. ASSUME ListIndex(c) PROVE req'[d] = req[d] /\ arg'[d] = arg[d]
  BY <1>18 DEF ListIndex
<1>19. ASSUME SessionFails(c) PROVE req'[d] = req[d] /\ arg'[d] = arg[d]
  BY <1>19 DEF SessionFails
<1> QED
  BY <1>1, <1>2, <1>3, <1>4, <1>5, <1>6, <1>7, <1>8, <1>9, <1>10,
     <1>11, <1>12, <1>13, <1>14, <1>15, <1>16, <1>17, <1>18, <1>19
  DEF SessionHandler

NamedAndListed(c) ==
  /\ req[c].pc \in NamedSteps => arg[c].sid \in Sessions
  /\ arg[c].todo \subseteq arg[c].listed
  /\ arg[c].listed \subseteq Known

LEMMA NamedStep ==
  ASSUME SessionTypeOK, NEW c \in Clients, SessionHandler(c)
  PROVE  NamedAndListed(c)'
<1>0. Known \subseteq Known' /\ NamedAndListed(c)
  BY FilesStay DEF SessionTypeOK, NamedAndListed
<1> USE <1>0
    DEF SessionTypeOK, TypeOK, NamedAndListed, ArgType, ReadEnv, Goto, GotoWith, Done, Idle,
        SetArg, NoArg, GiveUp, Active, SessionCreated, At, NamedSteps, SessionSteps
<1>1. ASSUME NEW op \in SessionOps, NEW s \in Sessions, SessionRead(c, op, s)
      PROVE  NamedAndListed(c)'
  BY <1>1 DEF SessionRead
<1>2. ASSUME SessionFile(c) PROVE NamedAndListed(c)'
  BY <1>2 DEF SessionFile
<1>3. ASSUME SessionProbe(c) PROVE NamedAndListed(c)'
  BY <1>3 DEF SessionProbe
<1>4. ASSUME ShellCreate(c) PROVE NamedAndListed(c)'
  BY <1>4 DEF ShellCreate
<1>5. ASSUME SessionTmux(c) PROVE NamedAndListed(c)'
  BY <1>5 DEF SessionTmux
<1>6. ASSUME SessionFileWritten(c) PROVE NamedAndListed(c)'
  BY <1>6 DEF SessionFileWritten
<1>7. ASSUME ShellIndex(c) PROVE NamedAndListed(c)'
  BY <1>7 DEF ShellIndex
<1>8. ASSUME ShellReread(c) PROVE NamedAndListed(c)'
  BY <1>8 DEF ShellReread
<1>9. ASSUME MarkStopped(c) PROVE NamedAndListed(c)'
  BY <1>9 DEF MarkStopped
<1>10. ASSUME MarkRunning(c) PROVE NamedAndListed(c)'
  BY <1>10 DEF MarkRunning
<1>11. ASSUME DetachTmux(c) PROVE NamedAndListed(c)'
  BY <1>11 DEF DetachTmux
<1>12. ASSUME KillTmux(c) PROVE NamedAndListed(c)'
  BY <1>12 DEF KillTmux
<1>13. ASSUME KillMark(c) PROVE NamedAndListed(c)'
  BY <1>13 DEF KillMark
<1>14. ASSUME ListRead(c) PROVE NamedAndListed(c)'
  BY <1>14 DEF ListRead
<1>15. ASSUME ListLive(c) PROVE NamedAndListed(c)'
  BY <1>15 DEF ListLive
<1>16. ASSUME ListFiles(c) PROVE NamedAndListed(c)'
  BY <1>16 DEF ListFiles
<1>17. ASSUME ListMark(c) PROVE NamedAndListed(c)'
  BY <1>17 DEF ListMark
<1>18. ASSUME ListIndex(c) PROVE NamedAndListed(c)'
  BY <1>18 DEF ListIndex
<1>19. ASSUME SessionFails(c) PROVE NamedAndListed(c)'
  BY <1>19 DEF SessionFails
<1> QED
  BY <1>1, <1>2, <1>3, <1>4, <1>5, <1>6, <1>7, <1>8, <1>9, <1>10,
     <1>11, <1>12, <1>13, <1>14, <1>15, <1>16, <1>17, <1>18, <1>19
  DEF SessionHandler

-----------------------------------------------------------------------------
(* The index.                                                              *)

LEMMA RecordIndex ==
  ASSUME NEW env \in EnvRecord
  PROVE  IndexOf(env) = env.sessions
BY NoMetaAssumption DEF IndexOf

LEMMA StateKeepsIndex ==
  ASSUME NEW env \in EnvRecord, NEW state \in EnvState
  PROVE  IndexOf([env EXCEPT !.state = state]) = IndexOf(env)
<1>1. [env EXCEPT !.state = state].sessions = env.sessions
  BY DEF EnvRecord
<1> QED BY <1>1, RecordIndex, WithState

\* No decision but the two about sessions changes the index of a copy.
LEMMA DecisionsKeepIndex ==
  ASSUME NEW env \in EnvRecord
  PROVE  /\ IndexOf(ApplyStopped(env)) = IndexOf(env)
         /\ IndexOf(MarkActive(env)) = IndexOf(env)
         /\ IndexOf(Refreshed(env)) = IndexOf(env)
         /\ IndexOf(QuotaMarked(env)) = IndexOf(env)
         /\ IndexOf(Aged(env)) = IndexOf(env)
<1>1. IndexOf([env EXCEPT !.fresh = TRUE]) = IndexOf(env)
  <2>1. [env EXCEPT !.fresh = TRUE].sessions = env.sessions
    BY DEF EnvRecord
  <2> QED BY <2>1, RecordIndex, WithFresh
<1>2. IndexOf([env EXCEPT !.fresh = FALSE]) = IndexOf(env)
  <2>1. [env EXCEPT !.fresh = FALSE].sessions = env.sessions
    BY DEF EnvRecord
  <2> QED BY <2>1, RecordIndex, WithFresh
<1> QED BY <1>1, <1>2, StateKeepsIndex
        DEF ApplyStopped, MarkActive, Refreshed, QuotaMarked, Aged, LiveState, EnvState

LEMMA SessionIndex ==
  ASSUME NEW env \in EnvRecord, NEW s \in Sessions
  PROVE  IndexOf(WithSession(env, s)) = IndexOf(env) \cup {s}
<1>1. WithSession(env, s).sessions = env.sessions \cup {s}
  BY DEF WithSession, EnvRecord
<1> QED BY <1>1, RecordIndex, WithSessionType

LEMMA ListedIndex ==
  ASSUME NEW env \in EnvRecord, NEW listed \in SUBSET Sessions
  PROVE  IndexOf(SyncSessionIndex(env, listed)) = listed
<1>1. SyncSessionIndex(env, listed).sessions = listed
  BY DEF SyncSessionIndex, EnvRecord
<1> QED BY <1>1, RecordIndex, SyncType

CopyIndexed(c) ==
  IndexOf(req[c].env) \subseteq Known \cup (IF At(c, "sessFile") THEN {arg[c].sid} ELSE {})

LEMMA SessionIndexStep ==
  ASSUME SessionTypeOK, IndexedSessionsHaveFiles, NEW c \in Clients, SessionHandler(c)
  PROVE  IndexOf(meta') \subseteq Known' /\ CopyIndexed(c)'
<1>0. Known \subseteq Known' /\ IndexOf(meta) \subseteq Known /\ CopyIndexed(c)
  BY FilesStay DEF IndexedSessionsHaveFiles, CopyIndexed
<1> USE <1>0 DEF SessionTypeOK, TypeOK, CopyIndexed, At
<1>1. ASSUME NEW op \in SessionOps, NEW s \in Sessions, SessionRead(c, op, s)
      PROVE  IndexOf(meta') \subseteq Known' /\ CopyIndexed(c)'
  BY <1>1 DEF SessionRead, ReadEnv, Goto, GotoWith, SessionSteps
<1>2. ASSUME SessionFile(c) PROVE IndexOf(meta') \subseteq Known' /\ CopyIndexed(c)'
  <2>1. req[c].env \in EnvRecord
    BY <1>2, SessionCopy DEF SessionFile, At, SessionSteps
  <2> QED
    BY <1>2, <2>1, DecisionsKeepIndex
    DEF SessionFile, Active, Goto, GotoWith, Keep, WriteEnv
<1>3. ASSUME SessionProbe(c) PROVE IndexOf(meta') \subseteq Known' /\ CopyIndexed(c)'
  <2>1. req[c].env \in EnvRecord
    BY <1>3, SessionCopy DEF SessionProbe, At, SessionSteps
  <2>2. CASE GiveUp(c)
    BY <1>3, <2>2 DEF SessionProbe, GiveUp, Done, Idle, IndexOf, Keep
  <2>3. CASE ~GiveUp(c)
    BY <1>3, <2>1, <2>3, DecisionsKeepIndex DEF SessionProbe, Active, Goto, GotoWith, Keep
  <2> QED BY <2>2, <2>3
<1>4. ASSUME ShellCreate(c) PROVE IndexOf(meta') \subseteq Known' /\ CopyIndexed(c)'
  BY <1>4 DEF ShellCreate, Goto, GotoWith, Keep
<1>5. ASSUME SessionTmux(c) PROVE IndexOf(meta') \subseteq Known' /\ CopyIndexed(c)'
  <2>1. req[c].env \in EnvRecord
    BY <1>5, SessionCopy DEF SessionTmux, At, SessionSteps
  <2>2. arg[c].sid \in Sessions
    BY <1>5, SidKnown DEF SessionTmux, At, NamedSteps, SessionSteps
  <2>3. IndexOf(MarkActive(WithSession(req[c].env, arg[c].sid)))
          = IndexOf(req[c].env) \cup {arg[c].sid}
    BY <2>1, <2>2, WithSessionType, SessionIndex, DecisionsKeepIndex
  <2> QED BY <1>5, <2>3 DEF SessionTmux, Goto, GotoWith
<1>6. ASSUME SessionFileWritten(c) PROVE IndexOf(meta') \subseteq Known' /\ CopyIndexed(c)'
  <2>1. arg[c].sid \in Known'
    BY <1>6, SidKnown DEF SessionFileWritten, WriteSession, Known, At, NamedSteps, SessionSteps
  <2> QED BY <1>6, <2>1, <1>0 DEF SessionFileWritten, SessionCreated, Goto, GotoWith
<1>7. ASSUME ShellIndex(c) PROVE IndexOf(meta') \subseteq Known' /\ CopyIndexed(c)'
  <2>1. req[c].env \in EnvRecord
    BY <1>7, SessionCopy DEF ShellIndex, At, SessionSteps
  <2> QED
    BY <1>7, <2>1, DecisionsKeepIndex
    DEF ShellIndex, Active, Goto, GotoWith, Keep, WriteEnv
<1>8. ASSUME ShellReread(c) PROVE IndexOf(meta') \subseteq Known' /\ CopyIndexed(c)'
  <2>1. meta \in EnvRecord
    BY <1>8 DEF ShellReread, StoreOK
  <2> QED BY <1>8, <2>1, DecisionsKeepIndex DEF ShellReread, Goto, GotoWith, Keep
<1>9. ASSUME MarkStopped(c) PROVE IndexOf(meta') \subseteq Known' /\ CopyIndexed(c)'
  BY <1>9 DEF MarkStopped, GiveUp, Done, Idle, IndexOf, Keep
<1>10. ASSUME MarkRunning(c) PROVE IndexOf(meta') \subseteq Known' /\ CopyIndexed(c)'
  <2>1. req[c].env \in EnvRecord
    BY <1>10, SessionCopy DEF MarkRunning, At, SessionSteps
  <2> QED
    BY <1>10, <2>1, DecisionsKeepIndex
    DEF MarkRunning, Active, Goto, GotoWith, Keep, WriteEnv
<1>11. ASSUME DetachTmux(c) PROVE IndexOf(meta') \subseteq Known' /\ CopyIndexed(c)'
  <2>1. req[c].env \in EnvRecord
    BY <1>11, SessionCopy DEF DetachTmux, At, SessionSteps
  <2> QED
    BY <1>11, <2>1, DecisionsKeepIndex
    DEF DetachTmux, Active, Goto, GotoWith, Keep, WriteEnv
<1>12. ASSUME KillTmux(c) PROVE IndexOf(meta') \subseteq Known' /\ CopyIndexed(c)'
  <2>1. req[c].env \in EnvRecord
    BY <1>12, SessionCopy DEF KillTmux, At, SessionSteps
  <2> QED
    BY <1>12, <2>1, DecisionsKeepIndex
    DEF KillTmux, Active, Goto, GotoWith, Keep, WriteEnv
<1>13. ASSUME KillMark(c) PROVE IndexOf(meta') \subseteq Known' /\ CopyIndexed(c)'
  <2>1. req[c].env \in EnvRecord
    BY <1>13, SessionCopy DEF KillMark, At, SessionSteps
  <2> QED
    BY <1>13, <2>1, DecisionsKeepIndex
    DEF KillMark, Active, Goto, GotoWith, Keep, WriteEnv
<1>14. ASSUME ListRead(c) PROVE IndexOf(meta') \subseteq Known' /\ CopyIndexed(c)'
  BY <1>14 DEF ListRead, ReadEnv, Goto, GotoWith, SessionSteps
<1>15. ASSUME ListLive(c) PROVE IndexOf(meta') \subseteq Known' /\ CopyIndexed(c)'
  <2>1. req[c].env \in EnvRecord
    BY <1>15, SessionCopy DEF ListLive, At, SessionSteps
  <2> QED
    BY <1>15, <2>1, DecisionsKeepIndex
    DEF ListLive, Active, Goto, GotoWith, Keep, WriteEnv
<1>16. ASSUME ListFiles(c) PROVE IndexOf(meta') \subseteq Known' /\ CopyIndexed(c)'
  <2>1. req[c].env \in EnvRecord
    BY <1>16, SessionCopy DEF ListFiles, At, SessionSteps
  <2> QED
    BY <1>16, <2>1, DecisionsKeepIndex
    DEF ListFiles, Active, Goto, GotoWith, Keep, WriteEnv
<1>17. ASSUME ListMark(c) PROVE IndexOf(meta') \subseteq Known' /\ CopyIndexed(c)'
  BY <1>17 DEF ListMark
<1>18. ASSUME ListIndex(c) PROVE IndexOf(meta') \subseteq Known' /\ CopyIndexed(c)'
  <2>1. req[c].env \in EnvRecord
    BY <1>18, SessionCopy DEF ListIndex, At, SessionSteps
  <2>2. IndexOf(SyncSessionIndex(req[c].env, arg[c].listed)) \subseteq Known
    BY <2>1, ListedIndex DEF ArgType
  <2> QED BY <1>18, <2>2 DEF ListIndex, WriteEnv, GiveUp, Done, Idle, IndexOf
<1>19. ASSUME SessionFails(c) PROVE IndexOf(meta') \subseteq Known' /\ CopyIndexed(c)'
  BY <1>19 DEF SessionFails, GiveUp, Done, Idle, IndexOf, Keep
<1> QED
  BY <1>1, <1>2, <1>3, <1>4, <1>5, <1>6, <1>7, <1>8, <1>9, <1>10,
     <1>11, <1>12, <1>13, <1>14, <1>15, <1>16, <1>17, <1>18, <1>19
  DEF SessionHandler

-----------------------------------------------------------------------------
(* The steps of the other handlers, and of the surroundings.               *)

\* A handler of EnvLifecycle takes the index from meta.json or from its copy.
LifecycleGoal(c) ==
  /\ \A d \in Clients \ {c} : req'[d] = req[d]
  /\ req[c].pc # "sessFile"
  /\ req'[c].pc \notin SessionSteps
  /\ IndexOf(meta') \subseteq IndexOf(meta) \cup IndexOf(req[c].env)
  /\ IndexOf(req'[c].env) \subseteq IndexOf(meta) \cup IndexOf(req[c].env)

LEMMA LifecycleStep ==
  ASSUME TypeOK, NEW c \in Clients, LifecycleHandler(c)
  PROVE  LifecycleGoal(c)
<1> USE DEF TypeOK, LifecycleGoal, At, resources
<1>1. ASSUME StartRead(c) PROVE LifecycleGoal(c)
  BY <1>1 DEF StartRead, ReadEnv, Goto, GotoWith, SessionSteps
<1>2. ASSUME StartPrep(c) PROVE LifecycleGoal(c)
  <2>1. req[c].env \in EnvRecord
    BY <1>2, CopyType, StepLabels DEF StartPrep, At
  <2> QED BY <1>2, <2>1, DecisionsKeepIndex DEF StartPrep, Goto, GotoWith, SessionSteps
<1>3. ASSUME StartStopUnit(c) PROVE LifecycleGoal(c)
  <2>1. req[c].env \in EnvRecord
    BY <1>3, CopyType, StepLabels DEF StartStopUnit, At
  <2> QED BY <1>3, <2>1, DecisionsKeepIndex DEF StartStopUnit, Goto, GotoWith, SessionSteps
<1>4. ASSUME StartRun(c) PROVE LifecycleGoal(c)
  <2>1. req[c].env \in EnvRecord
    BY <1>4, CopyType, StepLabels DEF StartRun, At
  <2> QED BY <1>4, <2>1, DecisionsKeepIndex DEF StartRun, Goto, GotoWith, SessionSteps
<1>5. ASSUME StartWait(c) PROVE LifecycleGoal(c)
  <2>1. req[c].env \in EnvRecord
    BY <1>5, CopyType, StepLabels DEF StartWait, At
  <2>2. IndexOf([MarkActive(req[c].env) EXCEPT !.state = "Running"]) = IndexOf(req[c].env)
    BY <2>1, StateKeepsIndex, DecisionsKeepIndex, DecisionTypes DEF EnvState
  <2> QED BY <1>5, <2>1, <2>2 DEF StartWait, Goto, GotoWith, SessionSteps
<1>6. ASSUME StartFail(c) PROVE LifecycleGoal(c)
  <2>1. req[c].env \in EnvRecord
    BY <1>6, CopyType, StepLabels DEF StartFail, At
  <2> QED BY <1>6, <2>1, StateKeepsIndex
          DEF StartFail, WriteEnv, Done, Idle, IndexOf, SessionSteps, EnvState
<1>7. ASSUME StopRead(c) PROVE LifecycleGoal(c)
  BY <1>7 DEF StopRead, ReadEnv, Goto, GotoWith, SessionSteps
<1>8. ASSUME StopMachine(c) PROVE LifecycleGoal(c)
  <2>1. req[c].env \in EnvRecord
    BY <1>8, CopyType, StepLabels DEF StopMachine, At
  <2> QED BY <1>8, <2>1, DecisionsKeepIndex DEF StopMachine, Goto, GotoWith, SessionSteps
<1>9. ASSUME StopCheck(c) PROVE LifecycleGoal(c)
  <2>1. req[c].env \in EnvRecord
    BY <1>9, CopyType, StepLabels DEF StopCheck, At
  <2> QED BY <1>9, <2>1, DecisionsKeepIndex DEF StopCheck, Goto, GotoWith, SessionSteps
<1>10. ASSUME StatusRead(c) PROVE LifecycleGoal(c)
  BY <1>10 DEF StatusRead, ReadEnv, Goto, GotoWith, SessionSteps
<1>11. ASSUME StatusRefresh(c) PROVE LifecycleGoal(c)
  <2>1. req[c].env \in EnvRecord
    BY <1>11, CopyType, StepLabels DEF StatusRefresh, At
  <2>2. PICK label \in {"statusIdle", "statusQuota"} : Goto(c, label, Refreshed(req[c].env))
    BY <1>11 DEF StatusRefresh
  <2>3. IndexOf(Refreshed(req[c].env)) = IndexOf(req[c].env)
    BY <2>1, DecisionsKeepIndex
  <2> QED BY <1>11, <2>2, <2>3 DEF StatusRefresh, Goto, GotoWith, SessionSteps
<1>12. ASSUME StatusIdle(c) PROVE LifecycleGoal(c)
  <2>1. req[c].env \in EnvRecord
    BY <1>12, CopyType, StepLabels DEF StatusIdle, At
  <2> QED BY <1>12, <2>1, DecisionsKeepIndex DEF StatusIdle, Goto, GotoWith, SessionSteps
<1>13. ASSUME StatusQuota(c) PROVE LifecycleGoal(c)
  <2>1. req[c].env \in EnvRecord
    BY <1>13, CopyType, StepLabels DEF StatusQuota, At
  <2> QED BY <1>13, <2>1, DecisionsKeepIndex DEF StatusQuota, Goto, GotoWith, SessionSteps
<1>14. ASSUME ExecRead(c) PROVE LifecycleGoal(c)
  BY <1>14 DEF ExecRead, ReadEnv, Goto, GotoWith, SessionSteps
<1>15. ASSUME ExecLog(c) PROVE LifecycleGoal(c)
  <2>1. req[c].env \in EnvRecord
    BY <1>15, CopyType, StepLabels DEF ExecLog, At
  <2> QED BY <1>15, <2>1, DecisionsKeepIndex DEF ExecLog, Goto, GotoWith, SessionSteps
<1>16. ASSUME ExecCmd(c) PROVE LifecycleGoal(c)
  <2>1. req[c].env \in EnvRecord
    BY <1>16, CopyType, StepLabels DEF ExecCmd, At
  <2>2. PICK env \in {MarkActive(req[c].env), QuotaMarked(MarkActive(req[c].env))} :
          Goto(c, "execWrite", env)
    BY <1>16 DEF ExecCmd
  <2>3. IndexOf(env) = IndexOf(req[c].env)
    BY <2>1, DecisionsKeepIndex, DecisionTypes
  <2> QED BY <1>16, <2>2, <2>3 DEF ExecCmd, Goto, GotoWith, SessionSteps
<1>17. ASSUME TouchRead(c) PROVE LifecycleGoal(c)
  BY <1>17 DEF TouchRead, ReadEnv, Goto, GotoWith, SessionSteps
<1>18. ASSUME TouchMount(c) PROVE LifecycleGoal(c)
  <2>1. req[c].env \in EnvRecord
    BY <1>18, CopyType, StepLabels DEF TouchMount, At
  <2> QED BY <1>18, <2>1, DecisionsKeepIndex DEF TouchMount, Goto, GotoWith, SessionSteps
<1>19. ASSUME WriteBack(c) PROVE LifecycleGoal(c)
  BY <1>19 DEF WriteBack, WriteSteps, WriteEnv, Done, Idle, IndexOf, SessionSteps
<1>20. ASSUME RequestFails(c) PROVE LifecycleGoal(c)
  <2>1. req[c].pc # "sessFile"
    BY <1>20 DEF RequestFails, CanFail, At, LogSteps, StopSteps, WriteSteps, DestroySteps
  <2>2. meta' \in {meta, NoMeta}
    BY <1>20 DEF RequestFails
  <2> QED BY <1>20, <2>1, <2>2 DEF RequestFails, Done, Idle, IndexOf, SessionSteps
<1> QED
  BY <1>1, <1>2, <1>3, <1>4, <1>5, <1>6, <1>7, <1>8, <1>9, <1>10,
     <1>11, <1>12, <1>13, <1>14, <1>15, <1>16, <1>17, <1>18, <1>19, <1>20
  DEF LifecycleHandler, Start, Stop, Status, Exec, Touch

LEMMA OtherFiles ==
  ASSUME SessionTypeOK, WithMachine
  PROVE  /\ files' \in [Sessions -> {"none", "Running", "Stopped"}]
         /\ tmux' \subseteq Sessions
         /\ Known' = Known
BY DEF SessionTypeOK, WithMachine, Known

\* Time, machines, disk use and restarts change no index; a restart forgets
\* the requests.
LEMMA SurroundingsStep ==
  ASSUME TypeOK, Environment, NEW c \in Clients
  PROVE  /\ IndexOf(meta') \subseteq IndexOf(meta)
         /\ \/ req'[c].pc = req[c].pc /\ IndexOf(req'[c].env) = IndexOf(req[c].env)
            \/ Crash /\ req'[c] = Idle
<1> USE DEF TypeOK, StoreOK
<1>1. CASE MachineBoots \/ MachineExits \/ DiskUseChanges
  BY <1>1 DEF MachineBoots, MachineExits, DiskUseChanges
<1>2. CASE TimePasses
  <2>1. IndexOf(meta') = IndexOf(meta)
    BY <1>2, DecisionsKeepIndex DEF TimePasses, Aged
  <2>2. req'[c] = [req[c] EXCEPT !.env = Aged(@)]
    BY <1>2 DEF TimePasses
  <2>3. req'[c].pc = req[c].pc /\ req'[c].env = Aged(req[c].env)
    BY <2>2 DEF Request
  <2>4. IndexOf(Aged(req[c].env)) = IndexOf(req[c].env)
    BY DecisionsKeepIndex DEF Request, Aged
  <2> QED BY <2>1, <2>3, <2>4
<1>3. CASE Crash
  BY <1>3 DEF Crash
<1> QED BY <1>1, <1>2, <1>3 DEF Environment

-----------------------------------------------------------------------------
(* The theorems.                                                           *)

SessionInv == SessionTypeOK /\ IndexedSessionsHaveFiles

LEMMA SessionInit == CreatedInit => SessionInv
<1> SUFFICES ASSUME CreatedInit PROVE SessionInv
  OBVIOUS
<1> USE DEF CreatedInit, EnvInit, EnvInPlace
<1>1. Idle \in Request
  BY BoundsAssumption DEF Idle, Request, Labels, Unread
<1>2. meta \in EnvRecord /\ meta.sessions = {}
  BY DEF EnvRecord, EnvState
<1>3. StoreOK
  <2>1. {0, 1} \subseteq 0..MaxSubvols /\ 0 \in 0..MaxCrashes /\ {1} \subseteq SubvolIds
    BY BoundsAssumption DEF SubvolIds
  <2>2. rootfs \in {0, 1} /\ lastId \in {0, 1} /\ qgroups \subseteq {1}
    OBVIOUS
  <2>3. /\ dir \in BOOLEAN /\ nested \in BOOLEAN /\ config \in BOOLEAN /\ overQuota \in BOOLEAN
        /\ machine = "absent" /\ crashes = 0
    OBVIOUS
  <2> HIDE DEF CreatedInit, EnvInit, EnvInPlace
  <2> QED BY <1>2, <2>1, <2>2, <2>3 DEF StoreOK
<1>4. \A c \in Clients : req[c] = Idle /\ arg[c] = NoArg
  OBVIOUS
<1>5. ArgsOK
  BY NoArgType DEF ArgsOK
<1>6. \A c \in Clients : NamedAndListed(c)
  BY <1>4 DEF NamedAndListed, Idle, NoArg, NamedSteps, SessionSteps
<1>7. IndexedSessionsHaveFiles
  BY <1>2, <1>4 DEF IndexedSessionsHaveFiles, IndexOf, Idle
<1> QED BY <1>1, <1>3, <1>5, <1>6, <1>7
        DEF SessionInv, SessionTypeOK, TypeOK, ArgsOK, NamedAndListed

LEMMA SessionHandlerStep ==
  ASSUME SessionInv, NEW c \in Clients, SessionHandler(c)
  PROVE  SessionInv'
<1> USE DEF SessionInv
<1>1. TypeOK'
  BY SessionStoreStep, SessionRequestStep DEF TypeOK
<1>2. ArgsOK' /\ Known \subseteq Known'
  BY SessionArgsStep, FilesStay
<1>3. \A d \in Clients : NamedAndListed(d) /\ CopyIndexed(d)
  BY DEF SessionTypeOK, NamedAndListed, IndexedSessionsHaveFiles, CopyIndexed
<1>4. \A d \in Clients \ {c} : req'[d] = req[d] /\ arg'[d] = arg[d]
  BY OthersStay
<1>5. \A d \in Clients : NamedAndListed(d)' /\ CopyIndexed(d)'
  <2>1. NamedAndListed(c)' /\ CopyIndexed(c)'
    BY NamedStep, SessionIndexStep
  <2>2. ASSUME NEW d \in Clients \ {c} PROVE NamedAndListed(d)' /\ CopyIndexed(d)'
    BY <1>2, <1>3, <1>4 DEF NamedAndListed, CopyIndexed, At
  <2> QED BY <2>1, <2>2
<1>6. IndexOf(meta') \subseteq Known'
  BY SessionIndexStep
<1> QED BY <1>1, <1>2, <1>5, <1>6
        DEF SessionTypeOK, ArgsOK, NamedAndListed, IndexedSessionsHaveFiles, CopyIndexed

LEMMA LifecycleHandlerStep ==
  ASSUME SessionInv, NEW c \in Clients, LifecycleHandler(c), WithMachine, UNCHANGED arg
  PROVE  SessionInv'
<1> USE DEF SessionInv
<1>1. TypeOK'
  BY StoreStep, RequestStep DEF LifecycleHandler, Handler, SessionTypeOK, TypeOK
<1>2. ArgsOK' /\ Known' = Known
  BY OtherFiles DEF SessionTypeOK, ArgsOK
<1>3. \A d \in Clients : NamedAndListed(d) /\ CopyIndexed(d)
  BY DEF SessionTypeOK, NamedAndListed, IndexedSessionsHaveFiles, CopyIndexed
<1>4. LifecycleGoal(c)
  BY LifecycleStep DEF SessionTypeOK
<1>5. IndexOf(meta) \subseteq Known /\ IndexOf(req[c].env) \subseteq Known
  BY <1>3, <1>4 DEF LifecycleGoal, IndexedSessionsHaveFiles, CopyIndexed, At
<1>6. \A d \in Clients : NamedAndListed(d)' /\ CopyIndexed(d)'
  <2>1. NamedAndListed(c)' /\ CopyIndexed(c)'
    BY <1>2, <1>3, <1>4, <1>5 DEF NamedAndListed, CopyIndexed, LifecycleGoal, NamedSteps, SessionSteps, At
  <2>2. ASSUME NEW d \in Clients \ {c} PROVE NamedAndListed(d)' /\ CopyIndexed(d)'
    BY <1>2, <1>3, <1>4 DEF NamedAndListed, CopyIndexed, At, LifecycleGoal
  <2> QED BY <2>1, <2>2
<1>7. IndexOf(meta') \subseteq Known'
  BY <1>2, <1>4, <1>5 DEF LifecycleGoal
<1> QED BY <1>1, <1>2, <1>6, <1>7
        DEF SessionTypeOK, ArgsOK, NamedAndListed, IndexedSessionsHaveFiles, CopyIndexed

LEMMA SurroundingsHold ==
  ASSUME SessionInv, Environment, WithMachine,
         IF Crash THEN arg' = [c \in Clients |-> NoArg] ELSE UNCHANGED arg
  PROVE  SessionInv'
<1> USE DEF SessionInv
<1>1. TypeOK'
  BY EnvironmentStep DEF SessionTypeOK
<1>2. ArgsOK' /\ Known' = Known
  BY OtherFiles, NoArgType DEF SessionTypeOK, ArgsOK
<1>3. \A d \in Clients : NamedAndListed(d) /\ CopyIndexed(d)
  BY DEF SessionTypeOK, NamedAndListed, IndexedSessionsHaveFiles, CopyIndexed
<1>4. ASSUME NEW d \in Clients PROVE NamedAndListed(d)' /\ CopyIndexed(d)'
  <2>1. CASE Crash
    <3>1. arg'[d] = NoArg /\ req'[d] = Idle
      BY <2>1 DEF Crash
    <3> QED BY <3>1 DEF NamedAndListed, CopyIndexed, Idle, NoArg, IndexOf, At, NamedSteps, SessionSteps
  <2>2. CASE ~Crash
    <3>1. arg'[d] = arg[d] /\ req'[d].pc = req[d].pc /\ IndexOf(req'[d].env) = IndexOf(req[d].env)
      BY <2>2, SurroundingsStep DEF SessionTypeOK
    <3> QED BY <3>1, <1>2, <1>3 DEF NamedAndListed, CopyIndexed, At
  <2> QED BY <2>1, <2>2
<1>5. IndexOf(meta') \subseteq IndexOf(meta)
  <2>1. CASE Clients = {}
    BY <2>1, DecisionsKeepIndex DEF Environment, MachineBoots, MachineExits, DiskUseChanges,
       TimePasses, Crash, SessionTypeOK, TypeOK, StoreOK, Aged
  <2>2. CASE Clients # {}
    BY <2>2, SurroundingsStep DEF SessionTypeOK
  <2> QED BY <2>1, <2>2
<1>6. IndexOf(meta') \subseteq Known'
  BY <1>2, <1>5 DEF IndexedSessionsHaveFiles
<1> QED BY <1>1, <1>2, <1>4, <1>6
        DEF SessionTypeOK, ArgsOK, NamedAndListed, IndexedSessionsHaveFiles, CopyIndexed

LEMMA UntouchedHold ==
  ASSUME SessionInv, UNCHANGED <<vars, files, arg>>, tmux' \subseteq tmux
  PROVE  SessionInv'
<1>1. /\ UNCHANGED <<dir, meta, rootfs, nested, lastId, qgroups, config, machine>>
      /\ UNCHANGED <<overQuota, req, crashes, files, arg>>
  BY DEF vars
<1>2. TypeOK'
  BY <1>1 DEF SessionInv, SessionTypeOK, TypeOK, StoreOK
<1> QED BY <1>1, <1>2 DEF SessionInv, SessionTypeOK, IndexedSessionsHaveFiles, Known, At

LEMMA SessionInvariance == SessionSpec => []SessionInv
<1>1. CreatedInit => SessionInv
  BY SessionInit
<1>2. SessionInv /\ [SessionNext]_sessionVars => SessionInv'
  <2> SUFFICES ASSUME SessionInv, [SessionNext]_sessionVars PROVE SessionInv'
    OBVIOUS
  <2>1. ASSUME NEW c \in Clients, SessionHandler(c) PROVE SessionInv'
    BY <2>1, SessionHandlerStep
  <2>2. ASSUME NEW c \in Clients, LifecycleHandler(c), WithMachine, UNCHANGED arg
        PROVE  SessionInv'
    BY <2>2, LifecycleHandlerStep
  <2>3. CASE /\ MachineBoots \/ MachineExits \/ DiskUseChanges \/ TimePasses
             /\ WithMachine
             /\ UNCHANGED arg
    <3>1. crashes' = crashes /\ crashes \in Nat
      BY <2>3, BoundsAssumption
      DEF MachineBoots, MachineExits, DiskUseChanges, TimePasses, resources,
          SessionInv, SessionTypeOK, TypeOK, StoreOK
    <3>2. ~Crash
      BY <3>1 DEF Crash
    <3> QED BY <2>3, <3>2, SurroundingsHold DEF Environment
  <2>4. CASE Crash /\ WithMachine /\ arg' = [c \in Clients |-> NoArg]
    BY <2>4, SurroundingsHold DEF Environment
  <2>5. CASE SessionEnds
    BY <2>5, UntouchedHold DEF SessionEnds
  <2>6. CASE UNCHANGED sessionVars
    BY <2>6, UntouchedHold DEF sessionVars
  <2> QED BY <2>1, <2>2, <2>3, <2>4, <2>5, <2>6 DEF SessionNext
<1> QED BY <1>1, <1>2, PTL DEF SessionSpec

\* Types, for every number of clients and sessions, and the facts the next
\* theorem needs: a request for a session knows which, and what a list has
\* read of the session files stays true.
THEOREM SessionTypeCorrect == SessionSpec => []SessionTypeOK
BY SessionInvariance, PTL DEF SessionInv

\* sync_env_session_index, session_create and every write-back of an older
\* copy keep the index within the sessions that have a file.
THEOREM IndexStaysWithinFiles == SessionSpec => []IndexedSessionsHaveFiles
BY SessionInvariance, PTL DEF SessionInv

-----------------------------------------------------------------------------
(* To the env, `new` is its requests one after the other.                  *)

LEMMA NewStepIsLifecycle ==
  ASSUME NewNext PROVE [Next]_vars
<1>1. ASSUME NEW c \in Clients, NewStep(c) PROVE [Next]_vars
  <2>1. ASSUME NEW op \in NewOps, NEW from \in Sources, Begin(c, op, from) PROVE [Next]_vars
    BY <2>1 DEF Begin
  <2>2. CASE HasBase(c)
    BY <2>2 DEF HasBase
  <2>3. CASE Freeze(c)
    BY <2>3 DEF Freeze, FreezeCheck, FreezeMkdir, FreezeSnapshot, FreezeClean, FreezeReadonly,
                FreezeRecord, FreezeFails, FreezeThaw, FreezeRemove
  <2>4. CASE StageBegins(c)
    BY <2>4 DEF StageBegins, Next, Handler, Create, Status, Start, Exec
  <2>5. CASE StageEndsAtOnce(c)
    BY <2>5 DEF StageEndsAtOnce
  <2>6. CASE EnvStep(c)
    <3>1. Handler(c)
      BY <2>6 DEF EnvStep, PlainRequest, HandlerSucceeds, HandlerFails, HandlerGoesOn,
                  Handler, Create, Start
    <3> QED BY <3>1 DEF Next
  <2> QED BY <1>1, <2>1, <2>2, <2>3, <2>4, <2>5, <2>6 DEF NewStep
<1>2. CASE MachineBoots \/ MachineExits \/ DiskUseChanges \/ TimePasses
  BY <1>2 DEF Next, Environment
<1>3. CASE NewCrash
  BY <1>3 DEF NewCrash, Next, Environment
<1> QED BY <1>1, <1>2, <1>3 DEF NewNext

\* new_target and the worlds of the two studios do nothing to an env that its
\* own requests could not do: every theorem about EnvLifecycle holds of them.
THEOREM NewIsLifecycle == NewSpec => Spec
<1>1. NewInit => Init
  BY DEF NewInit
<1>2. [NewNext]_newVars => [Next]_vars
  BY NewStepIsLifecycle DEF newVars
<1> QED BY <1>1, <1>2, PTL DEF NewSpec, Spec

-----------------------------------------------------------------------------
(* The base.  With one request at a time nobody else records it while a    *)
(* freeze is under way.                                                    *)

Working == {"mkdir", "snapshot", "clean", "readonly", "record", "thaw", "remove"}

Knows(j, b) ==
  /\ j = [op |-> j.op, from |-> j.from, todo |-> j.todo, step |-> j.step]
  /\ j.step \in {"none"} \cup Working
  /\ j # NoJob => j.from \in Sources
  /\ j.step \in Working => b.record = NoSource /\ j # NoJob
  /\ j.step \in Working \ {"mkdir"} => b.dir
  /\ j.step = "record" /\ Backend = "Btrfs" => b.tree = "frozen"

Whole(b) ==
  /\ b = [dir |-> b.dir, tree |-> b.tree, record |-> b.record]
  /\ b.record # NoSource => b.dir /\ (Backend = "Btrfs" => b.tree = "frozen")

FreezeInv ==
  /\ job = [c \in Clients |-> job[c]]
  /\ Whole(base)
  /\ \A c \in Clients : Knows(job[c], base)

\* What BaseIsFinal says of one step.
BaseKept == HasRecord => base' = base

NewJob(c, j) == job' = [job EXCEPT ![c] = j]

LEMMA JobSet ==
  ASSUME OneClient, FreezeInv, NEW c \in Clients, NEW j, NewJob(c, j),
         Knows(j, base'), Whole(base')
  PROVE  FreezeInv'
<1>1. \A d \in Clients : job'[d] = j
  BY DEF OneClient, FreezeInv, NewJob
<1>2. job' = [d \in Clients |-> job'[d]]
  BY DEF FreezeInv, NewJob
<1> QED BY <1>1, <1>2 DEF FreezeInv

LEMMA NoJobKnows == ASSUME NEW b PROVE Knows(NoJob, b)
BY DEF Knows, NoJob, Working

\* The next stage has nothing under way.
LEMMA NextJob ==
  ASSUME FreezeInv, NEW c \in Clients, Busy(c), NextStage(c)
  PROVE  \E j : NewJob(c, j) /\ Knows(j, base')
<1> DEFINE next == [op |-> job[c].op, from |-> job[c].from, todo |-> Tail(job[c].todo), step |-> "none"]
           j == IF Len(job[c].todo) = 1 THEN NoJob ELSE next
<1>1. NewJob(c, j)
  BY DEF NextStage, NewJob, FreezeInv
<1>2. Knows(job[c], base) /\ job[c].from \in Sources
  BY DEF FreezeInv, Knows, Busy
<1>3. Knows(next, base')
  BY <1>2 DEF Knows, Working
<1>4. Knows(j, base')
  <2> HIDE DEF next
  <2> QED BY <1>3, NoJobKnows
<1> HIDE DEF j
<1> QED BY <1>1, <1>4

LEMMA FreezeJob ==
  ASSUME FreezeInv, NEW c \in Clients, Busy(c), NEW step \in Working, FreezeGoto(c, step),
         base'.record = NoSource, step # "mkdir" => base'.dir,
         step = "record" /\ Backend = "Btrfs" => base'.tree = "frozen"
  PROVE  \E j : NewJob(c, j) /\ Knows(j, base')
<1> DEFINE j == [job[c] EXCEPT !.step = step]
<1>1. NewJob(c, j)
  BY DEF FreezeGoto, NewJob, FreezeInv
<1>2. Knows(job[c], base) /\ job[c].from \in Sources
  BY DEF FreezeInv, Knows, Busy
<1>3. j = [op |-> job[c].op, from |-> job[c].from, todo |-> job[c].todo, step |-> step]
  BY <1>2 DEF Knows
<1> HIDE DEF j
<1>4. j # NoJob
  BY <1>2, <1>3, SourcesAssumption DEF NoJob
<1>5. Knows(j, base')
  BY <1>2, <1>3, <1>4 DEF Knows
<1> QED BY <1>1, <1>5

LEMMA GivenUp ==
  ASSUME FreezeInv, NEW c \in Clients, EndJob(c)
  PROVE  \E j : NewJob(c, j) /\ Knows(j, base')
BY NoJobKnows DEF EndJob, NewJob

LEMMA StageIsBusy ==
  ASSUME NEW c \in Clients, Stage(c) # "none" \/ job[c].step # "none"
  PROVE  Busy(c)
BY DEF Stage, Busy, NoJob

\* What a client that is at work on a base knows of it.
LEMMA AtWork ==
  ASSUME FreezeInv, NEW c \in Clients, job[c].step \in Working
  PROVE  /\ Busy(c) /\ job[c].from \in Sources
         /\ ~HasRecord
         /\ job[c].step # "mkdir" => base.dir
         /\ job[c].step = "record" /\ Backend = "Btrfs" => base.tree = "frozen"
BY DEF FreezeInv, Knows, Busy, Working, HasRecord

LEMMA FreezeStep ==
  ASSUME OneClient, FreezeInv, NEW c \in Clients, Freeze(c) \/ HasBase(c)
  PROVE  FreezeInv' /\ BaseKept
<1> USE DEF Freezes
<1>1. Whole(base)
  BY DEF FreezeInv
<1>2. SUFFICES Whole(base') /\ BaseKept /\ \E j : NewJob(c, j) /\ Knows(j, base')
  BY JobSet
<1>3. CASE HasBase(c)
  <2>1. Busy(c) /\ NextStage(c) /\ base' = base
    BY <1>3, StageIsBusy DEF HasBase
  <2> QED BY <1>1, <2>1, NextJob DEF BaseKept
<1>4. CASE FreezeCheck(c)
  <2>1. Busy(c) /\ base' = base
    BY <1>4, StageIsBusy DEF FreezeCheck
  <2>2. CASE base.dir
    <3>1. AlreadyExists(c)
      BY <1>4, <2>2 DEF FreezeCheck
    <3> QED BY <1>1, <2>1, <3>1, NextJob, GivenUp DEF AlreadyExists, BaseKept
  <2>3. CASE ~base.dir
    <3>1. FreezeGoto(c, "mkdir")
      BY <1>4, <2>3 DEF FreezeCheck
    <3>2. base'.record = NoSource
      BY <1>1, <2>1, <2>3 DEF Whole
    <3> QED BY <1>1, <2>1, <3>1, <3>2, FreezeJob DEF Working, BaseKept
  <2> QED BY <2>2, <2>3
<1>5. CASE FreezeMkdir(c)
  <2>1. Busy(c) /\ ~HasRecord
    BY <1>5, AtWork DEF FreezeMkdir, Working
  <2>2. base' = [dir |-> TRUE, tree |-> base.tree, record |-> NoSource]
    BY <1>1, <1>5, <2>1 DEF FreezeMkdir, Whole, HasRecord
  <2>3. PICK step \in {"snapshot", "record"} :
          FreezeGoto(c, step) /\ (step = "record" => Backend # "Btrfs")
    BY <1>5 DEF FreezeMkdir
  <2> QED BY <2>1, <2>2, <2>3, FreezeJob DEF Working, Whole, BaseKept
<1>6. CASE FreezeSnapshot(c)
  <2>1. Busy(c) /\ ~HasRecord /\ base.dir
    BY <1>6, AtWork DEF FreezeSnapshot, Working
  <2>2. base' = [dir |-> base.dir, tree |-> "raw", record |-> NoSource]
    BY <1>1, <1>6, <2>1 DEF FreezeSnapshot, Whole, HasRecord
  <2>3. FreezeGoto(c, "clean") /\ "clean" \in Working
    BY <1>6 DEF FreezeSnapshot, Working
  <2>4. \E j : NewJob(c, j) /\ Knows(j, base')
    BY <2>1, <2>2, <2>3, FreezeJob
  <2> QED BY <2>1, <2>2, <2>4 DEF Whole, BaseKept
<1>7. CASE FreezeClean(c)
  <2>1. Busy(c) /\ ~HasRecord /\ base.dir
    BY <1>7, AtWork DEF FreezeClean, Working
  <2>2. base' = [dir |-> base.dir, tree |-> "clean", record |-> NoSource]
    BY <1>1, <1>7, <2>1 DEF FreezeClean, Whole, HasRecord
  <2>3. FreezeGoto(c, "readonly") /\ "readonly" \in Working
    BY <1>7 DEF FreezeClean, Working
  <2>4. \E j : NewJob(c, j) /\ Knows(j, base')
    BY <2>1, <2>2, <2>3, FreezeJob
  <2> QED BY <2>1, <2>2, <2>4 DEF Whole, BaseKept
<1>8. CASE FreezeReadonly(c)
  <2>1. Busy(c) /\ ~HasRecord /\ base.dir
    BY <1>8, AtWork DEF FreezeReadonly, Working
  <2>2. base' = [dir |-> base.dir, tree |-> "frozen", record |-> NoSource]
    BY <1>1, <1>8, <2>1 DEF FreezeReadonly, Whole, HasRecord
  <2>3. FreezeGoto(c, "record") /\ "record" \in Working
    BY <1>8 DEF FreezeReadonly, Working
  <2>4. \E j : NewJob(c, j) /\ Knows(j, base')
    BY <2>1, <2>2, <2>3, FreezeJob
  <2> QED BY <2>1, <2>2, <2>4 DEF Whole, BaseKept
<1>9. CASE FreezeRecord(c)
  <2>1. Busy(c) /\ ~HasRecord /\ base.dir /\ (Backend = "Btrfs" => base.tree = "frozen")
    BY <1>9, AtWork DEF FreezeRecord, Working
  <2>2. base' = [dir |-> base.dir, tree |-> base.tree, record |-> job[c].from]
    BY <1>1, <1>9 DEF FreezeRecord, Whole
  <2> QED BY <1>9, <2>1, <2>2, NextJob DEF FreezeRecord, Whole, BaseKept
<1>10. CASE FreezeFails(c)
  <2>1. Busy(c) /\ ~HasRecord /\ base' = base
    BY <1>10, AtWork DEF FreezeFails, Working
  <2>2. CASE EndJob(c)
    BY <1>1, <2>1, <2>2, GivenUp DEF BaseKept
  <2>3. CASE ~EndJob(c)
    <3>1. PICK step \in {"thaw", "remove"} : FreezeGoto(c, step)
      BY <1>10, <2>3 DEF FreezeFails
    <3>2. base.dir
      BY <1>10, <2>3, AtWork DEF FreezeFails, Working
    <3> QED BY <1>1, <2>1, <3>1, <3>2, FreezeJob DEF Working, HasRecord, BaseKept
  <2> QED BY <2>2, <2>3
<1>11. CASE FreezeThaw(c)
  <2>1. Busy(c) /\ ~HasRecord /\ base.dir
    BY <1>11, AtWork DEF FreezeThaw, Working
  <2>2. PICK tree : base' = [base EXCEPT !.tree = tree]
    BY <1>11 DEF FreezeThaw
  <2>3. base' = [dir |-> base.dir, tree |-> tree, record |-> NoSource]
    BY <1>1, <2>1, <2>2 DEF Whole, HasRecord
  <2> QED BY <1>11, <2>1, <2>3, FreezeJob DEF FreezeThaw, Working, Whole, BaseKept
<1>12. CASE FreezeRemove(c)
  <2>1. ~HasRecord
    BY <1>12, AtWork DEF FreezeRemove, Working
  <2>2. Whole(base')
    BY <1>1, <1>12, <2>1 DEF FreezeRemove, Whole, NoBase, HasRecord
  <2> QED BY <1>12, <2>1, <2>2, GivenUp DEF FreezeRemove, BaseKept
<1> QED BY <1>3, <1>4, <1>5, <1>6, <1>7, <1>8, <1>9, <1>10, <1>11, <1>12 DEF Freeze

\* Every other step leaves the base alone.
LEMMA JobOnly ==
  ASSUME OneClient, FreezeInv, NEW c \in Clients, base' = base,
         \/ job' = job
         \/ \E j : NewJob(c, j) /\ Knows(j, base')
  PROVE  FreezeInv' /\ BaseKept
<1>1. Whole(base') /\ BaseKept
  BY DEF FreezeInv, BaseKept
<1>2. CASE job' = job
  BY <1>1, <1>2 DEF FreezeInv
<1>3. CASE \E j : NewJob(c, j) /\ Knows(j, base')
  BY <1>1, <1>3, JobSet
<1> QED BY <1>2, <1>3

LEMMA BegunJob ==
  ASSUME FreezeInv, NEW c \in Clients, NEW op, NEW from \in Sources, Begin(c, op, from)
  PROVE  \E j : NewJob(c, j) /\ Knows(j, base')
<1> DEFINE stages == Stages[op]
           j == [op |-> op, from |-> from, todo |-> stages, step |-> "none"]
<1>1. NewJob(c, j)
  BY DEF Begin, NewJob
<1>2. Knows(j, base')
  <2> HIDE DEF stages
  <2> QED BY DEF Knows, Working
<1> HIDE DEF j
<1> QED BY <1>1, <1>2

LEMMA StartedJob ==
  ASSUME FreezeInv, NEW c \in Clients, Busy(c), EnsureStarted(c), base' = base
  PROVE  \E j : NewJob(c, j) /\ Knows(j, base')
<1>1. CASE req[c].env.state = "Running"
  BY <1>1, NextJob DEF EnsureStarted
<1>2. CASE req[c].env.state \in {"Created", "Stopped"}
  <2> DEFINE rest == <<"start">> \o Tail(job[c].todo)
             j == [job[c] EXCEPT !.todo = rest]
  <2>1. NewJob(c, j)
    BY <1>2 DEF EnsureStarted, NewJob, FreezeInv
  <2>2. Knows(job[c], base) /\ job[c].from \in Sources
    BY DEF FreezeInv, Knows, Busy
  <2> HIDE DEF rest
  <2>3. j = [op |-> job[c].op, from |-> job[c].from, todo |-> rest, step |-> job[c].step]
    BY <2>2 DEF Knows
  <2> HIDE DEF j
  <2>4. j # NoJob
    BY <2>2, <2>3, SourcesAssumption DEF NoJob
  <2>5. Knows(j, base')
    BY <2>2, <2>3, <2>4 DEF Knows
  <2> QED BY <2>1, <2>5
<1>3. CASE req[c].env.state \notin {"Running", "Created", "Stopped"}
  BY <1>3, GivenUp DEF EnsureStarted
<1> QED BY <1>1, <1>2, <1>3

LEMMA BaseStep ==
  ASSUME OneClient, FreezeInv, NewNext PROVE FreezeInv' /\ BaseKept
<1>1. ASSUME NEW c \in Clients, NewStep(c) PROVE FreezeInv' /\ BaseKept
  <2>1. ASSUME NEW op \in NewOps, NEW from \in Sources, Begin(c, op, from)
        PROVE  FreezeInv' /\ BaseKept
    <3>1. base' = base
      BY <2>1 DEF Begin
    <3> QED BY <2>1, <3>1, BegunJob, JobOnly
  <2>2. CASE HasBase(c) \/ Freeze(c)
    BY <2>2, FreezeStep
  <2>3. CASE StageBegins(c)
    BY <2>3, JobOnly DEF StageBegins
  <2>4. CASE StageEndsAtOnce(c)
    <3>1. Busy(c) /\ base' = base
      BY <2>4, StageIsBusy DEF StageEndsAtOnce
    <3>2. NextStage(c) \/ EndJob(c)
      BY <2>4 DEF StageEndsAtOnce, AlreadyExists
    <3> QED BY <3>1, <3>2, NextJob, GivenUp, JobOnly
  <2>5. CASE EnvStep(c)
    <3>1. base' = base
      BY <2>5 DEF EnvStep
    <3>2. CASE PlainRequest(c)
      BY <3>1, <3>2, JobOnly DEF PlainRequest
    <3>3. CASE Busy(c) /\ HandlerSucceeds(c)
      <4>1. EnsureStarted(c) \/ NextStage(c)
        BY <3>3 DEF HandlerSucceeds
      <4> QED BY <3>1, <3>3, <4>1, StartedJob, NextJob, JobOnly
    <3>4. CASE HandlerFails(c)
      BY <3>1, <3>4, GivenUp, JobOnly DEF HandlerFails
    <3>5. CASE HandlerGoesOn(c)
      BY <3>1, <3>5, JobOnly DEF HandlerGoesOn
    <3> QED BY <2>5, <3>2, <3>3, <3>4, <3>5 DEF EnvStep
  <2> QED BY <1>1, <2>1, <2>2, <2>3, <2>4, <2>5 DEF NewStep
<1>2. CASE UNCHANGED <<base, job, origin, cut>>
  BY <1>2 DEF FreezeInv, BaseKept
<1>3. CASE NewCrash
  <2>1. base' = base /\ job' = [c \in Clients |-> NoJob]
    BY <1>3 DEF NewCrash
  <2> QED BY <2>1, NoJobKnows DEF FreezeInv, BaseKept
<1> QED BY <1>1, <1>2, <1>3 DEF NewNext

\* With one request at a time a base that has been recorded stays as it is,
\* wherever a freeze was cut off and whichever of its steps failed: no later
\* freeze gets past its directory, and no cleanup is under way.
THEOREM SerialBaseIsFinal == ASSUME OneClient PROVE NewSpec => BaseIsFinal
<1>1. NewInit => FreezeInv
  BY NoJobKnows DEF NewInit, FreezeInv, Whole, NoBase
<1>2. FreezeInv /\ [NewNext]_newVars => FreezeInv'
  BY BaseStep DEF newVars, FreezeInv
<1>3. FreezeInv /\ [NewNext]_newVars => [HasRecord => base' = base]_newVars
  BY BaseStep DEF BaseKept
<1> QED BY <1>1, <1>2, <1>3, PTL DEF NewSpec, BaseIsFinal

-----------------------------------------------------------------------------
(* What an env is made of.  env_create reads the base before its first     *)
(* step, and the base it has read is there when it takes the snapshot.     *)

LEMMA RootfsStep ==
  ASSUME Backend = "Btrfs", NEW c \in Clients, Handler(c), ~At(c, "createRootfs")
  PROVE  rootfs' \in {rootfs, 0}
<1> USE DEF resources, volumes
<1>1. CASE Create(c)
  BY <1>1 DEF Create, CreateCheck, CreateMkdir, CreateRootfs, CreateConfig, CreateCommit,
              CreateFails, CleanRootfs, CleanSubvol, CleanQgroup, CleanContents, CleanRmdir,
              DeleteSubvolume, RemoveContents
<1>2. CASE Start(c)
  BY <1>2 DEF Start, StartRead, ReadEnv, StartPrep, StartStopUnit, StartRun, StartWait, StartFail
<1>3. CASE Stop(c)
  BY <1>3 DEF Stop, StopRead, ReadEnv, StopMachine, StopCheck, Unmounted
<1>4. CASE Destroy(c)
  BY <1>4 DEF Destroy, DestroyRead, ReadEnv, DestroyMachine, DestroyRootfs, DestroySubvol,
              DestroyQgroup, DestroyConfig, DestroyContents, DestroyRmdir,
              Unmounted, DeleteSubvolume, RemoveContents
<1>5. CASE Status(c) \/ Exec(c) \/ Touch(c)
  BY <1>5 DEF Status, StatusRead, ReadEnv, StatusRefresh, StatusIdle, StatusQuota,
              Exec, ExecRead, ExecLog, ExecCmd, Touch, TouchRead, TouchMount
<1>6. CASE WriteBack(c) \/ RequestFails(c)
  BY <1>6 DEF WriteBack, RequestFails, Unmounted
<1> QED BY <1>1, <1>2, <1>3, <1>4, <1>5, <1>6 DEF Handler

\* A request comes to a label by the step that goes there.
LEMMA GoesTo ==
  ASSUME TypeOK, NEW c \in Clients, NEW label, NEW env, NEW id, GotoWith(c, label, env, id)
  PROVE  req'[c].pc = label
BY DEF TypeOK, GotoWith

LEMMA GoesToDone ==
  ASSUME TypeOK, NEW c \in Clients, Done(c) PROVE req'[c].pc = "idle"
BY DEF TypeOK, Done, Idle

Building == {"createMkdir", "createRootfs"}

\* Where a request is before the snapshot of a create, or before it touches
\* the machine of an env that it starts.
Early == Building \cup {"startPrep", "startStopUnit"}

LEMMA EarlyStep ==
  ASSUME TypeOK, NEW c \in Clients, Handler(c), req'[c].pc \in Early
  PROVE  \/ CreateCheck(c) /\ req'[c].pc = "createMkdir"
         \/ CreateMkdir(c) /\ req'[c].pc = "createRootfs"
         \/ StartRead(c) /\ req'[c].pc = "startPrep"
         \/ StartPrep(c) /\ req'[c].pc = "startStopUnit"
<1>1. ~Done(c)
  BY GoesToDone DEF Early, Building
<1>2. ASSUME NEW label, NEW env, NEW id, GotoWith(c, label, env, id) PROVE label \in Early
  BY <1>2, GoesTo
<1> USE DEF Goto, Early, Building
<1>3. CASE Create(c)
  <2>1. CASE CreateCheck(c)
    BY <2>1, GoesTo DEF CreateCheck
  <2>2. CASE CreateMkdir(c)
    BY <2>2, GoesTo DEF CreateMkdir
  <2>3. CASE CreateRootfs(c) \/ CreateConfig(c) \/ CreateCommit(c)
    BY <2>3, <1>1, <1>2 DEF CreateRootfs, CreateConfig, CreateCommit
  <2>4. CASE CreateFails(c)
    <3>1. \E label \in {"cleanContents", "cleanRootfs"} : GotoWith(c, label, NoMeta, 0)
      BY <2>4 DEF CreateFails
    <3> QED BY <3>1, <1>2
  <2>5. CASE CleanRootfs(c) \/ CleanSubvol(c) \/ CleanQgroup(c)
    BY <2>5, <1>2 DEF CleanRootfs, CleanSubvol, CleanQgroup
  <2>6. CASE CleanContents(c) \/ CleanRmdir(c)
    BY <2>6, <1>1, <1>2 DEF CleanContents, CleanRmdir
  <2> QED BY <1>3, <2>1, <2>2, <2>3, <2>4, <2>5, <2>6 DEF Create
<1>4. CASE Start(c)
  <2>1. CASE StartRead(c) \/ StartPrep(c)
    BY <2>1, <1>2, GoesTo DEF StartRead, ReadEnv, StartPrep
  <2>2. CASE StartStopUnit(c) \/ StartRun(c)
    <3>1. \E label \in {"startRun", "startWait", "startFail"} : \E env : GotoWith(c, label, env, 0)
      BY <2>2 DEF StartStopUnit, StartRun
    <3> QED BY <3>1, <1>2
  <2>3. CASE StartWait(c)
    <3>1. \E label \in {"startWrite", "startFail"} : \E env : GotoWith(c, label, env, 0)
      BY <2>3 DEF StartWait
    <3> QED BY <3>1, <1>2
  <2>4. CASE StartFail(c)
    BY <2>4, <1>1 DEF StartFail
  <2> QED BY <1>4, <2>1, <2>2, <2>3, <2>4 DEF Start
<1>5. CASE Stop(c)
  BY <1>5, <1>2 DEF Stop, StopRead, ReadEnv, StopMachine, StopCheck
<1>6. CASE Destroy(c)
  BY <1>6, <1>1, <1>2 DEF Destroy, DestroyRead, ReadEnv, DestroyMachine, DestroyRootfs, DestroySubvol,
                          DestroySubvolNext, DestroyQgroup, DestroyConfig, DestroyContents, DestroyRmdir
<1>7. CASE Status(c)
  <2>1. CASE StatusRead(c) \/ StatusIdle(c) \/ StatusQuota(c)
    BY <2>1, <1>2 DEF StatusRead, ReadEnv, StatusIdle, StatusQuota
  <2>2. CASE StatusRefresh(c)
    <3>1. \E label \in {"statusIdle", "statusQuota"} : \E env : GotoWith(c, label, env, 0)
      BY <2>2 DEF StatusRefresh
    <3> QED BY <3>1, <1>2
  <2> QED BY <1>7, <2>1, <2>2 DEF Status
<1>8. CASE Exec(c) \/ Touch(c)
  <2>1. CASE ExecRead(c) \/ TouchRead(c)
    BY <2>1, <1>2 DEF ExecRead, TouchRead, ReadEnv
  <2>2. CASE ExecLog(c) \/ ExecCmd(c) \/ TouchMount(c)
    <3>1. \E label \in {"execCmd", "execWrite", "touchWrite"} : \E env : GotoWith(c, label, env, 0)
      BY <2>2 DEF ExecLog, ExecCmd, TouchMount
    <3> QED BY <3>1, <1>2
  <2> QED BY <1>8, <2>1, <2>2 DEF Exec, Touch
<1>9. CASE WriteBack(c) \/ RequestFails(c)
  BY <1>9, <1>1 DEF WriteBack, RequestFails
<1> QED BY <1>3, <1>4, <1>5, <1>6, <1>7, <1>8, <1>9 DEF Handler

\* A create under way has read a base that is there to stay.
OriginInv ==
  /\ \A c \in Clients : req[c].pc \in Building => HasRecord
  /\ EnvFromFrozenBase

\* Steps that take no snapshot.
LEMMA OriginKept ==
  ASSUME OneClient, OriginInv, BaseKept, origin' = origin,
         Backend = "Btrfs" => rootfs' \in {rootfs, 0},
         \A c \in Clients : req'[c].pc \in Building => HasRecord \/ req[c].pc \in Building
  PROVE  OriginInv'
<1>1. EnvFromFrozenBase'
  BY DEF OriginInv, EnvFromFrozenBase
<1>2. ASSUME NEW c \in Clients, req'[c].pc \in Building PROVE HasRecord'
  BY <1>2 DEF OriginInv, BaseKept, HasRecord
<1> QED BY <1>1, <1>2 DEF OriginInv

LEMMA OriginStep ==
  ASSUME OneClient, TypeOK, FreezeInv, OriginInv, BaseKept, NEW c \in Clients, NewStep(c)
  PROVE  OriginInv'
<1> USE DEF resources, volumes
<1>1. CASE UNCHANGED <<vars, origin>>
  BY <1>1, OriginKept DEF vars
<1>2. CASE StageBegins(c)
  <2>1. origin' = origin /\ Handler(c) /\ At(c, "idle") /\ rootfs' = rootfs
    BY <1>2 DEF StageBegins, Handler, Create, Status, Start, Exec, CreateCheck, StatusRead,
                StartRead, ExecRead, ReadEnv
  <2>2. CASE HasRecord
    BY <2>1, <2>2, OriginKept
  <2>3. CASE ~HasRecord
    <3>1. PICK label \in {"statusRefresh", "startPrep", "execLog"} : \E env : GotoWith(c, label, env, 0)
      BY <1>2, <2>3 DEF StageBegins, StatusRead, StartRead, ExecRead, ReadEnv, Goto
    <3>2. \A d \in Clients : req'[d].pc \notin Building
      BY <3>1, GoesTo DEF OneClient, Building
    <3> QED BY <2>1, <3>2, OriginKept
  <2> QED BY <2>2, <2>3
<1>3. CASE EnvStep(c)
  <2>1. Handler(c) /\ Origin(c) /\ base' = base
    BY <1>3 DEF EnvStep, PlainRequest, HandlerSucceeds, HandlerFails, HandlerGoesOn,
                Handler, Create, Start
  <2>2. req'[c].pc \in Building => HasRecord
    <3> SUFFICES ASSUME req'[c].pc \in Building PROVE HasRecord
      OBVIOUS
    <3>1. CASE At(c, "createMkdir")
      BY <3>1 DEF At, Building, OriginInv
    <3>2. CASE At(c, "idle") /\ req'[c].pc = "createMkdir"
      <4>1. CASE PlainRequest(c)
        BY <3>2, <4>1 DEF PlainRequest, At
      <4>2. CASE HandlerSucceeds(c)
        BY <3>2, <4>2 DEF HandlerSucceeds, CreateCommit, WriteBack, WriteSteps, At
      <4>3. CASE HandlerFails(c)
        BY <3>2, <4>3, GoesToDone
        DEF HandlerFails, RequestFails, StartFail, CleanRmdir, At
      <4>4. CASE HandlerGoesOn(c)
        BY <3>2, <4>4 DEF HandlerGoesOn
      <4> QED BY <1>3, <4>1, <4>2, <4>3, <4>4 DEF EnvStep
    <3> QED BY <2>1, <3>1, <3>2, EarlyStep DEF Early, Building, CreateCheck, CreateMkdir
  <2>3. \A d \in Clients : req'[d].pc \in Building => HasRecord'
    BY <2>1, <2>2 DEF OneClient, HasRecord
  <2>4. EnvFromFrozenBase'
    <3>1. CASE At(c, "createRootfs") /\ rootfs' # rootfs
      <4>1. origin' = base
        BY <2>1, <3>1 DEF Origin
      <4>2. HasRecord /\ Whole(base)
        BY <3>1 DEF At, Building, OriginInv, FreezeInv
      <4> QED BY <4>1, <4>2 DEF EnvFromFrozenBase, Whole, HasRecord
    <3>2. CASE ~(At(c, "createRootfs") /\ rootfs' # rootfs)
      <4>1. origin' = origin
        BY <2>1, <3>2 DEF Origin
      <4>2. Backend = "Btrfs" => rootfs' \in {rootfs, 0}
        BY <2>1, <3>2, RootfsStep
      <4> QED BY <4>1, <4>2 DEF EnvFromFrozenBase, OriginInv
    <3> QED BY <3>1, <3>2
  <2> QED BY <2>3, <2>4 DEF OriginInv
<1>4. CASE Freeze(c)
  BY <1>1, <1>4 DEF Freeze, FreezeCheck, FreezeMkdir, FreezeSnapshot, FreezeClean, FreezeReadonly,
                FreezeRecord, FreezeFails, FreezeThaw, FreezeRemove
<1> QED BY <1>1, <1>2, <1>3, <1>4 DEF NewStep, Begin, HasBase, StageEndsAtOnce

LEMMA OriginEnvironment ==
  ASSUME OneClient, TypeOK, OriginInv, BaseKept, Environment, origin' = origin
  PROVE  OriginInv'
<1>1. Backend = "Btrfs" => rootfs' \in {rootfs, 0}
  BY DEF Environment, MachineBoots, MachineExits, DiskUseChanges, TimePasses, Crash, resources, Unmounted
<1>2. ASSUME NEW c \in Clients PROVE req'[c].pc \in {req[c].pc, "idle"}
  <2>1. CASE Crash
    BY <2>1 DEF Crash, Idle
  <2>2. CASE TimePasses
    <3>1. req[c] \in [pc : Labels, env : EnvRecord \cup {NoMeta}, qgroup : 0..MaxSubvols]
      BY DEF TypeOK, Request
    <3> QED BY <2>2, <3>1 DEF TimePasses
  <2> QED BY <2>1, <2>2 DEF Environment, MachineBoots, MachineExits, DiskUseChanges
<1> QED BY <1>1, <1>2, OriginKept DEF Building

\* With one request at a time an env's subvolume is only ever a snapshot of a
\* base that was cleaned, made read-only and recorded, wherever a freeze or a
\* create was cut off and whichever of its steps failed.
THEOREM SerialEnvFromFrozenBase == ASSUME OneClient PROVE NewSpec => []EnvFromFrozenBase
<1>1. NewInit => FreezeInv /\ OriginInv
  BY NoJobKnows DEF NewInit, FreezeInv, Whole, NoBase, Init, OriginInv, EnvFromFrozenBase, Idle, Building
<1>2. TypeOK /\ FreezeInv /\ OriginInv /\ [NewNext]_newVars => FreezeInv' /\ OriginInv'
  <2> SUFFICES ASSUME TypeOK, FreezeInv, OriginInv, [NewNext]_newVars PROVE FreezeInv' /\ OriginInv'
    OBVIOUS
  <2>1. CASE NewNext
    <3>1. FreezeInv' /\ BaseKept
      BY <2>1, BaseStep
    <3>2. CASE \E c \in Clients : NewStep(c)
      BY <3>1, <3>2, OriginStep
    <3>3. CASE ~\E c \in Clients : NewStep(c)
      <4>1. Environment /\ origin' = origin
        BY <2>1, <3>3 DEF NewNext, NewCrash, Environment
      <4> QED BY <3>1, <4>1, OriginEnvironment
    <3> QED BY <3>1, <3>2, <3>3
  <2>2. CASE UNCHANGED newVars
    BY <2>2 DEF newVars, vars, FreezeInv, OriginInv, EnvFromFrozenBase, HasRecord
  <2> QED BY <2>1, <2>2
<1>3. OriginInv => EnvFromFrozenBase
  BY DEF OriginInv
<1> QED BY <1>1, <1>2, <1>3, NewIsLifecycle, TypeCorrect, PTL DEF NewSpec

-----------------------------------------------------------------------------
(* A job that failed can be repeated.  The stages of the base and those of *)
(* the env keep apart, and while nothing was cut off a directory without   *)
(* a record is the work of a request that is under way.                    *)

\* A job that freezes has no request to the env under way.
Apart(c) ==
  /\ Stage(c) \in {"ensureBase", "freeze"} => At(c, "idle")
  /\ job[c].step # "none" => Stage(c) \in {"ensureBase", "freeze"}

BaseLeft == base.dir /\ ~HasRecord
EnvLeft == dir /\ meta = NoMeta

RepeatInv ==
  /\ \A c \in Clients : Apart(c)
  /\ ~cut =>
       /\ BaseLeft => \E c \in Clients : job[c].step \in Working \ {"mkdir"}
       /\ EnvLeft => \E c \in Clients : req[c].pc \in Between

\* A record is a record.
LEMMA RecordIsThere ==
  ASSUME NEW env \in EnvRecord PROVE env # NoMeta
BY NoMetaAssumption

\* A handler that leaves a directory without a record is not done with it, or
\* has failed to remove it.
LEMMA LeftByHandler ==
  ASSUME TypeOK, SerialInv, NEW c \in Clients, Handler(c),
         EnvLeft => req[c].pc \in Between, EnvLeft'
  PROVE  req'[c].pc \in Between \/ (Removes(c) /\ req'[c].pc = "idle")
<1> USE DEF EnvLeft, resources, volumes, At, Goto
<1>1. KnownAt(req[c].pc) /\ req \in [Clients -> Request]
  BY DEF SerialInv, TypeOK
<1>2. CASE meta # NoMeta /\ meta' = meta
  BY <1>2
<1>3. CASE Create(c)
  <2>1. CASE CreateCheck(c) \/ CreateMkdir(c)
    BY <2>1, GoesTo DEF CreateCheck, CreateMkdir, Between
  <2>2. CASE CreateRootfs(c) \/ CreateConfig(c)
    BY <2>2, GoesTo DEF CreateRootfs, CreateConfig, Between
  <2>3. CASE CreateCommit(c)
    <3>1. meta' \in EnvRecord
      BY <2>3 DEF CreateCommit, WriteEnv, EnvRecord, EnvState
    <3> QED BY <3>1, RecordIsThere
  <2>4. CASE CreateFails(c)
    <3>1. \E label \in {"cleanContents", "cleanRootfs"} : GotoWith(c, label, NoMeta, 0)
      BY <2>4 DEF CreateFails
    <3> QED BY <3>1, GoesTo DEF Between
  <2>5. CASE CleanRootfs(c) \/ CleanSubvol(c) \/ CleanQgroup(c)
    <3>1. \E label \in {"cleanSubvol", "cleanQgroup", "cleanContents"} : \E id : GotoWith(c, label, NoMeta, id)
      BY <2>5 DEF CleanRootfs, CleanSubvol, CleanQgroup
    <3> QED BY <3>1, GoesTo DEF Between
  <2>6. CASE CleanContents(c)
    BY <2>6, GoesTo DEF CleanContents, Between
  <2>7. CASE CleanRmdir(c)
    BY <2>7, GoesToDone DEF CleanRmdir, Removes
  <2> QED BY <1>3, <2>1, <2>2, <2>3, <2>4, <2>5, <2>6, <2>7 DEF Create
<1>4. CASE Start(c) /\ ~StartFail(c)
  BY <1>1, <1>2, <1>4 DEF Start, StartRead, ReadEnv, StartPrep, StartStopUnit, StartRun, StartWait,
                          KnownAt, Unread
<1>5. CASE StartFail(c) \/ WriteBack(c)
  <2>1. req[c].pc \notin Unread
    BY <1>5 DEF StartFail, WriteBack, WriteSteps, Unread
  <2>2. req[c].env \in EnvRecord
    BY <1>1, <2>1, CopyType
  <2>3. meta' \in EnvRecord
    BY <1>5, <2>2, WithState DEF StartFail, WriteBack, WriteEnv, EnvState
  <2> QED BY <2>3, RecordIsThere
<1>6. CASE Stop(c)
  BY <1>1, <1>2, <1>6 DEF Stop, StopRead, ReadEnv, StopMachine, StopCheck, KnownAt, Unread
<1>7. CASE Destroy(c)
  <2>1. CASE DestroyContents(c)
    BY <2>1, GoesTo DEF DestroyContents, Between
  <2>2. CASE DestroyRmdir(c)
    BY <2>2, GoesToDone DEF DestroyRmdir, Removes
  <2>3. CASE ~(DestroyContents(c) \/ DestroyRmdir(c))
    BY <1>1, <1>2, <1>7, <2>3
    DEF Destroy, DestroyRead, ReadEnv, DestroyMachine, DestroyRootfs, DestroySubvol, DestroyQgroup,
        DestroyConfig, KnownAt, Unread
  <2> QED BY <2>1, <2>2, <2>3
<1>8. CASE Status(c) \/ Exec(c) \/ Touch(c)
  BY <1>1, <1>2, <1>8 DEF Status, StatusRead, ReadEnv, StatusRefresh, StatusIdle, StatusQuota,
                          Exec, ExecRead, ExecLog, ExecCmd, Touch, TouchRead, TouchMount,
                          KnownAt, Unread
<1>9. CASE RequestFails(c)
  <2>1. CASE At(c, "createMkdir")
    BY <2>1, <1>9 DEF RequestFails, LogSteps, StopSteps, WriteSteps, Between
  <2>2. CASE At(c, "destroyContents") \/ At(c, "destroyRmdir")
    BY <2>2, <1>9, GoesToDone DEF RequestFails, Removes
  <2>3. CASE ~(At(c, "createMkdir") \/ At(c, "destroyContents") \/ At(c, "destroyRmdir"))
    <3>1. req[c].pc \notin Unread \cup {"destroyRmdir"}
      BY <1>9, <2>3 DEF RequestFails, CanFail, LogSteps, StopSteps, WriteSteps, DestroySteps, Unread
    <3> QED BY <1>1, <1>2, <1>9, <2>3, <3>1 DEF RequestFails, KnownAt
  <2> QED BY <2>1, <2>2, <2>3
<1> QED BY <1>3, <1>4, <1>5, <1>6, <1>7, <1>8, <1>9 DEF Handler, Start

\* The next stage, or none, with the request to the env at its end.
LEMMA ApartAtRest ==
  ASSUME NEW c \in Clients, req'[c].pc = "idle", job'[c].step = "none" PROVE Apart(c)'
BY DEF Apart, At

LEMMA StepIsNone ==
  ASSUME FreezeInv, NEW c \in Clients,
         \/ NextStage(c) \/ EndJob(c)
         \/ EnsureStarted(c) /\ job[c].step = "none"
  PROVE  job'[c].step = "none"
<1>1. CASE NextStage(c)
  BY <1>1 DEF FreezeInv, NextStage, NoJob
<1>2. CASE EndJob(c)
  BY <1>2 DEF FreezeInv, EndJob, NoJob
<1>3. CASE EnsureStarted(c) /\ job[c].step = "none"
  <2>1. CASE job' = [job EXCEPT ![c].todo = <<"start">> \o Tail(@)]
    <3>1. Knows(job[c], base)
      BY DEF FreezeInv
    <3> QED BY <1>3, <2>1, <3>1 DEF FreezeInv, Knows
  <2> QED BY <1>1, <1>2, <1>3, <2>1 DEF EnsureStarted
<1> QED BY <1>1, <1>2, <1>3

LEMMA FreezeWent ==
  ASSUME FreezeInv, NEW c \in Clients, NEW step, FreezeGoto(c, step)
  PROVE  job'[c].step = step /\ Stage(c)' = Stage(c) /\ job'[c].op = job[c].op
         /\ job'[c].todo = job[c].todo
<1>1. Knows(job[c], base)
  BY DEF FreezeInv
<1>2. job'[c] = [job[c] EXCEPT !.step = step]
  BY DEF FreezeInv, FreezeGoto
<1>3. job'[c].step = step /\ job'[c].todo = job[c].todo /\ job'[c].op = job[c].op
  BY <1>1, <1>2 DEF Knows
<1> QED BY <1>3 DEF Stage

LEMMA FreezeRepeats ==
  ASSUME OneClient, FreezeInv, RepeatInv, NEW c \in Clients, Freeze(c) \/ HasBase(c)
  PROVE  RepeatInv'
<1> USE DEF Freezes
<1>1. /\ Apart(c) /\ UNCHANGED vars
      /\ ~cut /\ BaseLeft => job[c].step \in Working \ {"mkdir"}
      /\ ~cut /\ EnvLeft => req[c].pc \in Between
  BY DEF RepeatInv, OneClient, Freeze, HasBase, FreezeCheck, FreezeMkdir, FreezeSnapshot, FreezeClean,
         FreezeReadonly, FreezeRecord, FreezeFails, FreezeThaw, FreezeRemove
<1>2. Stage(c) \in {"ensureBase", "freeze"}
  BY <1>1 DEF Apart, Freeze, HasBase, FreezeCheck, FreezeMkdir, FreezeSnapshot, FreezeClean,
         FreezeReadonly, FreezeRecord, FreezeFails, FreezeThaw, FreezeRemove
<1>3. At(c, "idle") /\ At(c, "idle")' /\ UNCHANGED <<dir, meta>>
  BY <1>1, <1>2 DEF Apart, vars, At
<1>4. ~cut => ~EnvLeft /\ ~EnvLeft'
  BY <1>1, <1>3 DEF At, Between, EnvLeft
<1>5. cut => cut'
  BY DEF Freeze, HasBase, FreezeCheck, FreezeMkdir, FreezeSnapshot, FreezeClean,
         FreezeReadonly, FreezeRecord, FreezeFails, FreezeThaw, FreezeRemove
<1>6. SUFFICES /\ Apart(c)'
               /\ ~cut' /\ BaseLeft' => job'[c].step \in Working \ {"mkdir"}
  BY <1>4, <1>5 DEF RepeatInv, OneClient
<1>7. CASE \/ NextStage(c) \/ EndJob(c)
  <2>1. job'[c].step = "none" /\ Apart(c)'
    BY <1>3, <1>7, StepIsNone, ApartAtRest DEF At
  <2>2. ~cut' => ~BaseLeft'
    <3>1. CASE FreezeRemove(c)
      BY <3>1 DEF FreezeRemove, BaseLeft
    <3>2. CASE FreezeRecord(c)
      <4>1. base.dir /\ base'.record = job[c].from /\ job[c].from \in Sources
        BY <3>2, AtWork DEF FreezeRecord, Working, FreezeInv, Whole
      <4> QED BY <4>1, SourcesAssumption DEF BaseLeft, HasRecord
    <3>3. CASE HasBase(c) \/ FreezeCheck(c) \/ (FreezeFails(c) /\ Freezes(c, "mkdir"))
      <4>1. base' = base /\ cut' = cut /\ job[c].step \notin Working \ {"mkdir"}
        BY <3>3 DEF HasBase, FreezeCheck, FreezeFails, Working
      <4> QED BY <1>1, <4>1 DEF BaseLeft, HasRecord
    <3>4. CASE \E step \in Working : FreezeGoto(c, step)
      BY <2>1, <3>4, FreezeWent DEF Working
    <3> QED BY <3>1, <3>2, <3>3, <3>4
            DEF Freeze, FreezeMkdir, FreezeSnapshot, FreezeClean, FreezeReadonly, FreezeFails,
                FreezeThaw, Working
  <2> QED BY <2>1, <2>2
<1>8. ASSUME NEW step \in Working \ {"mkdir"}, FreezeGoto(c, step)
      PROVE  Apart(c)' /\ job'[c].step \in Working \ {"mkdir"}
  BY <1>2, <1>3, <1>8, FreezeWent DEF Apart
<1>9. CASE FreezeGoto(c, "mkdir") /\ FreezeCheck(c)
  <2>1. job[c].step \notin Working /\ base' = base /\ cut' = cut
    BY <1>9 DEF FreezeCheck, Working
  <2>2. Apart(c)'
    BY <1>2, <1>3, <1>9, FreezeWent DEF Apart
  <2> QED BY <1>1, <2>1, <2>2 DEF BaseLeft, HasRecord
<1>10. \/ NextStage(c) \/ EndJob(c)
       \/ \E step \in Working \ {"mkdir"} : FreezeGoto(c, step)
       \/ FreezeGoto(c, "mkdir") /\ FreezeCheck(c)
  BY DEF Freeze, HasBase, FreezeCheck, FreezeMkdir, FreezeSnapshot, FreezeClean, AlreadyExists,
         FreezeReadonly, FreezeRecord, FreezeFails, FreezeThaw, FreezeRemove, Working
<1> QED BY <1>7, <1>8, <1>9, <1>10

\* Steps that have nothing to do with the base.
LEMMA EnvRepeats ==
  ASSUME OneClient, RepeatInv, NEW c \in Clients, base' = base, Apart(c)',
         cut => cut', job[c].step \in Working => job'[c].step = job[c].step,
         ~cut' => (EnvLeft' => req'[c].pc \in Between)
  PROVE  RepeatInv'
<1>1. ~cut' /\ BaseLeft' => job[c].step \in Working \ {"mkdir"}
  BY DEF RepeatInv, OneClient, BaseLeft, HasRecord
<1>2. ~cut' /\ BaseLeft' => job'[c].step \in Working \ {"mkdir"}
  BY <1>1
<1> QED BY <1>2 DEF RepeatInv, OneClient

LEMMA RepeatStep ==
  ASSUME OneClient, TypeOK, SerialInv, FreezeInv, RepeatInv, NEW c \in Clients, NewStep(c)
  PROVE  RepeatInv'
<1>1. Apart(c) /\ (~cut /\ EnvLeft => req[c].pc \in Between)
  BY DEF RepeatInv, OneClient
<1>2. ASSUME NEW op \in NewOps, NEW from \in Sources, Begin(c, op, from) PROVE RepeatInv'
  <2>1. job'[c].step = "none" /\ ~Busy(c) /\ At(c, "idle") /\ UNCHANGED <<vars, base, cut>>
    BY <1>2 DEF Begin, NewIdle, FreezeInv
  <2>2. job[c].step = "none" /\ req' = req /\ UNCHANGED <<dir, meta>>
    BY <2>1 DEF Busy, NoJob, vars
  <2>3. Apart(c)'
    BY <2>1, <2>2, ApartAtRest DEF At
  <2> QED BY <1>1, <2>1, <2>2, <2>3, EnvRepeats DEF Working, EnvLeft
<1>3. CASE StageBegins(c)
  <2>1. Handler(c) /\ At(c, "idle") /\ UNCHANGED <<base, job, cut>>
    BY <1>3 DEF StageBegins, Handler, Create, Status, Start, Exec, CreateCheck, StatusRead,
                StartRead, ExecRead, ReadEnv
  <2>2. Apart(c)'
    BY <1>1, <1>3, <2>1 DEF Apart, Stage, StageBegins
  <2>3. ~cut => ~EnvLeft'
    BY <1>1, <1>3, <2>1 DEF StageBegins, CreateCheck, StatusRead, StartRead, ExecRead, ReadEnv,
                EnvLeft, At, Between
  <2> QED BY <2>1, <2>2, <2>3, EnvRepeats
<1>4. CASE StageEndsAtOnce(c)
  <2>1. At(c, "idle") /\ (NextStage(c) \/ EndJob(c)) /\ UNCHANGED <<vars, base, cut>>
    BY <1>4 DEF StageEndsAtOnce, AlreadyExists
  <2>2. job[c].step \notin Working
    BY <1>1, <1>4 DEF StageEndsAtOnce, Apart, Working
  <2>3. req' = req /\ UNCHANGED <<dir, meta>> /\ job'[c].step = "none"
    BY <2>1, StepIsNone DEF vars
  <2>4. Apart(c)'
    BY <2>1, <2>3, ApartAtRest DEF At
  <2> QED BY <1>1, <2>1, <2>2, <2>3, <2>4, EnvRepeats DEF EnvLeft
<1>5. CASE EnvStep(c)
  <2>1. Handler(c) /\ Cut(c) /\ base' = base
    BY <1>5 DEF EnvStep, PlainRequest, HandlerSucceeds, HandlerFails, HandlerGoesOn,
                Handler, Create, Start
  <2>2. ~cut' => (EnvLeft' => req'[c].pc \in Between)
    <3> SUFFICES ASSUME ~cut', EnvLeft' PROVE req'[c].pc \in Between
      OBVIOUS
    <3>1. ~cut /\ ~(Removes(c) /\ req'[c].pc = "idle")
      BY <2>1 DEF Cut, EnvLeft, At
    <3> QED BY <1>1, <2>1, <3>1, LeftByHandler
  <2>3. CASE PlainRequest(c)
    <3>1. job' = job /\ job[c] = NoJob
      BY <2>3 DEF PlainRequest, Busy
    <3>2. Apart(c)'
      BY <3>1 DEF Apart, Stage, NoJob
    <3> QED BY <2>1, <2>2, <3>1, <3>2, EnvRepeats DEF Cut
  <2>4. CASE Busy(c) /\ ~At(c, "idle")
    <3>1. job[c].step = "none"
      BY <1>1, <2>4 DEF Apart
    <3>2. CASE HandlerGoesOn(c)
      <4>1. Apart(c)'
        BY <1>1, <2>4, <3>2 DEF HandlerGoesOn, Apart, Stage
      <4> QED BY <2>1, <2>2, <3>2, <4>1, EnvRepeats DEF HandlerGoesOn, Cut
    <3>3. CASE HandlerSucceeds(c) \/ HandlerFails(c)
      <4>1. req'[c].pc = "idle"
        BY <3>3, GoesToDone DEF HandlerSucceeds, HandlerFails, CreateCommit, WriteBack, RequestFails,
                                StartFail, CleanRmdir
      <4>2. job'[c].step = "none"
        BY <3>1, <3>3, StepIsNone DEF HandlerSucceeds, HandlerFails
      <4>3. Apart(c)'
        BY <4>1, <4>2, ApartAtRest
      <4> QED BY <2>1, <2>2, <3>1, <4>2, <4>3, EnvRepeats DEF Working, Cut
    <3> QED BY <1>5, <2>4, <3>2, <3>3 DEF EnvStep, PlainRequest
  <2>5. CASE Busy(c) /\ At(c, "idle")
    BY <1>5, <2>5 DEF EnvStep, PlainRequest, HandlerSucceeds, HandlerFails, HandlerGoesOn,
         CreateCommit, WriteBack, WriteSteps, RequestFails, CanFail, LogSteps, StopSteps, DestroySteps,
         StartFail, CleanRmdir, At
  <2> QED BY <1>5, <2>3, <2>4, <2>5 DEF EnvStep
<1> QED BY <1>2, <1>3, <1>4, <1>5, FreezeRepeats DEF NewStep

LEMMA AgedKeeps ==
  ASSUME NEW env \in EnvRecord \cup {NoMeta}
  PROVE  Aged(env).state = env.state /\ (Aged(env) = NoMeta <=> env = NoMeta)
<1>1. CASE env = NoMeta
  BY <1>1 DEF Aged
<1>2. CASE env \in EnvRecord
  <2>1. Aged(env) \in EnvRecord /\ Aged(env).state = env.state
    BY <1>2, RecordIsThere DEF Aged, EnvRecord
  <2> QED BY <1>2, <2>1, RecordIsThere
<1> QED BY <1>1, <1>2

\* What happens outside the requests and the daemon moves no request.
LEMMA OutsideKeeps ==
  ASSUME TypeOK, MachineBoots \/ MachineExits \/ DiskUseChanges \/ TimePasses
  PROVE  /\ dir' = dir /\ meta'.state = meta.state /\ (meta' = NoMeta <=> meta = NoMeta)
         /\ \A c \in Clients : req'[c].pc = req[c].pc
<1>1. CASE TimePasses
  <2>1. \A c \in Clients : req[c] \in [pc : Labels, env : EnvRecord \cup {NoMeta}, qgroup : 0..MaxSubvols]
    BY DEF TypeOK, Request
  <2>2. \A c \in Clients : req'[c].pc = req[c].pc
    BY <1>1, <2>1 DEF TimePasses
  <2>3. meta \in EnvRecord \cup {NoMeta} /\ meta' = Aged(meta) /\ dir' = dir
    BY <1>1 DEF TypeOK, StoreOK, TimePasses
  <2> QED BY <2>2, <2>3, AgedKeeps
<1>2. CASE MachineBoots \/ MachineExits \/ DiskUseChanges
  BY <1>2 DEF MachineBoots, MachineExits, DiskUseChanges
<1> QED BY <1>1, <1>2

LEMMA RepeatOutside ==
  ASSUME TypeOK, RepeatInv, UNCHANGED <<base, job, origin, cut>>,
         MachineBoots \/ MachineExits \/ DiskUseChanges \/ TimePasses
  PROVE  RepeatInv'
<1>1. \A c \in Clients : Apart(c)'
  BY OutsideKeeps DEF RepeatInv, Apart, Stage, At
<1> QED BY <1>1, OutsideKeeps DEF RepeatInv, BaseLeft, EnvLeft, HasRecord

LEMMA RepeatCrash ==
  ASSUME RepeatInv, NewCrash PROVE RepeatInv'
<1>1. \A c \in Clients : req'[c].pc = "idle" /\ job'[c].step = "none"
  BY DEF NewCrash, Crash, Idle, NoJob
<1>2. \A c \in Clients : Apart(c)'
  BY <1>1 DEF Apart, At
<1>3. UNCHANGED <<base, dir, meta>>
  BY DEF NewCrash, Crash
<1>4. ~cut' => ~BaseLeft' /\ ~EnvLeft'
  BY <1>3 DEF NewCrash, RepeatInv, BaseLeft, EnvLeft, HasRecord, Working
<1> QED BY <1>2, <1>4 DEF RepeatInv

LEMMA RepeatsInvariance == ASSUME OneClient PROVE NewSpec => [](FreezeInv /\ RepeatInv)
<1>1. NewInit => FreezeInv /\ RepeatInv
  <2> SUFFICES ASSUME NewInit PROVE FreezeInv /\ RepeatInv
    OBVIOUS
  <2>1. FreezeInv
    BY NoJobKnows DEF NewInit, FreezeInv, Whole, NoBase
  <2>2. \A c \in Clients : Apart(c)
    BY DEF NewInit, Init, Idle, NoJob, Apart, At
  <2> QED BY <2>1, <2>2 DEF NewInit, Init, NoBase, RepeatInv, BaseLeft, EnvLeft
<1>2. (TypeOK /\ SerialInv) /\ (FreezeInv /\ RepeatInv) /\ [NewNext]_newVars
        => (FreezeInv /\ RepeatInv)'
  <2> SUFFICES ASSUME TypeOK, SerialInv, FreezeInv, RepeatInv, [NewNext]_newVars
               PROVE  FreezeInv' /\ RepeatInv'
    OBVIOUS
  <2>1. CASE NewNext
    <3>1. FreezeInv'
      BY <2>1, BaseStep
    <3> QED BY <2>1, <3>1, RepeatStep, RepeatOutside, RepeatCrash DEF NewNext
  <2>2. CASE UNCHANGED newVars
    <3>1. \A c \in Clients : Apart(c)'
      BY <2>2 DEF newVars, vars, RepeatInv, Apart, Stage, At
    <3> QED BY <2>2, <3>1
            DEF newVars, vars, FreezeInv, RepeatInv, BaseLeft, EnvLeft, HasRecord
  <2> QED BY <2>1, <2>2
<1> QED BY <1>1, <1>2, NewIsLifecycle, SerialInvariance, PTL DEF NewSpec

\* With one request at a time a job that failed can be repeated: unless
\* something was killed or could not be removed, no directory of a base or an
\* env is left without its record, which would be taken for the finished thing
\* by every later create or freeze.
THEOREM SerialNewCanBeRepeated == ASSUME OneClient PROVE NewSpec => []NewCanBeRepeated
<1>1. FreezeInv /\ RepeatInv => NewCanBeRepeated
  BY DEF RepeatInv, NewCanBeRepeated, NewIdle, Busy, NoJob, At, BaseLeft, EnvLeft, Working, Between
<1> QED BY <1>1, RepeatsInvariance, PTL

-----------------------------------------------------------------------------
(* A `new` comes to the start of its env only from a status that said the  *)
(* env does not run, and with one request at a time that stays so.         *)

NewTodos ==
  {<<"ensureBase", "ensureEnv", "ensureStarted", "exec">>, <<"ensureEnv", "ensureStarted", "exec">>,
   <<"ensureStarted", "exec">>, <<"exec">>, <<"start", "exec">>}

NotRunning(m) == m.state \in {"Created", "Stopped"}

Spares(j, pc, m) ==
  j.op = "new" =>
    /\ j.todo \in NewTodos
    /\ pc \in {"startPrep", "startStopUnit"} => Head(j.todo) = "start"
    /\ pc \in {"idle", "startPrep", "startStopUnit"} /\ Head(j.todo) = "start" => NotRunning(m)

SpareInv == \A c \in Clients : Spares(job[c], req[c].pc, meta)

LEMMA NextTodo ==
  ASSUME NEW todo \in NewTodos, Len(todo) # 1
  PROVE  Tail(todo) \in NewTodos /\ Head(Tail(todo)) # "start"
<1> DEFINE four == <<"ensureBase", "ensureEnv", "ensureStarted", "exec">>
           three == <<"ensureEnv", "ensureStarted", "exec">>
           two == <<"ensureStarted", "exec">>
           one == <<"exec">>
           started == <<"start", "exec">>
<1>1. Tail(four) = three /\ Head(three) = "ensureEnv"
  OBVIOUS
<1>2. Tail(three) = two /\ Head(two) = "ensureStarted"
  OBVIOUS
<1>3. Tail(two) = one /\ Tail(started) = one /\ Head(one) = "exec" /\ Len(one) = 1
  OBVIOUS
<1>4. NewTodos = {four, three, two, one, started}
  BY DEF NewTodos
<1> HIDE DEF four, three, two, one, started
<1> QED BY <1>1, <1>2, <1>3, <1>4

LEMMA StartThenExec == <<"start">> \o <<"exec">> = <<"start", "exec">>
<1> DEFINE s == <<"start">> \o <<"exec">>
<1>1. <<"start">> \in Seq({"start", "exec"}) /\ <<"exec">> \in Seq({"start", "exec"})
  OBVIOUS
<1>2. Len(s) = 2 /\ s \in Seq({"start", "exec"})
  BY <1>1
<1>3. s[1] = "start" /\ s[2] = "exec"
  BY <1>1
<1> HIDE DEF s
<1>4. s = <<"start", "exec">>
  BY <1>1, <1>2, <1>3
<1> QED BY <1>4 DEF s

LEMMA SparesNextStage ==
  ASSUME FreezeInv, NEW c \in Clients, job[c].op = "new" => job[c].todo \in NewTodos,
         NextStage(c) \/ EndJob(c), NEW pc, NEW m, pc \notin {"startPrep", "startStopUnit"}
  PROVE  Spares(job'[c], pc, m)
<1>1. CASE job'[c] = NoJob
  BY <1>1 DEF NoJob, Spares
<1>2. CASE job'[c] # NoJob
  <2>1. /\ Len(job[c].todo) # 1
        /\ job'[c].op = job[c].op /\ job'[c].todo = Tail(job[c].todo)
    <3> DEFINE next == [op |-> job[c].op, from |-> job[c].from, todo |-> Tail(job[c].todo),
                        step |-> "none"]
    <3>1. job'[c] = IF Len(job[c].todo) = 1 THEN NoJob ELSE next
      BY <1>2 DEF FreezeInv, NextStage, EndJob
    <3> QED BY <1>2, <3>1
  <2>2. job[c].op = "new" => job'[c].todo \in NewTodos /\ Head(job'[c].todo) # "start"
    BY <2>1, NextTodo
  <2> QED BY <2>1, <2>2 DEF Spares
<1> QED BY <1>1, <1>2

\* A step of the base, or a stage that ends before its handler begins.
LEMMA SparesBase ==
  ASSUME OneClient, FreezeInv, NEW c \in Clients, Apart(c), Spares(job[c], req[c].pc, meta),
         Freeze(c) \/ HasBase(c) \/ StageEndsAtOnce(c)
  PROVE  Spares(job'[c], req'[c].pc, meta')
<1>1. UNCHANGED vars
  BY DEF HasBase, StageEndsAtOnce, Freeze, FreezeCheck, FreezeMkdir, FreezeSnapshot,
         FreezeClean, FreezeReadonly, FreezeRecord, FreezeFails, FreezeThaw, FreezeRemove
<1>2. req' = req /\ meta' = meta
  BY <1>1 DEF vars
<1>3. Freezes(c, "none") => Stage(c) \in {"ensureBase", "freeze"} \/ At(c, "idle")
  BY DEF HasBase, StageEndsAtOnce, Freeze, FreezeCheck, FreezeMkdir, FreezeSnapshot, Freezes,
         FreezeClean, FreezeReadonly, FreezeRecord, FreezeFails, FreezeThaw, FreezeRemove
<1>4. req[c].pc = "idle"
  BY <1>3 DEF Apart, At, Freezes
<1>5. CASE NextStage(c) \/ EndJob(c)
  BY <1>2, <1>4, <1>5, SparesNextStage DEF Spares
<1>6. ASSUME NEW step, FreezeGoto(c, step) PROVE Spares(job'[c], req'[c].pc, meta')
  BY <1>2, <1>6, FreezeWent DEF Spares
<1> QED BY <1>5, <1>6
        DEF HasBase, StageEndsAtOnce, AlreadyExists, Freeze, FreezeCheck, FreezeMkdir,
            FreezeSnapshot, FreezeClean, FreezeReadonly, FreezeRecord, FreezeFails, FreezeThaw,
            FreezeRemove

\* A stage that comes to its end.
LEMMA SparesEnd ==
  ASSUME OneClient, TypeOK, FreezeInv, NEW c \in Clients, Busy(c), HandlerSucceeds(c),
         Spares(job[c], req[c].pc, meta)
  PROVE  Spares(job'[c], req'[c].pc, meta')
<1>1. req'[c].pc = "idle"
  BY GoesToDone DEF HandlerSucceeds, CreateCommit, WriteBack
<1>2. job[c].op = "new" => job[c].todo \in NewTodos
  BY DEF Spares
<1>3. CASE NextStage(c) \/ EndJob(c)
  BY <1>1, <1>2, <1>3, SparesNextStage
<1>4. CASE /\ Stage(c) = "ensureStarted" /\ EnsureStarted(c)
           /\ req[c].env.state \in {"Created", "Stopped"}
  <2> DEFINE rest == <<"start">> \o Tail(job[c].todo)
  <2>1. Knows(job[c], base) /\ job' = [job EXCEPT ![c].todo = rest]
    BY <1>4 DEF FreezeInv, EnsureStarted
  <2> HIDE DEF rest
  <2>2. job'[c].op = job[c].op /\ job'[c].todo = rest
    BY <2>1 DEF FreezeInv, Knows
  <2>3. NotRunning(meta')
    BY <1>4 DEF HandlerSucceeds, CreateCommit, WriteBack, WriteEnv, NotRunning
  <2>4. ASSUME job[c].op = "new" PROVE rest \in NewTodos
    <3>1. job[c].todo = <<"ensureStarted", "exec">>
      BY <1>2, <1>4, <2>4 DEF NewTodos, Stage
    <3>2. Tail(job[c].todo) = <<"exec">>
      BY <3>1
    <3>3. rest = <<"start", "exec">>
      BY <3>2, StartThenExec DEF rest
    <3> QED BY <3>3 DEF NewTodos
  <2> QED BY <1>1, <2>2, <2>3, <2>4 DEF Spares
<1> QED BY <1>3, <1>4 DEF HandlerSucceeds, EnsureStarted

LEMMA SparesStep ==
  ASSUME OneClient, TypeOK, FreezeInv, RepeatInv, SpareInv, NEW c \in Clients, NewStep(c)
  PROVE  SpareInv'
<1>1. Apart(c) /\ Spares(job[c], req[c].pc, meta)
  BY DEF RepeatInv, SpareInv
<1>2. SUFFICES Spares(job'[c], req'[c].pc, meta')
  BY DEF SpareInv, OneClient
<1>3. ASSUME NEW op \in NewOps, NEW from \in Sources, Begin(c, op, from)
      PROVE  Spares(job'[c], req'[c].pc, meta')
  <2> DEFINE stages == Stages[op]
  <2>1. job'[c].op = op /\ job'[c].todo = stages /\ req' = req /\ req[c].pc = "idle"
    BY <1>3 DEF Begin, FreezeInv, NewIdle, At, vars
  <2>2. op = "new" => stages = <<"ensureBase", "ensureEnv", "ensureStarted", "exec">>
    BY DEF Stages
  <2>3. op = "new" => stages \in NewTodos /\ Head(stages) = "ensureBase"
    BY <2>2 DEF NewTodos
  <2> QED BY <2>1, <2>3 DEF Spares
<1>4. CASE HasBase(c) \/ Freeze(c) \/ StageEndsAtOnce(c)
  BY <1>1, <1>4, SparesBase
<1>5. CASE StageBegins(c)
  <2>1. meta' = meta /\ job' = job /\ req[c].pc = "idle"
    BY <1>5 DEF StageBegins, CreateCheck, StatusRead, StartRead, ExecRead, ReadEnv, At
  <2>2. \/ req'[c].pc \in {"createMkdir", "statusRefresh", "execLog"}
        \/ req'[c].pc = "startPrep" /\ Stage(c) = "start"
    <3>1. CASE CreateCheck(c)
      BY <3>1, GoesTo DEF CreateCheck, Goto
    <3>2. CASE StatusRead(c) \/ ExecRead(c)
      BY <3>2, GoesTo DEF StatusRead, ExecRead, ReadEnv, Goto
    <3>3. CASE StartRead(c) /\ Stage(c) = "start"
      BY <3>3, GoesTo DEF StartRead, ReadEnv, Goto
    <3> QED BY <1>5, <3>1, <3>2, <3>3 DEF StageBegins
  <2>3. Stage(c) = "start" => Head(job[c].todo) = "start"
    BY DEF Stage
  <2> QED BY <1>1, <2>1, <2>2, <2>3 DEF Spares
<1>6. CASE EnvStep(c)
  <2>1. CASE PlainRequest(c)
    BY <2>1 DEF PlainRequest, Busy, NoJob, Spares
  <2>2. CASE Busy(c) /\ HandlerSucceeds(c)
    BY <1>1, <2>2, SparesEnd
  <2>3. CASE HandlerFails(c)
    <3>1. job'[c] = NoJob
      BY <2>3 DEF HandlerFails, EndJob, FreezeInv
    <3> QED BY <3>1 DEF NoJob, Spares
  <2>4. CASE HandlerGoesOn(c)
    <3>1. job' = job /\ req[c].pc # "idle" /\ req'[c].pc # "idle" /\ Handler(c)
      BY <2>4 DEF HandlerGoesOn, At
    <3>2. CASE req'[c].pc \in {"startPrep", "startStopUnit"}
      <4>1. StartPrep(c)
        BY <3>1, <3>2, EarlyStep DEF Early, StartRead, ReadEnv, At
      <4> QED BY <1>1, <3>1, <4>1 DEF StartPrep, At, Spares
    <3>3. CASE req'[c].pc \notin {"startPrep", "startStopUnit"}
      BY <1>1, <3>1, <3>3 DEF Spares
    <3> QED BY <3>2, <3>3
  <2> QED BY <1>6, <2>1, <2>2, <2>3, <2>4 DEF EnvStep
<1> QED BY <1>3, <1>4, <1>5, <1>6 DEF NewStep

\* With one request at a time a `new` does not stop the machine of an env that
\* is recorded as running, unless the env has been idle for too long.
THEOREM SerialNewSparesRunning == ASSUME OneClient PROVE NewSpec => NewSparesRunning
<1>1. NewInit => SpareInv
  BY DEF NewInit, NoJob, SpareInv, Spares
<1>2. (TypeOK /\ SerialInv) /\ FreezeInv /\ RepeatInv /\ SpareInv /\ [NewNext]_newVars => SpareInv'
  <2> SUFFICES ASSUME TypeOK, FreezeInv, RepeatInv, SpareInv, [NewNext]_newVars
               PROVE  SpareInv'
    OBVIOUS
  <2>1. ASSUME NEW c \in Clients, NewStep(c) PROVE SpareInv'
    BY <2>1, SparesStep
  <2>2. CASE /\ MachineBoots \/ MachineExits \/ DiskUseChanges \/ TimePasses
             /\ UNCHANGED <<base, job, origin, cut>>
    BY <2>2, OutsideKeeps DEF SpareInv, Spares, NotRunning
  <2>3. CASE NewCrash
    BY <2>3 DEF NewCrash, NoJob, SpareInv, Spares
  <2>4. CASE UNCHANGED newVars
    BY <2>4 DEF newVars, vars, SpareInv
  <2> QED BY <2>1, <2>2, <2>3, <2>4 DEF NewNext
<1>3. SpareInv => [\A c \in Clients :
                     (/\ job[c].op = "new" /\ req[c].pc = "startStopUnit"
                      /\ machine = "running" /\ req'[c] # req[c] /\ crashes' = crashes)
                     => meta.state # "Running"]_newVars
  BY DEF SpareInv, Spares, NotRunning
<1> QED BY <1>1, <1>2, <1>3, RepeatsInvariance, NewIsLifecycle, SerialInvariance, PTL
        DEF NewSpec, NewSparesRunning
=============================================================================
