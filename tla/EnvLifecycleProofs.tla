------------------------ MODULE EnvLifecycleProofs ------------------------
(***************************************************************************)
(* Proofs about EnvLifecycle, for any number of clients, either backend    *)
(* and any bounds.                                                         *)
(***************************************************************************)
EXTENDS EnvLifecycle, TLAPS

-----------------------------------------------------------------------------
(* The records a request holds.                                            *)

LEMMA UnreadLabels == Unread \subseteq Labels
BY DEF Unread, Labels

LEMMA StepLabels ==
  /\ WriteSteps \subseteq Labels \ Unread
  /\ SessionSteps \subseteq Labels \ Unread
  /\ DestroySteps \subseteq Labels \ Unread
  /\ {"startPrep", "startStopUnit", "startRun", "startWait", "startFail", "stopMachine",
      "stopCheck", "destroyMachine", "statusRefresh", "statusIdle", "statusQuota",
      "execLog", "execCmd", "touchMount"} \subseteq Labels \ Unread
BY DEF WriteSteps, DestroySteps, SessionSteps, Labels, Unread

\* A request that has read the metadata holds a well-formed copy of it.
LEMMA CopyType ==
  ASSUME NEW c \in Clients, req \in [Clients -> Request], req[c].pc \notin Unread
  PROVE  req[c].env \in EnvRecord
BY DEF Request

LEMMA GotoType ==
  ASSUME NEW c \in Clients, req \in [Clients -> Request],
         NEW label \in Labels, NEW env \in EnvRecord \cup {NoMeta}, NEW qgroup \in 0..MaxSubvols,
         env = NoMeta <=> label \in Unread,
         GotoWith(c, label, env, qgroup)
  PROVE  req' \in [Clients -> Request]
<1>1. [pc |-> label, env |-> env, qgroup |-> qgroup] \in Request
  BY DEF Request
<1> QED BY <1>1 DEF GotoWith

LEMMA DoneType ==
  ASSUME NEW c \in Clients, req \in [Clients -> Request], Done(c)
  PROVE  req' \in [Clients -> Request]
<1>1. Idle \in Request
  BY BoundsAssumption DEF Idle, Request, Labels, Unread
<1> QED BY <1>1 DEF Done

LEMMA WithState ==
  ASSUME NEW env \in EnvRecord, NEW state \in EnvState
  PROVE  [env EXCEPT !.state = state] \in EnvRecord
BY DEF EnvRecord

LEMMA WithFresh ==
  ASSUME NEW env \in EnvRecord, NEW fresh \in BOOLEAN
  PROVE  [env EXCEPT !.fresh = fresh] \in EnvRecord
BY DEF EnvRecord

LEMMA DecisionTypes ==
  ASSUME NEW env \in EnvRecord
  PROVE  /\ ApplyStopped(env) \in EnvRecord
         /\ MarkActive(env) \in EnvRecord
         /\ Refreshed(env) \in EnvRecord
         /\ QuotaMarked(env) \in EnvRecord
         /\ Aged(env) \in EnvRecord
BY WithState, WithFresh, NoMetaAssumption
   DEF ApplyStopped, MarkActive, Refreshed, QuotaMarked, Aged, LiveState, EnvState

-----------------------------------------------------------------------------
(* TypeOK.                                                                 *)

LEMMA InitType == Init => TypeOK
<1> SUFFICES ASSUME Init PROVE TypeOK
  OBVIOUS
<1>1. Idle \in Request
  BY BoundsAssumption DEF Idle, Request, Labels, Unread
<1>2. req \in [Clients -> Request]
  BY <1>1 DEF Init
<1>3. dir \in BOOLEAN /\ nested \in BOOLEAN /\ config \in BOOLEAN /\ overQuota \in BOOLEAN
  BY Zenon DEF Init
<1>4. /\ meta \in EnvRecord \cup {NoMeta}
      /\ machine \in {"absent", "starting", "running"}
      /\ qgroups \subseteq SubvolIds
  BY DEF Init
<1>5. rootfs \in 0..MaxSubvols /\ lastId \in 0..MaxSubvols /\ crashes \in 0..MaxCrashes
  BY BoundsAssumption DEF Init
<1> QED BY <1>2, <1>3, <1>4, <1>5 DEF TypeOK, StoreOK

\* A step of a handler keeps the types of everything but the requests.
LEMMA StoreStep ==
  ASSUME TypeOK, NEW c \in Clients, Handler(c)
  PROVE  StoreOK'
<1> USE DEF TypeOK
<1>1. ASSUME CreateCheck(c) PROVE StoreOK'
  BY <1>1 DEF CreateCheck, StoreOK, resources, volumes
<1>2. ASSUME CreateMkdir(c) PROVE StoreOK'
  BY <1>2 DEF CreateMkdir, StoreOK, resources, volumes
<1>3. ASSUME CreateRootfs(c) PROVE StoreOK'
  <2>1. CASE Backend = "Btrfs"
    <3>1. lastId' \in 1..MaxSubvols
      BY <1>3, <2>1, BoundsAssumption DEF CreateRootfs, Snapshot, StoreOK
    <3>2. qgroups' \subseteq SubvolIds
      BY <1>3, <2>1, <3>1 DEF CreateRootfs, Snapshot, StoreOK, SubvolIds
    <3>3. rootfs' \in 0..MaxSubvols
      BY <1>3, <2>1, <3>1 DEF CreateRootfs, Snapshot, StoreOK
    <3>4. nested' \in BOOLEAN /\ overQuota' \in BOOLEAN
      BY <1>3, <2>1 DEF CreateRootfs, Snapshot, StoreOK
    <3>5. UNCHANGED <<dir, meta, config, machine, crashes>>
      BY <1>3, <2>1 DEF CreateRootfs, Snapshot
    <3> QED BY <3>1, <3>2, <3>3, <3>4, <3>5 DEF StoreOK
  <2>2. CASE Backend # "Btrfs"
    BY <1>3, <2>2 DEF CreateRootfs, StoreOK, volumes
  <2> QED BY <2>1, <2>2
<1>4. ASSUME CreateConfig(c) PROVE StoreOK'
  BY <1>4 DEF CreateConfig, StoreOK, resources, volumes
<1>5. ASSUME CreateCommit(c) PROVE StoreOK'
  BY <1>5 DEF CreateCommit, StoreOK, resources, volumes, WriteEnv, EnvRecord, EnvState
<1>6. ASSUME CreateFails(c) PROVE StoreOK'
  BY <1>6 DEF CreateFails, StoreOK, resources, volumes
<1>7. ASSUME CleanRootfs(c) PROVE StoreOK'
  BY <1>7 DEF CleanRootfs, StoreOK, resources, volumes
<1>8. ASSUME CleanSubvol(c) PROVE StoreOK'
  BY <1>8, BoundsAssumption DEF CleanSubvol, StoreOK, resources, volumes, DeleteSubvolume
<1>9. ASSUME CleanQgroup(c) PROVE StoreOK'
  BY <1>9 DEF CleanQgroup, StoreOK, resources, volumes
<1>10. ASSUME CleanContents(c) PROVE StoreOK'
  <2>1. rootfs' \in 0..MaxSubvols
    BY <1>10, BoundsAssumption DEF CleanContents, RemoveContents, StoreOK
  <2>2. nested' \in BOOLEAN
    BY <1>10 DEF CleanContents, RemoveContents, StoreOK
  <2> QED BY <1>10, <2>1, <2>2 DEF CleanContents, RemoveContents, StoreOK
<1>11. ASSUME CleanRmdir(c) PROVE StoreOK'
  BY <1>11 DEF CleanRmdir, StoreOK, resources, volumes, Rmdir
<1>12. ASSUME StartRead(c) PROVE StoreOK'
  BY <1>12 DEF StartRead, StoreOK, resources, volumes, ReadEnv
<1>13. ASSUME StartPrep(c) PROVE StoreOK'
  BY <1>13, BoundsAssumption DEF StartPrep, StoreOK, resources, volumes
<1>14. ASSUME StartStopUnit(c) PROVE StoreOK'
  BY <1>14 DEF StartStopUnit, StoreOK, resources, volumes
<1>15. ASSUME StartRun(c) PROVE StoreOK'
  BY <1>15 DEF StartRun, StoreOK, resources, volumes
<1>16. ASSUME StartWait(c) PROVE StoreOK'
  BY <1>16 DEF StartWait, StoreOK, resources, volumes
<1>17. ASSUME StartFail(c) PROVE StoreOK'
  <2>1. req[c].env \in EnvRecord
    BY <1>17, CopyType, StepLabels DEF StartFail, At
  <2>2. meta' \in EnvRecord
    BY <1>17, <2>1, WithState DEF StartFail, WriteEnv, EnvState
  <2> QED BY <1>17, <2>2 DEF StartFail, WriteEnv, StoreOK, resources
<1>18. ASSUME StopRead(c) PROVE StoreOK'
  BY <1>18 DEF StopRead, StoreOK, resources, volumes, ReadEnv
<1>19. ASSUME StopMachine(c) PROVE StoreOK'
  BY <1>19 DEF StopMachine, StoreOK, resources, volumes
<1>20. ASSUME StopCheck(c) PROVE StoreOK'
  BY <1>20, BoundsAssumption DEF StopCheck, StoreOK, resources, volumes, Unmounted
<1>21. ASSUME DestroyRead(c) PROVE StoreOK'
  BY <1>21 DEF DestroyRead, StoreOK, resources, volumes, ReadEnv
<1>22. ASSUME DestroyMachine(c) PROVE StoreOK'
  BY <1>22 DEF DestroyMachine, StoreOK, resources, volumes
<1>23. ASSUME DestroyRootfs(c) PROVE StoreOK'
  BY <1>23, BoundsAssumption DEF DestroyRootfs, StoreOK, resources, volumes, Unmounted
<1>24. ASSUME DestroySubvol(c) PROVE StoreOK'
  BY <1>24, BoundsAssumption DEF DestroySubvol, StoreOK, resources, volumes, DeleteSubvolume
<1>25. ASSUME DestroyQgroup(c) PROVE StoreOK'
  BY <1>25 DEF DestroyQgroup, StoreOK, resources, volumes
<1>26. ASSUME DestroyConfig(c) PROVE StoreOK'
  BY <1>26 DEF DestroyConfig, StoreOK, resources, volumes
<1>27. ASSUME DestroyContents(c) PROVE StoreOK'
  <2>1. rootfs' \in 0..MaxSubvols
    BY <1>27, BoundsAssumption DEF DestroyContents, RemoveContents, StoreOK
  <2>2. nested' \in BOOLEAN
    BY <1>27 DEF DestroyContents, RemoveContents, StoreOK
  <2> QED BY <1>27, <2>1, <2>2 DEF DestroyContents, RemoveContents, StoreOK
<1>28. ASSUME DestroyRmdir(c) PROVE StoreOK'
  BY <1>28 DEF DestroyRmdir, StoreOK, resources, volumes, Rmdir
<1>29. ASSUME StatusRead(c) PROVE StoreOK'
  BY <1>29 DEF StatusRead, StoreOK, resources, volumes, ReadEnv
<1>30. ASSUME StatusRefresh(c) PROVE StoreOK'
  BY <1>30 DEF StatusRefresh, StoreOK, resources, volumes
<1>31. ASSUME StatusIdle(c) PROVE StoreOK'
  BY <1>31 DEF StatusIdle, StoreOK, resources, volumes
<1>32. ASSUME StatusQuota(c) PROVE StoreOK'
  BY <1>32 DEF StatusQuota, StoreOK, resources, volumes
<1>33. ASSUME ExecRead(c) PROVE StoreOK'
  BY <1>33 DEF ExecRead, StoreOK, resources, volumes, ReadEnv
<1>34. ASSUME ExecLog(c) PROVE StoreOK'
  BY <1>34 DEF ExecLog, StoreOK, resources, volumes
<1>35. ASSUME ExecCmd(c) PROVE StoreOK'
  BY <1>35 DEF ExecCmd, StoreOK, resources, volumes
<1>36. ASSUME TouchRead(c) PROVE StoreOK'
  BY <1>36 DEF TouchRead, StoreOK, resources, volumes, ReadEnv
<1>37. ASSUME TouchMount(c) PROVE StoreOK'
  <2>1. CASE Backend = "Overlay"
    BY <1>37, <2>1, BoundsAssumption DEF TouchMount, StoreOK, volumes
  <2>2. CASE Backend # "Overlay"
    BY <1>37, <2>2 DEF TouchMount, StoreOK, volumes
  <2> QED BY <2>1, <2>2
<1>38. ASSUME WriteBack(c) PROVE StoreOK'
  <2>1. req[c].env \in EnvRecord
    BY <1>38, CopyType, StepLabels DEF WriteBack
  <2> QED BY <1>38, <2>1 DEF WriteBack, WriteEnv, StoreOK, resources
<1>39. ASSUME RequestFails(c) PROVE StoreOK'
  <2>1. dir' \in BOOLEAN
    BY <1>39 DEF RequestFails, StoreOK
  <2>2. rootfs' \in 0..MaxSubvols
    BY <1>39, BoundsAssumption DEF RequestFails, Unmounted, StoreOK
  <2>3. meta' \in EnvRecord \cup {NoMeta}
    BY <1>39 DEF RequestFails, StoreOK
  <2>4. machine' \in {"absent", "starting", "running"}
    BY <1>39 DEF RequestFails, StoreOK
  <2> QED BY <1>39, <2>1, <2>2, <2>3, <2>4 DEF RequestFails, StoreOK, volumes
<1> QED
  BY <1>1, <1>2, <1>3, <1>4, <1>5, <1>6, <1>7, <1>8, <1>9, <1>10,
     <1>11, <1>12, <1>13, <1>14, <1>15, <1>16, <1>17, <1>18, <1>19, <1>20,
     <1>21, <1>22, <1>23, <1>24, <1>25, <1>26, <1>27, <1>28, <1>29, <1>30,
     <1>31, <1>32, <1>33, <1>34, <1>35, <1>36, <1>37, <1>38, <1>39
  DEF Handler, Create, Start, Stop, Destroy, Status, Exec, Touch

LEMMA ZeroId == 0 \in 0..MaxSubvols
BY BoundsAssumption

\* Going on without a copy of the metadata, and with one.
LEMMA GotoUnread ==
  ASSUME NEW c \in Clients, req \in [Clients -> Request],
         NEW label \in Unread, NEW qgroup \in 0..MaxSubvols,
         GotoWith(c, label, NoMeta, qgroup)
  PROVE  req' \in [Clients -> Request]
BY GotoType, UnreadLabels

LEMMA GotoRead ==
  ASSUME NEW c \in Clients, req \in [Clients -> Request],
         NEW label \in Labels \ Unread, NEW env \in EnvRecord, NEW qgroup \in 0..MaxSubvols,
         GotoWith(c, label, env, qgroup)
  PROVE  req' \in [Clients -> Request]
BY GotoType, NoMetaAssumption

\* A step of a handler keeps the types of the requests.
LEMMA RequestStep ==
  ASSUME TypeOK, NEW c \in Clients, Handler(c)
  PROVE  req' \in [Clients -> Request]
<1> USE DEF TypeOK
<1>1. ASSUME CreateCheck(c) PROVE req' \in [Clients -> Request]
  BY <1>1, GotoUnread, ZeroId DEF CreateCheck, Goto, Unread
<1>2. ASSUME CreateMkdir(c) PROVE req' \in [Clients -> Request]
  BY <1>2, GotoUnread, ZeroId DEF CreateMkdir, Goto, Unread
<1>3. ASSUME CreateRootfs(c) PROVE req' \in [Clients -> Request]
  BY <1>3, GotoUnread, ZeroId DEF CreateRootfs, Goto, Unread
<1>4. ASSUME CreateConfig(c) PROVE req' \in [Clients -> Request]
  BY <1>4, GotoUnread, ZeroId DEF CreateConfig, Goto, Unread
<1>5. ASSUME CreateCommit(c) PROVE req' \in [Clients -> Request]
  BY <1>5, DoneType DEF CreateCommit
<1>6. ASSUME CreateFails(c) PROVE req' \in [Clients -> Request]
  BY <1>6, GotoUnread, ZeroId DEF CreateFails, Goto, Unread
<1>7. ASSUME CleanRootfs(c) PROVE req' \in [Clients -> Request]
  BY <1>7, GotoUnread, ZeroId DEF CleanRootfs, Goto, Unread, StoreOK
<1>8. ASSUME CleanSubvol(c) PROVE req' \in [Clients -> Request]
  BY <1>8, GotoUnread, ZeroId DEF CleanSubvol, Goto, Unread, Request
<1>9. ASSUME CleanQgroup(c) PROVE req' \in [Clients -> Request]
  BY <1>9, GotoUnread, ZeroId DEF CleanQgroup, Goto, Unread
<1>10. ASSUME CleanContents(c) PROVE req' \in [Clients -> Request]
  BY <1>10, GotoUnread, ZeroId DEF CleanContents, Goto, Unread
<1>11. ASSUME CleanRmdir(c) PROVE req' \in [Clients -> Request]
  BY <1>11, DoneType DEF CleanRmdir
<1>12. ASSUME StartRead(c) PROVE req' \in [Clients -> Request]
  BY <1>12, GotoRead, ZeroId, StepLabels DEF StartRead, ReadEnv, Goto, StoreOK
<1>13. ASSUME StartPrep(c) PROVE req' \in [Clients -> Request]
  <2>1. req[c].env \in EnvRecord
    BY <1>13, CopyType, StepLabels DEF StartPrep, At, DestroySteps
  <2> QED
    BY <1>13, <2>1, GotoRead, ZeroId, StepLabels, DecisionTypes
    DEF StartPrep, Goto, DestroySteps, WriteSteps
<1>14. ASSUME StartStopUnit(c) PROVE req' \in [Clients -> Request]
  <2>1. req[c].env \in EnvRecord
    BY <1>14, CopyType, StepLabels DEF StartStopUnit, At, DestroySteps
  <2> QED
    BY <1>14, <2>1, GotoRead, ZeroId, StepLabels, DecisionTypes
    DEF StartStopUnit, Goto, DestroySteps, WriteSteps
<1>15. ASSUME StartRun(c) PROVE req' \in [Clients -> Request]
  <2>1. req[c].env \in EnvRecord
    BY <1>15, CopyType, StepLabels DEF StartRun, At, DestroySteps
  <2> QED
    BY <1>15, <2>1, GotoRead, ZeroId, StepLabels, DecisionTypes
    DEF StartRun, Goto, DestroySteps, WriteSteps
<1>16. ASSUME StartWait(c) PROVE req' \in [Clients -> Request]
  <2>1. req[c].env \in EnvRecord
    BY <1>16, CopyType, StepLabels DEF StartWait, At, DestroySteps
  <2> QED
    BY <1>16, <2>1, GotoRead, ZeroId, StepLabels, DecisionTypes, WithState
    DEF StartWait, Goto, DestroySteps, WriteSteps, EnvState
<1>17. ASSUME StartFail(c) PROVE req' \in [Clients -> Request]
  BY <1>17, DoneType DEF StartFail
<1>18. ASSUME StopRead(c) PROVE req' \in [Clients -> Request]
  BY <1>18, GotoRead, ZeroId, StepLabels DEF StopRead, ReadEnv, Goto, StoreOK
<1>19. ASSUME StopMachine(c) PROVE req' \in [Clients -> Request]
  <2>1. req[c].env \in EnvRecord
    BY <1>19, CopyType, StepLabels DEF StopMachine, At, DestroySteps
  <2> QED
    BY <1>19, <2>1, GotoRead, ZeroId, StepLabels, DecisionTypes
    DEF StopMachine, Goto, DestroySteps, WriteSteps
<1>20. ASSUME StopCheck(c) PROVE req' \in [Clients -> Request]
  <2>1. req[c].env \in EnvRecord
    BY <1>20, CopyType, StepLabels DEF StopCheck, At, DestroySteps
  <2> QED
    BY <1>20, <2>1, GotoRead, ZeroId, StepLabels, DecisionTypes
    DEF StopCheck, Goto, DestroySteps, WriteSteps
<1>21. ASSUME DestroyRead(c) PROVE req' \in [Clients -> Request]
  BY <1>21, GotoRead, ZeroId, StepLabels DEF DestroyRead, ReadEnv, Goto, StoreOK
<1>22. ASSUME DestroyMachine(c) PROVE req' \in [Clients -> Request]
  <2>1. req[c].env \in EnvRecord
    BY <1>22, CopyType, StepLabels DEF DestroyMachine, At, DestroySteps
  <2> QED
    BY <1>22, <2>1, GotoRead, ZeroId, StepLabels, DecisionTypes
    DEF DestroyMachine, Goto, DestroySteps, WriteSteps
<1>23. ASSUME DestroyRootfs(c) PROVE req' \in [Clients -> Request]
  <2>1. req[c].env \in EnvRecord
    BY <1>23, CopyType, StepLabels DEF DestroyRootfs, At, DestroySteps
  <2> QED
    BY <1>23, <2>1, GotoRead, ZeroId, StepLabels, DecisionTypes
    DEF DestroyRootfs, Goto, DestroySteps, WriteSteps, StoreOK
<1>24. ASSUME DestroySubvol(c) PROVE req' \in [Clients -> Request]
  <2>1. req[c].env \in EnvRecord
    BY <1>24, CopyType, StepLabels DEF DestroySubvol, At, DestroySteps
  <2> QED
    BY <1>24, <2>1, GotoRead, ZeroId, StepLabels, DecisionTypes
    DEF DestroySubvol, Goto, DestroySteps, WriteSteps, DestroySubvolNext, Request
<1>25. ASSUME DestroyQgroup(c) PROVE req' \in [Clients -> Request]
  <2>1. req[c].env \in EnvRecord
    BY <1>25, CopyType, StepLabels DEF DestroyQgroup, At, DestroySteps
  <2> QED
    BY <1>25, <2>1, GotoRead, ZeroId, StepLabels, DecisionTypes
    DEF DestroyQgroup, Goto, DestroySteps, WriteSteps
<1>26. ASSUME DestroyConfig(c) PROVE req' \in [Clients -> Request]
  <2>1. req[c].env \in EnvRecord
    BY <1>26, CopyType, StepLabels DEF DestroyConfig, At, DestroySteps
  <2> QED
    BY <1>26, <2>1, GotoRead, ZeroId, StepLabels, DecisionTypes
    DEF DestroyConfig, Goto, DestroySteps, WriteSteps
<1>27. ASSUME DestroyContents(c) PROVE req' \in [Clients -> Request]
  <2>1. req[c].env \in EnvRecord
    BY <1>27, CopyType, StepLabels DEF DestroyContents, At, DestroySteps
  <2> QED
    BY <1>27, <2>1, GotoRead, ZeroId, StepLabels, DecisionTypes
    DEF DestroyContents, Goto, DestroySteps, WriteSteps
<1>28. ASSUME DestroyRmdir(c) PROVE req' \in [Clients -> Request]
  BY <1>28, DoneType DEF DestroyRmdir
<1>29. ASSUME StatusRead(c) PROVE req' \in [Clients -> Request]
  BY <1>29, GotoRead, ZeroId, StepLabels DEF StatusRead, ReadEnv, Goto, StoreOK
<1>30. ASSUME StatusRefresh(c) PROVE req' \in [Clients -> Request]
  <2>1. req[c].env \in EnvRecord
    BY <1>30, CopyType, StepLabels DEF StatusRefresh, At, DestroySteps
  <2> QED
    BY <1>30, <2>1, GotoRead, ZeroId, StepLabels, DecisionTypes
    DEF StatusRefresh, Goto, DestroySteps, WriteSteps
<1>31. ASSUME StatusIdle(c) PROVE req' \in [Clients -> Request]
  <2>1. req[c].env \in EnvRecord
    BY <1>31, CopyType, StepLabels DEF StatusIdle, At, DestroySteps
  <2> QED
    BY <1>31, <2>1, GotoRead, ZeroId, StepLabels, DecisionTypes
    DEF StatusIdle, Goto, DestroySteps, WriteSteps
<1>32. ASSUME StatusQuota(c) PROVE req' \in [Clients -> Request]
  <2>1. req[c].env \in EnvRecord
    BY <1>32, CopyType, StepLabels DEF StatusQuota, At, DestroySteps
  <2> QED
    BY <1>32, <2>1, GotoRead, ZeroId, StepLabels, DecisionTypes
    DEF StatusQuota, Goto, DestroySteps, WriteSteps
<1>33. ASSUME ExecRead(c) PROVE req' \in [Clients -> Request]
  BY <1>33, GotoRead, ZeroId, StepLabels DEF ExecRead, ReadEnv, Goto, StoreOK
<1>34. ASSUME ExecLog(c) PROVE req' \in [Clients -> Request]
  <2>1. req[c].env \in EnvRecord
    BY <1>34, CopyType, StepLabels DEF ExecLog, At, DestroySteps
  <2> QED
    BY <1>34, <2>1, GotoRead, ZeroId, StepLabels, DecisionTypes
    DEF ExecLog, Goto, DestroySteps, WriteSteps
<1>35. ASSUME ExecCmd(c) PROVE req' \in [Clients -> Request]
  <2>1. req[c].env \in EnvRecord
    BY <1>35, CopyType, StepLabels DEF ExecCmd, At, DestroySteps
  <2> QED
    BY <1>35, <2>1, GotoRead, ZeroId, StepLabels, DecisionTypes
    DEF ExecCmd, Goto, DestroySteps, WriteSteps
<1>36. ASSUME TouchRead(c) PROVE req' \in [Clients -> Request]
  BY <1>36, GotoRead, ZeroId, StepLabels DEF TouchRead, ReadEnv, Goto, StoreOK
<1>37. ASSUME TouchMount(c) PROVE req' \in [Clients -> Request]
  <2>1. req[c].env \in EnvRecord
    BY <1>37, CopyType, StepLabels DEF TouchMount, At, DestroySteps
  <2> QED
    BY <1>37, <2>1, GotoRead, ZeroId, StepLabels, DecisionTypes
    DEF TouchMount, Goto, DestroySteps, WriteSteps
<1>38. ASSUME WriteBack(c) PROVE req' \in [Clients -> Request]
  BY <1>38, DoneType DEF WriteBack
<1>39. ASSUME RequestFails(c) PROVE req' \in [Clients -> Request]
  BY <1>39, DoneType DEF RequestFails
<1> QED
  BY <1>1, <1>2, <1>3, <1>4, <1>5, <1>6, <1>7, <1>8, <1>9, <1>10,
     <1>11, <1>12, <1>13, <1>14, <1>15, <1>16, <1>17, <1>18, <1>19, <1>20,
     <1>21, <1>22, <1>23, <1>24, <1>25, <1>26, <1>27, <1>28, <1>29, <1>30,
     <1>31, <1>32, <1>33, <1>34, <1>35, <1>36, <1>37, <1>38, <1>39
  DEF Handler, Create, Start, Stop, Destroy, Status, Exec, Touch

LEMMA EnvironmentStep == ASSUME TypeOK, Environment PROVE TypeOK'
<1> USE DEF TypeOK
<1>1. CASE MachineBoots
  BY <1>1 DEF MachineBoots, StoreOK, volumes
<1>2. CASE MachineExits
  BY <1>2 DEF MachineExits, StoreOK, volumes
<1>3. CASE DiskUseChanges
  BY <1>3 DEF DiskUseChanges, StoreOK, volumes
<1>4. CASE TimePasses
  <2>1. meta' \in EnvRecord \cup {NoMeta}
    BY <1>4, DecisionTypes DEF TimePasses, StoreOK, Aged
  <2>2. ASSUME NEW c \in Clients
        PROVE  [req[c] EXCEPT !.env = Aged(@)] \in Request
    <3>1. Aged(req[c].env) \in EnvRecord \cup {NoMeta}
      BY DecisionTypes DEF Request, Aged
    <3>2. Aged(req[c].env) = NoMeta <=> req[c].env = NoMeta
      BY DecisionTypes, NoMetaAssumption DEF Request, Aged
    <3> QED BY <3>1, <3>2 DEF Request
  <2> QED BY <1>4, <2>1, <2>2 DEF TimePasses, StoreOK, resources
<1>5. CASE Crash
  <2>1. rootfs' \in 0..MaxSubvols
    BY <1>5, BoundsAssumption DEF Crash, Unmounted, StoreOK
  <2>2. crashes' \in 0..MaxCrashes
    BY <1>5, BoundsAssumption DEF Crash, StoreOK
  <2>3. Idle \in Request
    BY BoundsAssumption DEF Idle, Request, Labels, Unread
  <2>4. machine' \in {"absent", "starting", "running"}
    BY <1>5 DEF Crash, StoreOK
  <2> QED BY <1>5, <2>1, <2>2, <2>3, <2>4 DEF Crash, StoreOK, volumes
<1> QED BY <1>1, <1>2, <1>3, <1>4, <1>5 DEF Environment

LEMMA TypeStep == TypeOK /\ [Next]_vars => TypeOK'
<1> SUFFICES ASSUME TypeOK, [Next]_vars PROVE TypeOK'
  OBVIOUS
<1>1. ASSUME NEW c \in Clients, Handler(c) PROVE TypeOK'
  BY <1>1, StoreStep, RequestStep DEF TypeOK
<1>2. CASE Environment
  BY <1>2, EnvironmentStep
<1>3. CASE UNCHANGED vars
  BY <1>3 DEF vars, TypeOK, StoreOK
<1> QED BY <1>1, <1>2, <1>3 DEF Next

\* The state of an env and of the requests for it is well formed, whatever
\* the interleaving: a handler never writes back metadata it has not read.
THEOREM TypeCorrect == Spec => []TypeOK
<1>1. Init => TypeOK
  BY InitType
<1>2. TypeOK /\ [Next]_vars => TypeOK'
  BY TypeStep
<1> QED BY <1>1, <1>2, PTL DEF Spec

-----------------------------------------------------------------------------
(* The subvolume in place keeps its qgroup.  The invariant needs to know   *)
(* that the ids requests hold are ids given out, so that the next snapshot *)
(* gets another one, and that the qgroup a destroy holds after deleting    *)
(* its subvolume is not the qgroup of the one in place now.                *)

IdsGivenOut == rootfs <= lastId /\ \A c \in Clients : req[c].qgroup <= lastId

HeldQgroupIsDead ==
  \A c \in Clients : At(c, "destroyQgroup") => req[c].qgroup # 0 /\ req[c].qgroup # rootfs

SubvolInv == IdsGivenOut /\ HeldQgroupIsDead /\ (rootfs # 0 => rootfs \in qgroups)

\* A step that leaves the subvolumes alone and does not go to destroyQgroup.
LEMMA QuietStep ==
  ASSUME TypeOK, SubvolInv, NEW c \in Clients, UNCHANGED <<rootfs, lastId, qgroups>>,
         \/ \E label, env : label # "destroyQgroup" /\ Goto(c, label, env)
         \/ Done(c)
  PROVE  SubvolInv'
<1>1. /\ req'[c].pc # "destroyQgroup" /\ req'[c].qgroup = 0
      /\ \A d \in Clients \ {c} : req'[d] = req[d]
  BY DEF Goto, GotoWith, Done, Idle, TypeOK
<1>2. lastId \in Nat
  BY DEF TypeOK, StoreOK
<1> QED BY <1>1, <1>2 DEF SubvolInv, IdsGivenOut, HeldQgroupIsDead, At

LEMMA GotoIds ==
  ASSUME TypeOK, SubvolInv, NEW c \in Clients, NEW label, NEW env, NEW id \in 0..lastId,
         lastId' >= lastId, lastId' \in Nat, GotoWith(c, label, env, id)
  PROVE  \A d \in Clients : req'[d].qgroup <= lastId'
<1>1. \A d \in Clients : req[d].qgroup \in Nat /\ req[d].qgroup <= lastId /\ lastId \in Nat
  BY DEF TypeOK, StoreOK, Request, SubvolInv, IdsGivenOut
<1> QED BY <1>1 DEF GotoWith, TypeOK

\* A step that at most deletes the subvolume and goes on with the id it holds.
LEMMA DeleteStep ==
  ASSUME TypeOK, SubvolInv, NEW c \in Clients, NEW label, NEW env, NEW id \in 0..lastId,
         GotoWith(c, label, env, id), UNCHANGED lastId,
         rootfs' \in {0, rootfs}, rootfs' # 0 => rootfs' \in qgroups',
         label = "destroyQgroup" => id # 0 /\ id # rootfs'
  PROVE  SubvolInv'
<1>1. lastId \in Nat /\ rootfs \in Nat
  BY DEF TypeOK, StoreOK
<1>2. IdsGivenOut'
  BY <1>1, GotoIds DEF SubvolInv, IdsGivenOut
<1>3. HeldQgroupIsDead'
  BY <1>1 DEF SubvolInv, HeldQgroupIsDead, At, GotoWith, TypeOK
<1> QED BY <1>2, <1>3 DEF SubvolInv

LEMMA HeldId ==
  ASSUME TypeOK, SubvolInv, NEW c \in Clients
  PROVE  req[c].qgroup \in 0..lastId /\ rootfs \in 0..lastId /\ 0 \in 0..lastId
BY DEF TypeOK, StoreOK, Request, SubvolInv, IdsGivenOut

LEMMA SubvolStep ==
  ASSUME TypeOK, SubvolInv, Backend = "Btrfs", NEW c \in Clients, Handler(c)
  PROVE  SubvolInv'
<1> USE DEF TypeOK, SubvolInv
<1>1. ASSUME CreateCheck(c) PROVE SubvolInv'
  BY <1>1, QuietStep DEF CreateCheck, resources, volumes
<1>2. ASSUME CreateMkdir(c) PROVE SubvolInv'
  BY <1>2, QuietStep DEF CreateMkdir, resources, volumes
<1>3. ASSUME CreateRootfs(c) PROVE SubvolInv'
  <2>1. lastId' = lastId + 1 /\ lastId \in Nat
    BY <1>3 DEF CreateRootfs, Snapshot, StoreOK
  <2>2. /\ rootfs' \in {rootfs, lastId'} /\ rootfs' # 0
        /\ qgroups' = qgroups \cup {lastId'}
    BY <1>3, <2>1 DEF CreateRootfs, Snapshot
  <2>3. Goto(c, "createConfig", NoMeta)
    BY <1>3 DEF CreateRootfs
  <2>4. \A d \in Clients : req'[d].qgroup <= lastId'
    BY <2>1, <2>3, GotoIds DEF Goto
  <2>5. rootfs' <= lastId'
    BY <2>1, <2>2 DEF IdsGivenOut, StoreOK
  <2>6. HeldQgroupIsDead'
    BY <2>1, <2>2, <2>3 DEF HeldQgroupIsDead, IdsGivenOut, Goto, GotoWith, At, Request, StoreOK
  <2>7. rootfs' \in qgroups'
    BY <2>2
  <2> QED BY <2>4, <2>5, <2>6, <2>7 DEF IdsGivenOut
<1>4. ASSUME CreateConfig(c) PROVE SubvolInv'
  BY <1>4, QuietStep DEF CreateConfig, resources, volumes
<1>5. ASSUME CreateCommit(c) PROVE SubvolInv'
  BY <1>5, QuietStep DEF CreateCommit, resources, volumes, WriteEnv, EnvRecord, EnvState
<1>6. ASSUME CreateFails(c) PROVE SubvolInv'
  BY <1>6, QuietStep DEF CreateFails, resources, volumes
<1>7. ASSUME CleanRootfs(c) PROVE SubvolInv'
  BY <1>7, DeleteStep, HeldId DEF CleanRootfs, resources, volumes
<1>8. ASSUME CleanSubvol(c) PROVE SubvolInv'
  BY <1>8, DeleteStep, HeldId DEF CleanSubvol, resources, volumes, DeleteSubvolume
<1>9. ASSUME CleanQgroup(c) PROVE SubvolInv'
  BY <1>9, DeleteStep, HeldId DEF CleanQgroup, resources, volumes, Goto
<1>10. ASSUME CleanContents(c) PROVE SubvolInv'
  BY <1>10, DeleteStep, HeldId DEF CleanContents, resources, volumes, RemoveContents, Goto
<1>11. ASSUME CleanRmdir(c) PROVE SubvolInv'
  BY <1>11, QuietStep DEF CleanRmdir, resources, volumes, Rmdir
<1>12. ASSUME StartRead(c) PROVE SubvolInv'
  BY <1>12, QuietStep DEF StartRead, resources, volumes, ReadEnv
<1>13. ASSUME StartPrep(c) PROVE SubvolInv'
  BY <1>13, QuietStep DEF StartPrep, resources, volumes
<1>14. ASSUME StartStopUnit(c) PROVE SubvolInv'
  BY <1>14, QuietStep DEF StartStopUnit, resources, volumes
<1>15. ASSUME StartRun(c) PROVE SubvolInv'
  BY <1>15, QuietStep DEF StartRun, resources, volumes
<1>16. ASSUME StartWait(c) PROVE SubvolInv'
  BY <1>16, QuietStep DEF StartWait, resources, volumes
<1>17. ASSUME StartFail(c) PROVE SubvolInv'
  BY <1>17, QuietStep DEF StartFail, resources, volumes, WriteEnv
<1>18. ASSUME StopRead(c) PROVE SubvolInv'
  BY <1>18, QuietStep DEF StopRead, resources, volumes, ReadEnv
<1>19. ASSUME StopMachine(c) PROVE SubvolInv'
  BY <1>19, QuietStep DEF StopMachine, resources, volumes
<1>20. ASSUME StopCheck(c) PROVE SubvolInv'
  BY <1>20, QuietStep DEF StopCheck, resources, volumes, Unmounted
<1>21. ASSUME DestroyRead(c) PROVE SubvolInv'
  BY <1>21, QuietStep DEF DestroyRead, resources, volumes, ReadEnv
<1>22. ASSUME DestroyMachine(c) PROVE SubvolInv'
  BY <1>22, QuietStep DEF DestroyMachine, resources, volumes
<1>23. ASSUME DestroyRootfs(c) PROVE SubvolInv'
  BY <1>23, DeleteStep, HeldId DEF DestroyRootfs, resources, volumes, Unmounted
<1>24. ASSUME DestroySubvol(c) PROVE SubvolInv'
  <2>1. rootfs' = 0 /\ UNCHANGED <<lastId, qgroups>>
    BY <1>24 DEF DestroySubvol, DeleteSubvolume, volumes
  <2>2. CASE req[c].qgroup = 0
    BY <1>24, <2>1, <2>2, DeleteStep, HeldId DEF DestroySubvol, DestroySubvolNext, Goto
  <2>3. CASE req[c].qgroup # 0
    BY <1>24, <2>1, <2>3, DeleteStep, HeldId DEF DestroySubvol, DestroySubvolNext
  <2> QED BY <2>2, <2>3
<1>25. ASSUME DestroyQgroup(c) PROVE SubvolInv'
  <2>1. rootfs # 0 => rootfs \in qgroups'
    BY <1>25 DEF DestroyQgroup, HeldQgroupIsDead
  <2> QED BY <1>25, <2>1, DeleteStep, HeldId DEF DestroyQgroup, Goto
<1>26. ASSUME DestroyConfig(c) PROVE SubvolInv'
  BY <1>26, QuietStep DEF DestroyConfig, resources, volumes
<1>27. ASSUME DestroyContents(c) PROVE SubvolInv'
  BY <1>27, DeleteStep, HeldId DEF DestroyContents, resources, volumes, RemoveContents, Goto
<1>28. ASSUME DestroyRmdir(c) PROVE SubvolInv'
  BY <1>28, QuietStep DEF DestroyRmdir, resources, volumes, Rmdir
<1>29. ASSUME StatusRead(c) PROVE SubvolInv'
  BY <1>29, QuietStep DEF StatusRead, resources, volumes, ReadEnv
<1>30. ASSUME StatusRefresh(c) PROVE SubvolInv'
  BY <1>30, QuietStep DEF StatusRefresh, resources, volumes
<1>31. ASSUME StatusIdle(c) PROVE SubvolInv'
  BY <1>31, QuietStep DEF StatusIdle, resources, volumes
<1>32. ASSUME StatusQuota(c) PROVE SubvolInv'
  BY <1>32, QuietStep DEF StatusQuota, resources, volumes
<1>33. ASSUME ExecRead(c) PROVE SubvolInv'
  BY <1>33, QuietStep DEF ExecRead, resources, volumes, ReadEnv
<1>34. ASSUME ExecLog(c) PROVE SubvolInv'
  BY <1>34, QuietStep DEF ExecLog, resources, volumes
<1>35. ASSUME ExecCmd(c) PROVE SubvolInv'
  BY <1>35, QuietStep DEF ExecCmd, resources, volumes
<1>36. ASSUME TouchRead(c) PROVE SubvolInv'
  BY <1>36, QuietStep DEF TouchRead, resources, volumes, ReadEnv
<1>37. ASSUME TouchMount(c) PROVE SubvolInv'
  BY <1>37, QuietStep DEF TouchMount, resources, volumes
<1>38. ASSUME WriteBack(c) PROVE SubvolInv'
  BY <1>38, QuietStep DEF WriteBack, resources, volumes, WriteEnv
<1>39. ASSUME RequestFails(c) PROVE SubvolInv'
  BY <1>39, QuietStep DEF RequestFails, resources, volumes, Unmounted
<1> QED
  BY <1>1, <1>2, <1>3, <1>4, <1>5, <1>6, <1>7, <1>8, <1>9, <1>10,
     <1>11, <1>12, <1>13, <1>14, <1>15, <1>16, <1>17, <1>18, <1>19, <1>20,
     <1>21, <1>22, <1>23, <1>24, <1>25, <1>26, <1>27, <1>28, <1>29, <1>30,
     <1>31, <1>32, <1>33, <1>34, <1>35, <1>36, <1>37, <1>38, <1>39
  DEF Handler, Create, Start, Stop, Destroy, Status, Exec, Touch

LEMMA SubvolEnvironment ==
  ASSUME TypeOK, SubvolInv, Backend = "Btrfs", Environment
  PROVE  SubvolInv'
<1>1. UNCHANGED <<rootfs, lastId, qgroups>>
  BY DEF Environment, MachineBoots, MachineExits, DiskUseChanges, TimePasses, Crash,
         Unmounted, resources, volumes
<1>2. \/ UNCHANGED req
      \/ \A c \in Clients : req'[c] = [req[c] EXCEPT !.env = Aged(@)]
      \/ \A c \in Clients : req'[c] = Idle
  BY DEF Environment, MachineBoots, MachineExits, DiskUseChanges, TimePasses, Crash
<1>3. \A c \in Clients :
        \/ req'[c].pc = "idle" /\ req'[c].qgroup = 0
        \/ req'[c].pc = req[c].pc /\ req'[c].qgroup = req[c].qgroup
  <2> SUFFICES ASSUME NEW c \in Clients
               PROVE  \/ req'[c].pc = "idle" /\ req'[c].qgroup = 0
                      \/ req'[c].pc = req[c].pc /\ req'[c].qgroup = req[c].qgroup
    OBVIOUS
  <2>1. req[c] \in [pc : Labels, env : EnvRecord \cup {NoMeta}, qgroup : 0..MaxSubvols]
    BY DEF TypeOK, Request
  <2>2. CASE UNCHANGED req
    BY <2>2
  <2>3. CASE req'[c] = [req[c] EXCEPT !.env = Aged(@)]
    BY <2>1, <2>3
  <2>4. CASE req'[c] = Idle
    BY <2>4 DEF Idle
  <2> QED BY <1>2, <2>2, <2>3, <2>4
<1>4. 0 <= lastId
  BY DEF TypeOK, StoreOK
<1> QED BY <1>1, <1>3, <1>4 DEF SubvolInv, IdsGivenOut, HeldQgroupIsDead, At

\* Whatever the interleaving of creates, destroys and their retries, no
\* env_destroy or cleanup takes the qgroup, and with it the disk limit, of
\* the subvolume that is in place.
THEOREM LiveSubvolumeKeepsQgroup == Spec => []LiveSubvolumeHasQgroup
<1> DEFINE IInv == TypeOK /\ (Backend = "Btrfs" => SubvolInv)
<1>1. Init => IInv
  <2> SUFFICES ASSUME Init PROVE SubvolInv
    BY InitType
  <2>1. \A c \in Clients : req[c].pc = "idle" /\ req[c].qgroup = 0
    BY DEF Init, Idle
  <2> QED BY <2>1 DEF Init, SubvolInv, IdsGivenOut, HeldQgroupIsDead, At
<1>2. IInv /\ [Next]_vars => IInv'
  <2> SUFFICES ASSUME TypeOK, SubvolInv, Backend = "Btrfs", [Next]_vars PROVE SubvolInv'
    BY TypeStep
  <2>1. ASSUME NEW c \in Clients, Handler(c) PROVE SubvolInv'
    BY <2>1, SubvolStep
  <2>2. CASE Environment
    BY <2>2, SubvolEnvironment
  <2>3. CASE UNCHANGED vars
    BY <2>3 DEF vars, SubvolInv, IdsGivenOut, HeldQgroupIsDead, At
  <2> QED BY <2>1, <2>2, <2>3 DEF Next
<1>3. IInv => LiveSubvolumeHasQgroup
  BY DEF SubvolInv, LiveSubvolumeHasQgroup
<1> QED BY <1>1, <1>2, <1>3, PTL DEF Spec

-----------------------------------------------------------------------------
(* One request at a time.  What is left behind depends on how far a        *)
(* request got, so the invariant says for each step what is known there;   *)
(* a restart may end the request at any of them.                           *)

\* No other request is in flight: there is at most one client.
OneClient == \A c, d \in Clients : c = d

\* Steps at which the .nspawn file is not there (any more, or yet).
BeforeConfig == {"createMkdir", "createRootfs", "createConfig", "cleanRootfs", "cleanSubvol",
                 "cleanQgroup", "cleanContents", "cleanRmdir", "destroyContents", "destroyRmdir"}

KnownAt(label) ==
  /\ label \in Unread \ {"idle"} => meta = NoMeta
  /\ label \notin Unread \cup {"destroyRmdir"} => meta # NoMeta
  /\ label \in DestroySteps => machine = "absent"
  /\ label \in BeforeConfig => ~config

KnownAlways ==
  /\ ~dir => meta = NoMeta /\ rootfs = 0 /\ ~config
  /\ machine # "absent" => meta # NoMeta

SerialInv == KnownAlways /\ \A c \in Clients : KnownAt(req[c].pc)

LEMMA AfterGoto ==
  ASSUME OneClient, TypeOK, NEW c \in Clients, NEW label, NEW env, NEW id,
         GotoWith(c, label, env, id), KnownAlways', KnownAt(label)'
  PROVE  SerialInv'
<1>1. \A d \in Clients : req'[d].pc = label
  BY DEF OneClient, GotoWith, TypeOK
<1> QED BY <1>1 DEF SerialInv, KnownAt

LEMMA AfterDone ==
  ASSUME OneClient, TypeOK, NEW c \in Clients, Done(c), KnownAlways'
  PROVE  SerialInv'
<1>1. \A d \in Clients : req'[d].pc = "idle"
  BY DEF OneClient, Done, Idle, TypeOK
<1>2. KnownAt("idle")'
  BY DEF KnownAt, Unread, DestroySteps, BeforeConfig
<1> QED BY <1>1, <1>2 DEF SerialInv, KnownAt

LEMMA SerialStep ==
  ASSUME OneClient, TypeOK, SerialInv, NEW c \in Clients, Handler(c)
  PROVE  SerialInv'
<1>0. KnownAlways /\ KnownAt(req[c].pc)
  BY DEF SerialInv
<1> USE <1>0 DEF KnownAlways, KnownAt, At, Unread, DestroySteps, BeforeConfig
<1>1. ASSUME CreateCheck(c) PROVE SerialInv'
  BY <1>1, AfterGoto DEF CreateCheck, Goto, resources, volumes
<1>2. ASSUME CreateMkdir(c) PROVE SerialInv'
  BY <1>2, AfterGoto DEF CreateMkdir, Goto, resources, volumes
<1>3. ASSUME CreateRootfs(c) PROVE SerialInv'
  BY <1>3, AfterGoto DEF CreateRootfs, Goto, resources, volumes, Snapshot
<1>4. ASSUME CreateConfig(c) PROVE SerialInv'
  BY <1>4, AfterGoto DEF CreateConfig, Goto, resources, volumes
<1>5. ASSUME CreateCommit(c) PROVE SerialInv'
  BY <1>5, AfterDone DEF CreateCommit, resources, volumes, WriteEnv
<1>6. ASSUME CreateFails(c) PROVE SerialInv'
  <2>1. CASE At(c, "createRootfs")
    BY <1>6, <2>1, AfterGoto DEF CreateFails, Goto
  <2>2. CASE At(c, "createConfig")
    <3>1. Goto(c, "cleanRootfs", NoMeta) /\ UNCHANGED <<meta, rootfs, config, machine>>
      BY <1>6, <2>2 DEF CreateFails
    <3>2. ~dir' => ~dir
      BY <1>6, <2>2 DEF CreateFails
    <3> QED BY <2>2, <3>1, <3>2, AfterGoto DEF Goto
  <2>3. CASE At(c, "createCommit")
    BY <1>6, <2>3, AfterGoto DEF CreateFails, Goto
  <2> QED BY <1>6, <2>1, <2>2, <2>3 DEF CreateFails
<1>7. ASSUME CleanRootfs(c) PROVE SerialInv'
  BY <1>7, AfterGoto DEF CleanRootfs, Goto, resources, volumes
<1>8. ASSUME CleanSubvol(c) PROVE SerialInv'
  BY <1>8, AfterGoto DEF CleanSubvol, Goto, resources, volumes, DeleteSubvolume
<1>9. ASSUME CleanQgroup(c) PROVE SerialInv'
  BY <1>9, AfterGoto DEF CleanQgroup, Goto, resources, volumes
<1>10. ASSUME CleanContents(c) PROVE SerialInv'
  BY <1>10, AfterGoto DEF CleanContents, Goto, resources, volumes, RemoveContents
<1>11. ASSUME CleanRmdir(c) PROVE SerialInv'
  BY <1>11, AfterDone DEF CleanRmdir, resources, volumes, Rmdir
<1>12. ASSUME StartRead(c) PROVE SerialInv'
  BY <1>12, AfterGoto DEF StartRead, Goto, resources, volumes, ReadEnv
<1>13. ASSUME StartPrep(c) PROVE SerialInv'
  BY <1>13, AfterGoto DEF StartPrep, Goto, resources, volumes
<1>14. ASSUME StartStopUnit(c) PROVE SerialInv'
  BY <1>14, AfterGoto DEF StartStopUnit, Goto, resources, volumes
<1>15. ASSUME StartRun(c) PROVE SerialInv'
  BY <1>15, AfterGoto DEF StartRun, Goto, resources, volumes
<1>16. ASSUME StartWait(c) PROVE SerialInv'
  BY <1>16, AfterGoto DEF StartWait, Goto, resources, volumes
<1>17. ASSUME StartFail(c) PROVE SerialInv'
  <2>1. req[c].env \in EnvRecord
    BY <1>17, CopyType, StepLabels DEF StartFail, TypeOK
  <2>2. meta' \in EnvRecord
    BY <1>17, <2>1, WithState DEF StartFail, WriteEnv, EnvState
  <2> QED BY <1>17, <2>2, AfterDone, NoMetaAssumption DEF StartFail, WriteEnv, resources
<1>18. ASSUME StopRead(c) PROVE SerialInv'
  BY <1>18, AfterGoto DEF StopRead, Goto, resources, volumes, ReadEnv
<1>19. ASSUME StopMachine(c) PROVE SerialInv'
  BY <1>19, AfterGoto DEF StopMachine, Goto, resources, volumes
<1>20. ASSUME StopCheck(c) PROVE SerialInv'
  BY <1>20, AfterGoto DEF StopCheck, Goto, resources, volumes, Unmounted
<1>21. ASSUME DestroyRead(c) PROVE SerialInv'
  BY <1>21, AfterGoto DEF DestroyRead, Goto, resources, volumes, ReadEnv
<1>22. ASSUME DestroyMachine(c) PROVE SerialInv'
  BY <1>22, AfterGoto DEF DestroyMachine, Goto, resources, volumes
<1>23. ASSUME DestroyRootfs(c) PROVE SerialInv'
  BY <1>23, AfterGoto DEF DestroyRootfs, Goto, resources, volumes, Unmounted
<1>24. ASSUME DestroySubvol(c) PROVE SerialInv'
  <2>1. \E label, id : /\ label \in {"destroyConfig", "destroyQgroup"}
                        /\ GotoWith(c, label, req[c].env, id)
    BY <1>24 DEF DestroySubvol, DestroySubvolNext, Goto
  <2>2. rootfs' = 0 /\ UNCHANGED <<dir, meta, config, machine>>
    BY <1>24 DEF DestroySubvol, DeleteSubvolume
  <2>3. meta # NoMeta /\ machine = "absent"
    BY <1>24 DEF DestroySubvol
  <2> QED BY <2>1, <2>2, <2>3, AfterGoto
<1>25. ASSUME DestroyQgroup(c) PROVE SerialInv'
  BY <1>25, AfterGoto DEF DestroyQgroup, Goto, resources, volumes
<1>26. ASSUME DestroyConfig(c) PROVE SerialInv'
  BY <1>26, AfterGoto DEF DestroyConfig, Goto, resources, volumes
<1>27. ASSUME DestroyContents(c) PROVE SerialInv'
  BY <1>27, AfterGoto DEF DestroyContents, Goto, resources, volumes, RemoveContents
<1>28. ASSUME DestroyRmdir(c) PROVE SerialInv'
  BY <1>28, AfterDone DEF DestroyRmdir, resources, volumes, Rmdir
<1>29. ASSUME StatusRead(c) PROVE SerialInv'
  BY <1>29, AfterGoto DEF StatusRead, Goto, resources, volumes, ReadEnv
<1>30. ASSUME StatusRefresh(c) PROVE SerialInv'
  BY <1>30, AfterGoto DEF StatusRefresh, Goto, resources, volumes
<1>31. ASSUME StatusIdle(c) PROVE SerialInv'
  BY <1>31, AfterGoto DEF StatusIdle, Goto, resources, volumes
<1>32. ASSUME StatusQuota(c) PROVE SerialInv'
  BY <1>32, AfterGoto DEF StatusQuota, Goto, resources, volumes
<1>33. ASSUME ExecRead(c) PROVE SerialInv'
  BY <1>33, AfterGoto DEF ExecRead, Goto, resources, volumes, ReadEnv
<1>34. ASSUME ExecLog(c) PROVE SerialInv'
  BY <1>34, AfterGoto DEF ExecLog, Goto, resources, volumes
<1>35. ASSUME ExecCmd(c) PROVE SerialInv'
  BY <1>35, AfterGoto DEF ExecCmd, Goto, resources, volumes
<1>36. ASSUME TouchRead(c) PROVE SerialInv'
  BY <1>36, AfterGoto DEF TouchRead, Goto, resources, volumes, ReadEnv
<1>37. ASSUME TouchMount(c) PROVE SerialInv'
  BY <1>37, AfterGoto DEF TouchMount, Goto, resources, volumes
<1>38. ASSUME WriteBack(c) PROVE SerialInv'
  <2>1. req[c].env \in EnvRecord
    BY <1>38, CopyType, StepLabels DEF WriteBack, TypeOK
  <2> QED BY <1>38, <2>1, AfterDone, NoMetaAssumption DEF WriteBack, WriteEnv, resources
<1>39. ASSUME RequestFails(c) PROVE SerialInv'
  BY <1>39, AfterDone DEF RequestFails, resources, volumes, Unmounted
<1> QED
  BY <1>1, <1>2, <1>3, <1>4, <1>5, <1>6, <1>7, <1>8, <1>9, <1>10,
     <1>11, <1>12, <1>13, <1>14, <1>15, <1>16, <1>17, <1>18, <1>19, <1>20,
     <1>21, <1>22, <1>23, <1>24, <1>25, <1>26, <1>27, <1>28, <1>29, <1>30,
     <1>31, <1>32, <1>33, <1>34, <1>35, <1>36, <1>37, <1>38, <1>39
  DEF Handler, Create, Start, Stop, Destroy, Status, Exec, Touch

LEMMA SerialEnvironment ==
  ASSUME OneClient, TypeOK, SerialInv, Environment
  PROVE  SerialInv'
<1> USE DEF SerialInv, KnownAlways, KnownAt
<1>1. CASE MachineBoots
  BY <1>1 DEF MachineBoots
<1>2. CASE MachineExits
  BY <1>2 DEF MachineExits
<1>3. CASE DiskUseChanges
  BY <1>3 DEF DiskUseChanges
<1>4. CASE TimePasses
  <2>1. meta' = NoMeta <=> meta = NoMeta
    BY <1>4, DecisionTypes, NoMetaAssumption DEF TimePasses, Aged, TypeOK, StoreOK
  <2>2. \A c \in Clients : req'[c].pc = req[c].pc
    <3> SUFFICES ASSUME NEW c \in Clients PROVE req'[c].pc = req[c].pc
      OBVIOUS
    <3>1. req[c] \in [pc : Labels, env : EnvRecord \cup {NoMeta}, qgroup : 0..MaxSubvols]
      BY DEF TypeOK, Request
    <3> QED BY <1>4, <3>1 DEF TimePasses
  <2> QED BY <1>4, <2>1, <2>2 DEF TimePasses, resources
<1>5. CASE Crash
  <2>1. \A c \in Clients : req'[c].pc = "idle"
    BY <1>5 DEF Crash, Idle
  <2>2. rootfs' \in {0, rootfs}
    BY <1>5 DEF Crash, Unmounted
  <2>3. machine' \in {"absent", machine} /\ UNCHANGED <<dir, meta, config>>
    BY <1>5 DEF Crash
  <2> QED BY <2>1, <2>2, <2>3 DEF Unread, DestroySteps, BeforeConfig
<1> QED BY <1>1, <1>2, <1>3, <1>4, <1>5 DEF Environment

LEMMA SerialInvariance == ASSUME OneClient PROVE Spec => [](TypeOK /\ SerialInv)
<1>1. Init => TypeOK /\ SerialInv
  <2> SUFFICES ASSUME Init PROVE SerialInv
    BY InitType
  <2>1. \A c \in Clients : req[c].pc = "idle"
    BY DEF Init, Idle
  <2> QED BY <2>1 DEF Init, SerialInv, KnownAlways, KnownAt, Unread, DestroySteps, BeforeConfig
<1>2. (TypeOK /\ SerialInv) /\ [Next]_vars => (TypeOK /\ SerialInv)'
  <2> SUFFICES ASSUME TypeOK, SerialInv, [Next]_vars PROVE SerialInv'
    BY TypeStep
  <2>1. ASSUME NEW c \in Clients, Handler(c) PROVE SerialInv'
    BY <2>1, SerialStep
  <2>2. CASE Environment
    BY <2>2, SerialEnvironment
  <2>3. CASE UNCHANGED vars
    BY <2>3 DEF vars, SerialInv, KnownAlways, KnownAt
  <2> QED BY <2>1, <2>2, <2>3 DEF Next
<1> QED BY <1>1, <1>2, PTL DEF Spec

\* One request at a time, any number of restarts: between requests a machine
\* is never without the meta.json that env_stop and env_destroy start from.
THEOREM SerialMachineHasRecord == ASSUME OneClient PROVE Spec => []MachineHasRecord
<1>1. TypeOK /\ SerialInv => MachineHasRecord
  BY DEF SerialInv, KnownAlways, MachineHasRecord
<1> QED BY <1>1, SerialInvariance, PTL

\* One request at a time, any number of restarts: an env whose directory is
\* gone has left no machine, no subvolume or mount and no .nspawn file.
THEOREM SerialDestroyedLeavesNothing == ASSUME OneClient PROVE Spec => []DestroyedLeavesNothing
<1>1. TypeOK /\ SerialInv => DestroyedLeavesNothing
  BY DEF SerialInv, KnownAlways, DestroyedLeavesNothing
<1> QED BY <1>1, SerialInvariance, PTL

-----------------------------------------------------------------------------
(* One request at a time: what a request has read stays true of the record *)
(* until it writes, as far as the terminal states go.                      *)

Recorded(m, state) == m # NoMeta /\ m.state = state

CopyKnows(m, label, copy) ==
  /\ \A state \in Terminal :
       Recorded(m, state) /\ label \notin Unread \cup {"startWrite"} => copy.state = state
  /\ label \in {"execLog", "execCmd"} => Recorded(m, "Running")

CopyInv == \A c \in Clients : CopyKnows(meta, req[c].pc, req[c].env)

LEMMA CopyAfterGoto ==
  ASSUME OneClient, TypeOK, NEW c \in Clients, NEW label, NEW env, NEW id,
         GotoWith(c, label, env, id), CopyKnows(meta', label, env)
  PROVE  CopyInv'
<1>1. \A d \in Clients : req'[d].pc = label /\ req'[d].env = env
  BY DEF OneClient, GotoWith, TypeOK
<1> QED BY <1>1 DEF CopyInv

LEMMA CopyAfterDone ==
  ASSUME OneClient, TypeOK, NEW c \in Clients, Done(c)
  PROVE  CopyInv'
<1>1. \A d \in Clients : req'[d].pc = "idle"
  BY DEF OneClient, Done, Idle, TypeOK
<1> QED BY <1>1 DEF CopyInv, CopyKnows, Unread

\* The decisions keep a terminal state.
LEMMA TerminalKept ==
  ASSUME NEW env \in EnvRecord
  PROVE  /\ MarkActive(env).state = env.state
         /\ env.state \in Terminal => ApplyStopped(env) = env /\ Refreshed(env) = env
BY DEF EnvRecord, MarkActive, Terminal, ApplyStopped, Refreshed, ShouldMarkStopped,
       ShouldRefreshLiveState

\* What TerminalStatesSticky says of one step.
TerminalKeptBy ==
  (/\ meta # NoMeta /\ meta.state \in Terminal
   /\ meta' # NoMeta /\ meta'.state # meta.state)
  => \E c \in Clients : req[c].pc \in {"startWrite", "startFail"}

\* Steps that go on with the copy that was read, and leave the record alone.
LEMMA SameCopy ==
  ASSUME OneClient, TypeOK, CopyInv, NEW c \in Clients, NEW label, NEW id,
         GotoWith(c, label, req[c].env, id), meta' = meta,
         req[c].pc \notin Unread \cup {"startWrite"},
         label \notin {"execLog", "execCmd"}
  PROVE  CopyInv'
<1>1. CopyKnows(meta, req[c].pc, req[c].env)
  BY DEF CopyInv
<1>2. CopyKnows(meta', label, req[c].env)
  BY <1>1 DEF CopyKnows
<1> QED BY <1>2, CopyAfterGoto

\* Steps of a request that has read nothing.
LEMMA NoCopy ==
  ASSUME OneClient, TypeOK, NEW c \in Clients, NEW label \in Unread, NEW env, NEW id,
         GotoWith(c, label, env, id)
  PROVE  CopyInv'
<1>1. CopyKnows(meta', label, env)
  BY DEF CopyKnows, Unread
<1> QED BY <1>1, CopyAfterGoto

\* A handler that begins has the record itself.
LEMMA FreshCopy ==
  ASSUME OneClient, TypeOK, NEW c \in Clients, NEW op, NEW label,
         ReadEnv(c, op, label), label # "execCmd",
         label = "execLog" => meta.state = "Running"
  PROVE  CopyInv' /\ meta' = meta
<1>1. CopyKnows(meta', label, meta)
  BY DEF CopyKnows, Recorded, ReadEnv, Unread
<1> QED BY <1>1, CopyAfterGoto DEF ReadEnv, Goto

LEMMA CopyStep ==
  ASSUME OneClient, TypeOK, SerialInv, CopyInv, NEW c \in Clients, Handler(c)
  PROVE  CopyInv' /\ TerminalKeptBy
<1> DEFINE Goal == CopyInv' /\ TerminalKeptBy
<1>0. KnownAt(req[c].pc) /\ CopyKnows(meta, req[c].pc, req[c].env)
  BY DEF SerialInv, CopyInv
<1>a. meta' = meta \/ meta' = NoMeta \/ meta = NoMeta => TerminalKeptBy
  BY DEF TerminalKeptBy
<1>b. ASSUME NEW label \in Unread, NEW env, NEW id, GotoWith(c, label, env, id),
             meta' \in {meta, NoMeta}
      PROVE  Goal
  BY <1>a, <1>b, NoCopy
<1>c. ASSUME Done(c), meta' \in {meta, NoMeta} PROVE Goal
  BY <1>a, <1>c, CopyAfterDone
<1>d. ASSUME NEW label, NEW id, GotoWith(c, label, req[c].env, id), meta' = meta,
             req[c].pc \notin Unread \cup {"startWrite"}, label \notin {"execLog", "execCmd"}
      PROVE  Goal
  BY <1>a, <1>d, SameCopy
<1>e. ASSUME NEW op, NEW label, ReadEnv(c, op, label), label \notin {"execLog", "execCmd"}
      PROVE  Goal
  BY <1>a, <1>e, FreshCopy
<1>f. req[c].pc \notin Unread => req[c].env \in EnvRecord
  BY CopyType DEF TypeOK
<1> HIDE DEF Goal
<1>1. ASSUME CreateCheck(c) PROVE Goal
  BY <1>1, <1>b DEF CreateCheck, Goto, Unread
<1>2. ASSUME CreateMkdir(c) PROVE Goal
  BY <1>2, <1>b DEF CreateMkdir, Goto, Unread
<1>3. ASSUME CreateRootfs(c) PROVE Goal
  BY <1>3, <1>b DEF CreateRootfs, Goto, Unread
<1>4. ASSUME CreateConfig(c) PROVE Goal
  BY <1>4, <1>b DEF CreateConfig, Goto, Unread
<1>5. ASSUME CreateCommit(c) PROVE Goal
  <2>1. meta = NoMeta
    BY <1>5, <1>0 DEF CreateCommit, At, KnownAt, Unread
  <2> QED BY <1>5, <2>1, <1>a, CopyAfterDone DEF CreateCommit, Goal
<1>6. ASSUME CreateFails(c) PROVE Goal
  BY <1>6, <1>b DEF CreateFails, Goto, Unread
<1>7. ASSUME CleanRootfs(c) PROVE Goal
  BY <1>7, <1>b DEF CleanRootfs, Goto, Unread
<1>8. ASSUME CleanSubvol(c) PROVE Goal
  BY <1>8, <1>b DEF CleanSubvol, Unread
<1>9. ASSUME CleanQgroup(c) PROVE Goal
  BY <1>9, <1>b DEF CleanQgroup, Goto, Unread
<1>10. ASSUME CleanContents(c) PROVE Goal
  BY <1>10, <1>b DEF CleanContents, Goto, Unread, RemoveContents
<1>11. ASSUME CleanRmdir(c) PROVE Goal
  BY <1>11, <1>c DEF CleanRmdir, resources
<1>12. ASSUME StartRead(c) PROVE Goal
  BY <1>12, <1>e DEF StartRead, At
<1>13. ASSUME StartPrep(c) PROVE Goal
  BY <1>13, <1>d DEF StartPrep, Goto, At, Unread
<1>14. ASSUME StartStopUnit(c) PROVE Goal
  BY <1>14, <1>d DEF StartStopUnit, Goto, At, Unread
<1>15. ASSUME StartRun(c) PROVE Goal
  BY <1>15, <1>d DEF StartRun, Goto, At, Unread
<1>16. ASSUME StartWait(c) PROVE Goal
  <2>1. CASE Goto(c, "startFail", req[c].env)
    BY <1>16, <2>1, <1>d DEF StartWait, Goto, At, Unread
  <2>2. CASE Goto(c, "startWrite", [MarkActive(req[c].env) EXCEPT !.state = "Running"])
    <3> DEFINE env == [MarkActive(req[c].env) EXCEPT !.state = "Running"]
    <3>1. CopyKnows(meta', "startWrite", env)
      BY DEF CopyKnows
    <3> HIDE DEF env
    <3> QED BY <1>16, <2>2, <3>1, <1>a, CopyAfterGoto DEF StartWait, Goto, Goal, env
  <2> QED BY <1>16, <2>1, <2>2 DEF StartWait
<1>17. ASSUME StartFail(c) PROVE Goal
  BY <1>17, CopyAfterDone DEF StartFail, At, TerminalKeptBy, Goal
<1>18. ASSUME StopRead(c) PROVE Goal
  BY <1>18, <1>e DEF StopRead, At
<1>19. ASSUME StopMachine(c) PROVE Goal
  BY <1>19, <1>d DEF StopMachine, Goto, At, Unread
<1>20. ASSUME StopCheck(c) PROVE Goal
  <2> DEFINE env == ApplyStopped(req[c].env)
  <2>1. CopyKnows(meta, "stopWrite", env)
    BY <1>20, <1>0, <1>f, TerminalKept DEF StopCheck, CopyKnows, At, Unread
  <2> HIDE DEF env
  <2> QED BY <1>20, <2>1, <1>a, CopyAfterGoto DEF StopCheck, Goto, Goal, env
<1>21. ASSUME DestroyRead(c) PROVE Goal
  BY <1>21, <1>e DEF DestroyRead, At
<1>22. ASSUME DestroyMachine(c) PROVE Goal
  BY <1>22, <1>d DEF DestroyMachine, Goto, At, Unread
<1>23. ASSUME DestroyRootfs(c) PROVE Goal
  BY <1>23, <1>d DEF DestroyRootfs, Goto, At, Unread
<1>24. ASSUME DestroySubvol(c) PROVE Goal
  BY <1>24, <1>d DEF DestroySubvol, DestroySubvolNext, Goto, At, Unread
<1>25. ASSUME DestroyQgroup(c) PROVE Goal
  BY <1>25, <1>d DEF DestroyQgroup, Goto, At, Unread
<1>26. ASSUME DestroyConfig(c) PROVE Goal
  BY <1>26, <1>d DEF DestroyConfig, Goto, At, Unread
<1>27. ASSUME DestroyContents(c) PROVE Goal
  <2>1. CopyKnows(meta', "destroyRmdir", req[c].env)
    BY <1>27 DEF DestroyContents, RemoveContents, CopyKnows, Recorded
  <2> QED BY <1>27, <2>1, <1>a, CopyAfterGoto DEF DestroyContents, RemoveContents, Goto, Goal
<1>28. ASSUME DestroyRmdir(c) PROVE Goal
  BY <1>28, <1>c DEF DestroyRmdir, resources
<1>29. ASSUME StatusRead(c) PROVE Goal
  BY <1>29, <1>e DEF StatusRead, At
<1>30. ASSUME StatusRefresh(c) PROVE Goal
  <2> DEFINE env == Refreshed(req[c].env)
             label == IF IdleExpired(env) THEN "statusIdle" ELSE "statusQuota"
  <2>1. CopyKnows(meta, label, env)
    BY <1>30, <1>0, <1>f, TerminalKept DEF StatusRefresh, CopyKnows, At, Unread
  <2>2. Goto(c, label, env) /\ meta' = meta
    BY <1>30 DEF StatusRefresh
  <2> HIDE DEF env, label
  <2> QED BY <2>1, <2>2, <1>a, CopyAfterGoto DEF Goto, Goal
<1>31. ASSUME StatusIdle(c) PROVE Goal
  <2> DEFINE env == ApplyStopped(req[c].env)
  <2>1. CopyKnows(meta, "statusQuota", env)
    BY <1>31, <1>0, <1>f, TerminalKept DEF StatusIdle, CopyKnows, At, Unread
  <2> HIDE DEF env
  <2> QED BY <1>31, <2>1, <1>a, CopyAfterGoto DEF StatusIdle, Goto, Goal, env
<1>32. ASSUME StatusQuota(c) PROVE Goal
  <2> DEFINE env == QuotaMarked(req[c].env)
  <2>1. CASE Backend = "Btrfs" /\ ShouldCheckQuota(req[c].env.state)
    <3>1. CopyKnows(meta, "statusWrite", env)
      BY <1>32, <2>1, <1>0 DEF StatusQuota, CopyKnows, At, Unread, ShouldCheckQuota, Terminal
    <3>2. Goto(c, "statusWrite", env) /\ meta' = meta
      BY <1>32, <2>1 DEF StatusQuota
    <3> HIDE DEF env
    <3> QED BY <3>1, <3>2, <1>a, CopyAfterGoto DEF Goto, Goal
  <2>2. CASE ~(Backend = "Btrfs" /\ ShouldCheckQuota(req[c].env.state))
    BY <1>32, <2>2, <1>d DEF StatusQuota, Goto, At, Unread
  <2> QED BY <2>1, <2>2
<1>33. ASSUME ExecRead(c) PROVE Goal
  BY <1>33, <1>a, FreshCopy DEF ExecRead, Goal
<1>34. ASSUME ExecLog(c) PROVE Goal
  <2>1. CopyKnows(meta, "execCmd", req[c].env)
    BY <1>34, <1>0 DEF ExecLog, CopyKnows, At, Unread
  <2> QED BY <1>34, <2>1, <1>a, CopyAfterGoto DEF ExecLog, Goto, Goal
<1>35. ASSUME ExecCmd(c) PROVE Goal
  <2>1. Recorded(meta, "Running")
    BY <1>35, <1>0 DEF ExecCmd, CopyKnows, At
  <2>2. \E env : Goto(c, "execWrite", env) /\ meta' = meta
    BY <1>35 DEF ExecCmd
  <2>3. PICK env : Goto(c, "execWrite", env) /\ meta' = meta
    BY <2>2
  <2>4. CopyKnows(meta, "execWrite", env)
    BY <2>1 DEF CopyKnows, Recorded, Terminal
  <2> QED BY <2>3, <2>4, <1>a, CopyAfterGoto DEF Goto, Goal
<1>36. ASSUME TouchRead(c) PROVE Goal
  BY <1>36, <1>e DEF TouchRead, At
<1>37. ASSUME TouchMount(c) PROVE Goal
  <2> DEFINE env == MarkActive(req[c].env)
  <2>1. CopyKnows(meta, "touchWrite", env)
    BY <1>37, <1>0, <1>f, TerminalKept DEF TouchMount, CopyKnows, At, Unread
  <2> HIDE DEF env
  <2> QED BY <1>37, <2>1, <1>a, CopyAfterGoto DEF TouchMount, Goto, Goal, env
<1>38. ASSUME WriteBack(c) PROVE Goal
  <2>1. CASE At(c, "startWrite")
    BY <1>38, <2>1, CopyAfterDone DEF WriteBack, At, TerminalKeptBy, Goal
  <2>2. CASE ~At(c, "startWrite")
    <3>1. req[c].pc \notin Unread \cup {"startWrite"}
      BY <1>38, <2>2 DEF WriteBack, WriteSteps, At, Unread
    <3>2. meta' = req[c].env
      BY <1>38 DEF WriteBack, WriteEnv
    <3>3. TerminalKeptBy
      BY <3>1, <3>2, <1>0 DEF CopyKnows, Recorded, TerminalKeptBy
    <3> QED BY <1>38, <3>3, CopyAfterDone DEF WriteBack, Goal
  <2> QED BY <2>1, <2>2
<1>39. ASSUME RequestFails(c) PROVE Goal
  BY <1>39, <1>c DEF RequestFails, resources
<1> QED
  BY <1>1, <1>2, <1>3, <1>4, <1>5, <1>6, <1>7, <1>8, <1>9, <1>10, <1>11, <1>12, <1>13, <1>14, <1>15, <1>16, <1>17, <1>18, <1>19, <1>20, <1>21, <1>22, <1>23, <1>24, <1>25, <1>26, <1>27, <1>28, <1>29, <1>30, <1>31, <1>32, <1>33, <1>34, <1>35, <1>36, <1>37, <1>38, <1>39
  DEF Goal, Handler, Create, Start, Stop, Destroy, Status, Exec, Touch

LEMMA CopyEnvironment ==
  ASSUME TypeOK, CopyInv, Environment
  PROVE  CopyInv' /\ TerminalKeptBy
<1>1. CASE MachineBoots \/ MachineExits \/ DiskUseChanges
  <2>1. UNCHANGED <<meta, req>>
    BY <1>1 DEF MachineBoots, MachineExits, DiskUseChanges
  <2> QED BY <2>1 DEF CopyInv, TerminalKeptBy
<1>2. CASE TimePasses
  <2>1. ASSUME NEW env \in EnvRecord PROVE Aged(env) # NoMeta /\ Aged(env).state = env.state
    BY NoMetaAssumption DEF Aged, EnvRecord
  <2>2. meta' = Aged(meta) /\ (meta = NoMeta => meta' = NoMeta)
    BY <1>2 DEF TimePasses, Aged
  <2>3. \A state : Recorded(meta', state) <=> Recorded(meta, state)
    BY <2>1, <2>2 DEF Recorded, TypeOK, StoreOK
  <2>4. ASSUME NEW c \in Clients
        PROVE  CopyKnows(meta', req'[c].pc, req'[c].env)
    <3>1. req[c] \in [pc : Labels, env : EnvRecord \cup {NoMeta}, qgroup : 0..MaxSubvols]
      BY DEF TypeOK, Request
    <3>2. req'[c].pc = req[c].pc /\ req'[c].env = Aged(req[c].env)
      BY <1>2, <3>1 DEF TimePasses
    <3>3. req[c].pc \notin Unread => req[c].env \in EnvRecord
      BY CopyType DEF TypeOK
    <3>4. CopyKnows(meta, req[c].pc, req[c].env)
      BY DEF CopyInv
    <3> QED BY <2>1, <2>3, <3>2, <3>3, <3>4 DEF CopyKnows
  <2>5. TerminalKeptBy
    BY <2>1, <2>2 DEF TerminalKeptBy, TypeOK, StoreOK
  <2> QED BY <2>4, <2>5 DEF CopyInv
<1>3. CASE Crash
  <2>1. meta' = meta /\ \A c \in Clients : req'[c].pc = "idle"
    BY <1>3 DEF Crash, Idle
  <2> QED BY <2>1 DEF CopyInv, CopyKnows, Unread, TerminalKeptBy
<1> QED BY <1>1, <1>2, <1>3 DEF Environment

\* One request at a time, any number of restarts: Failed and QuotaExceeded
\* are left by an env_start alone.
THEOREM SerialTerminalStatesSticky == ASSUME OneClient PROVE Spec => TerminalStatesSticky
<1>1. Init => CopyInv
  <2> SUFFICES ASSUME Init PROVE CopyInv
    OBVIOUS
  <2>1. \A c \in Clients : req[c].pc = "idle"
    BY DEF Init, Idle
  <2> QED BY <2>1 DEF CopyInv, CopyKnows, Unread
<1>2. (TypeOK /\ SerialInv) /\ CopyInv /\ [Next]_vars => CopyInv' /\ TerminalKeptBy
  <2> SUFFICES ASSUME TypeOK, SerialInv, CopyInv, [Next]_vars PROVE CopyInv' /\ TerminalKeptBy
    OBVIOUS
  <2>1. ASSUME NEW c \in Clients, Handler(c) PROVE CopyInv' /\ TerminalKeptBy
    BY <2>1, CopyStep
  <2>2. CASE Environment
    BY <2>2, CopyEnvironment
  <2>3. CASE UNCHANGED vars
    BY <2>3 DEF vars, CopyInv, TerminalKeptBy
  <2> QED BY <2>1, <2>2, <2>3 DEF Next
<1>3. (TypeOK /\ SerialInv) /\ CopyInv /\ [Next]_vars
        => [/\ meta # NoMeta /\ meta.state \in Terminal
            /\ meta' # NoMeta /\ meta'.state # meta.state
            => \E c \in Clients : req[c].pc \in {"startWrite", "startFail"}]_vars
  BY <1>2 DEF TerminalKeptBy
<1> QED BY <1>1, <1>2, <1>3, SerialInvariance, PTL DEF Spec, TerminalStatesSticky

=============================================================================
