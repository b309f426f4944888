------------------------ MODULE VideoPipeline_proofs ------------------------
(***************************************************************************)
(* Proofs about VideoPipeline, for any number of restart calls, pipeline   *)
(* objects, faults and viewers: until main shuts down, a second pipeline   *)
(* holds the capture device only after its stop was given up on.  The      *)
(* argument is RESTART_LOCK: who rebuilds is at the head of its queue.     *)
(***************************************************************************)
EXTENDS VideoPipeline, SequenceTheorems, TLAPS

\* From taking RESTART_LOCK to dropping its guard.
Critical == {"check", "verdict", "stop", "stopping", "build", "start", "sink", "store"}

LockHeld == \A b \in Builders : pc[b] \in Critical => lockQueue # <<>> /\ Head(lockQueue) = b

\* PIPELINE_MANAGER is empty from take() to the end of a rebuild.
ManagerTaken ==
    \A b \in Builders : pc[b] \in {"stopping", "build", "start", "sink", "store"} => manager = None

\* A graph that plays is the manager's, or of a rebuild that has not stored it yet; a graph that
\* is being stopped is the one some rebuild waits for.
GraphOwned ==
    \A s \in Slots :
        /\ graph[s] = "playing" =>
             s = manager \/ \E b \in Builders : work[b] = s /\ pc[b] \in {"sink", "store"}
        /\ graph[s] = "stopping" => \E b \in Builders : work[b] = s /\ pc[b] = "stopping"

\* A handler switches the running encoder to a profile it negotiated.
ProfileChosen == viewerPc = "profile" => h264Profile \in Profiles

\* shutdown_video_pipeline takes the manager away without RESTART_LOCK.
BuildInv == LockHeld /\ (pc[Main] = "idle" => ManagerTaken /\ GraphOwned)

IInv == TypeOK /\ ProfileChosen /\ BuildInv
-----------------------------------------------------------------------------
(* Types *)

BuildTypeOK ==
    /\ lockQueue \in Seq(Builders)
    /\ pc \in [Builders \cup {Main} -> BuilderPcs]
    /\ work \in [Builders \cup {Main} -> Slots \cup {None}]
    /\ supervised \in BOOLEAN
    /\ manager \in Slots \cup {None}

PipeTypeOK ==
    /\ graph \in [Slots -> {"none", "playing", "stopping", "abandoned"}]
    /\ running \in [Slots -> BOOLEAN]
    /\ bus \in [Slots -> {"none", "spawned", "watching", "ended"}]
    /\ errored \in [Slots -> BOOLEAN]
    /\ flowing \in [Slots -> BOOLEAN]
    /\ encoding \in [Slots -> BOOLEAN]
    /\ profile \in [Slots -> Profiles]

ViewerTypeOK ==
    /\ h264Profile \in Profiles \cup {None}
    /\ sink \in BOOLEAN /\ viewerPc \in ViewerPcs /\ viewers \in 0..MaxViewers

EnvTypeOK == faults \in 0..MaxFaults /\ signal \in BOOLEAN

LEMMA TypeParts == TypeOK <=> BuildTypeOK /\ PipeTypeOK /\ ViewerTypeOK /\ EnvTypeOK
  BY DEF TypeOK, BuildTypeOK, PipeTypeOK, ViewerTypeOK, EnvTypeOK

\* What the viewers' handlers do, and who leaves their variables alone.
LEMMA ViewerType == TypeOK /\ ProfileChosen /\ [Next]_vars => ViewerTypeOK' /\ ProfileChosen'
<1> SUFFICES ASSUME TypeOK, ProfileChosen, [Next]_vars PROVE ViewerTypeOK' /\ ProfileChosen'
  OBVIOUS
<1> USE FaultsAssumption DEF TypeOK, ViewerTypeOK, ViewerPcs, ProfileChosen
<1>1. ASSUME UNCHANGED viewerVars PROVE ViewerTypeOK' /\ ProfileChosen'
  BY <1>1 DEF viewerVars
<1>2. CASE ShutdownDone
  BY <1>2 DEF ShutdownDone
<1>3. CASE Viewer
  BY <1>3 DEF Viewer, ViewerEncoderProfile, ViewerAttach, ViewerEncodes, ViewerPauses
<1>4. CASE ViewerDetach
  BY <1>4 DEF ViewerDetach
<1>5. ASSUME NEW p \in Profiles \cup {None}, ViewerProfile(p) PROVE ViewerTypeOK' /\ ProfileChosen'
  BY <1>5 DEF ViewerProfile
<1>6. ASSUME NEW r \in Restarters, RequestRestart(r) \/ RestartLocked(r) PROVE UNCHANGED viewerVars
  BY <1>6 DEF RequestRestart, RestartLocked
<1>7. ASSUME SupervisorTick \/ SupervisorCheck \/ SupervisorStalled \/ SupervisorWaits
      PROVE  UNCHANGED viewerVars
  BY <1>7 DEF SupervisorTick, SupervisorCheck, SupervisorStalled, SupervisorWaits
<1>8. ASSUME NEW b \in Builders, Rebuild(b) PROVE UNCHANGED viewerVars
  BY <1>8 DEF Rebuild, TakeDown, StopReturns, StopTimesOut, Build, Start, ReadSink, Store
<1>9. ASSUME ShutdownStart \/ TakeDown(Main, "sink") \/ StopReturns(Main, "sink") \/ StopTimesOut(Main, "sink")
      PROVE  UNCHANGED viewerVars
  BY <1>9 DEF ShutdownStart, TakeDown, StopReturns, StopTimesOut
<1>10. ASSUME NEW s \in Slots, NullReached(s) \/ BusStart(s) \/ BusEnd(s) \/ GstError(s) \/ Wedge(s)
       PROVE  UNCHANGED viewerVars
  BY <1>10 DEF NullReached, BusStart, BusEnd, GstError, Wedge
<1>11. ASSUME SignalLost \/ SignalBack PROVE UNCHANGED viewerVars
  BY <1>11 DEF SignalLost, SignalBack
<1>12. ASSUME UNCHANGED vars PROVE UNCHANGED viewerVars
  BY <1>12 DEF vars
<1> QED BY <1>1, <1>2, <1>3, <1>4, <1>5, <1>6, <1>7, <1>8, <1>9, <1>10, <1>11, <1>12 DEF Next, Shutdown
\* Clearing or setting a flag of one pipeline, or of the manager's, keeps it a flag of each.
LEMMA FlagType ==
    ASSUME NEW f \in [Slots -> BOOLEAN], NEW s, NEW v \in BOOLEAN
    PROVE  /\ [f EXCEPT ![s] = v] \in [Slots -> BOOLEAN]
           /\ [t \in Slots |-> IF t = s THEN v ELSE f[t]] \in [Slots -> BOOLEAN]
           /\ [t \in Slots |-> f[t] /\ t # s] \in [Slots -> BOOLEAN]
<1>1. \A t \in Slots : f[t] \in BOOLEAN
  BY Zenon
<1>2. [f EXCEPT ![s] = v] \in [Slots -> BOOLEAN]
  BY Zenon
<1>3. [t \in Slots |-> IF t = s THEN v ELSE f[t]] \in [Slots -> BOOLEAN]
  BY <1>1, Zenon
<1>4. [t \in Slots |-> f[t] /\ t # s] \in [Slots -> BOOLEAN]
  BY Zenon
<1> QED BY <1>2, <1>3, <1>4

\* The steps of a rebuild and of the shutdown.
LEMMA RebuildPipeType ==
    ASSUME TypeOK, NEW b \in Builders \cup {Main}, NEW next \in BuilderPcs,
           \/ TakeDown(b, next) \/ StopReturns(b, next) \/ StopTimesOut(b, next)
           \/ Build(b) \/ Start(b) \/ ReadSink(b) \/ Store(b)
    PROVE  PipeTypeOK' /\ EnvTypeOK'
<1> USE DEF TypeOK, PipeTypeOK, EnvTypeOK, pipeVars, envVars
<1>1. CASE TakeDown(b, next)
  <2>1. running' \in [Slots -> BOOLEAN]
    BY <1>1, FlagType DEF TakeDown
  <2>2. graph' \in [Slots -> {"none", "playing", "stopping", "abandoned"}]
    BY <1>1 DEF TakeDown
  <2> QED BY <1>1, <2>1, <2>2 DEF TakeDown
<1>2. CASE StopReturns(b, next)
  BY <1>2 DEF StopReturns
<1>3. CASE StopTimesOut(b, next)
  <2>1. faults' \in 0..MaxFaults
    BY <1>3, FaultsAssumption DEF StopTimesOut
  <2>2. graph' \in [Slots -> {"none", "playing", "stopping", "abandoned"}]
    BY <1>3 DEF StopTimesOut
  <2> QED BY <1>3, <2>1, <2>2 DEF StopTimesOut
<1>4. CASE Build(b)
  <2>1. ASSUME NEW s \in Slots,
               profile' = [profile EXCEPT ![s] = IF h264Profile = None THEN Configured ELSE h264Profile],
               encoding' = [encoding EXCEPT ![s] = FALSE],
               errored' = [errored EXCEPT ![s] = FALSE],
               bus' = [bus EXCEPT ![s] = "spawned"], UNCHANGED faults
        PROVE  PipeTypeOK' /\ EnvTypeOK'
    <3>1. encoding' \in [Slots -> BOOLEAN] /\ errored' \in [Slots -> BOOLEAN]
      BY <2>1, FlagType
    <3>2. profile' \in [Slots -> Profiles]
      BY <2>1, SlotsAssumption
    <3>3. bus' \in [Slots -> {"none", "spawned", "watching", "ended"}]
      BY <2>1
    <3> QED BY <1>4, <2>1, <3>1, <3>2, <3>3 DEF Build
  <2>2. ASSUME faults < MaxFaults, faults' = faults + 1, UNCHANGED <<profile, encoding, errored, bus>>
        PROVE  PipeTypeOK' /\ EnvTypeOK'
    BY <1>4, <2>2, FaultsAssumption DEF Build
  <2> QED BY <1>4, <2>1, <2>2 DEF Build
<1>5. CASE Start(b)
  <2>1. running' \in [Slots -> BOOLEAN]
    BY <1>5, FlagType DEF Start
  <2>2. flowing' \in [Slots -> BOOLEAN]
    BY <1>5, FlagType DEF Start
  <2>3. graph' \in [Slots -> {"none", "playing", "stopping", "abandoned"}]
    BY <1>5 DEF Start
  <2>4. faults' \in 0..MaxFaults
    BY <1>5, FaultsAssumption DEF Start
  <2> QED BY <1>5, <2>1, <2>2, <2>3, <2>4 DEF Start
<1>6. CASE ReadSink(b)
  <2>1. encoding' \in [Slots -> BOOLEAN]
    BY <1>6, FlagType DEF ReadSink
  <2> QED BY <1>6, <2>1 DEF ReadSink
<1>7. CASE Store(b)
  <2>1. running' \in [Slots -> BOOLEAN] /\ flowing' \in [Slots -> BOOLEAN]
    <3>1. \A f \in [Slots -> BOOLEAN] : [t \in Slots |-> f[t] /\ t # manager] \in [Slots -> BOOLEAN]
      BY FlagType, Zenon
    <3> QED BY <1>7, <3>1 DEF Store
  <2>2. graph' \in [Slots -> {"none", "playing", "stopping", "abandoned"}]
    BY <1>7 DEF Store
  <2> QED BY <1>7, <2>1, <2>2 DEF Store
<1> QED BY <1>1, <1>2, <1>3, <1>4, <1>5, <1>6, <1>7

LEMMA PipeType == TypeOK /\ ProfileChosen /\ [Next]_vars => PipeTypeOK' /\ EnvTypeOK'
<1> SUFFICES ASSUME TypeOK, ProfileChosen, [Next]_vars PROVE PipeTypeOK' /\ EnvTypeOK'
  OBVIOUS
<1> USE DEF TypeOK, PipeTypeOK, EnvTypeOK, pipeVars, envVars
<1>1. ASSUME UNCHANGED pipeVars, UNCHANGED envVars PROVE PipeTypeOK' /\ EnvTypeOK'
  BY <1>1
<1>2. ASSUME NEW r \in Restarters, RequestRestart(r) \/ RestartLocked(r)
      PROVE  UNCHANGED pipeVars /\ UNCHANGED envVars
  BY <1>2 DEF RequestRestart, RestartLocked
<1>3. ASSUME SupervisorTick \/ SupervisorCheck \/ SupervisorStalled \/ SupervisorWaits
      PROVE  UNCHANGED pipeVars /\ UNCHANGED envVars
  BY <1>3 DEF SupervisorTick, SupervisorCheck, SupervisorStalled, SupervisorWaits
<1>4. ASSUME NEW b \in Builders, Rebuild(b) PROVE PipeTypeOK' /\ EnvTypeOK'
  <2>1. "build" \in BuilderPcs /\ b \in Builders \cup {Main}
    BY DEF BuilderPcs
  <2> QED BY <1>4, <2>1, RebuildPipeType DEF Rebuild
<1>5. CASE Shutdown
  <2>1. "sink" \in BuilderPcs /\ Main \in Builders \cup {Main}
    BY DEF BuilderPcs
  <2>2. ASSUME ShutdownStart \/ ShutdownDone PROVE UNCHANGED pipeVars /\ UNCHANGED envVars
    BY <2>2 DEF ShutdownStart, ShutdownDone
  <2> QED BY <1>1, <1>5, <2>1, <2>2, RebuildPipeType DEF Shutdown
<1>6. ASSUME NEW s \in Slots, NullReached(s) PROVE PipeTypeOK' /\ EnvTypeOK'
  <2>1. flowing' \in [Slots -> BOOLEAN]
    BY <1>6, FlagType DEF NullReached
  <2> QED BY <1>6, <2>1 DEF NullReached
<1>7. ASSUME NEW s \in Slots, BusStart(s) PROVE PipeTypeOK' /\ EnvTypeOK'
  <2>1. bus' \in [Slots -> {"none", "spawned", "watching", "ended"}]
    BY <1>7 DEF BusStart
  <2> QED BY <1>7, <2>1 DEF BusStart
<1>8. ASSUME NEW s \in Slots, BusEnd(s) PROVE PipeTypeOK' /\ EnvTypeOK'
  <2>1. running' \in [Slots -> BOOLEAN]
    BY <1>8, FlagType DEF BusEnd
  <2> QED BY <1>8, <2>1 DEF BusEnd
<1>9. ASSUME NEW s \in Slots, GstError(s) PROVE PipeTypeOK' /\ EnvTypeOK'
  <2>1. errored' \in [Slots -> BOOLEAN] /\ flowing' \in [Slots -> BOOLEAN]
    BY <1>9, FlagType DEF GstError
  <2> QED BY <1>9, <2>1, FaultsAssumption DEF GstError, Fault
<1>10. ASSUME NEW s \in Slots, Wedge(s) PROVE PipeTypeOK' /\ EnvTypeOK'
  <2>1. flowing' \in [Slots -> BOOLEAN]
    BY <1>10, FlagType DEF Wedge
  <2> QED BY <1>10, <2>1, FaultsAssumption DEF Wedge, Fault
<1>11. CASE SignalLost
  <2>1. flowing' \in [Slots -> BOOLEAN]
    BY <1>11, Zenon DEF SignalLost
  <2>2. faults' \in 0..MaxFaults
    BY <1>11, FaultsAssumption DEF SignalLost
  <2>3. signal' \in BOOLEAN
    BY <1>11, Zenon DEF SignalLost
  <2> QED BY <1>11, <2>1, <2>2, <2>3 DEF SignalLost
<1>12. CASE SignalBack
  BY <1>12 DEF SignalBack
<1>13. CASE Viewer
  <2>1. CASE ViewerEncoderProfile
    <3>1. h264Profile \in Profiles
      BY <2>1 DEF ProfileChosen, ViewerEncoderProfile
    <3> QED BY <2>1, <3>1 DEF ViewerEncoderProfile
  <2>2. CASE ViewerAttach
    BY <2>2 DEF ViewerAttach
  <2>3. CASE ViewerEncodes
    <3>1. encoding' \in [Slots -> BOOLEAN]
      BY <2>3, FlagType DEF ViewerEncodes, SetEncodingActive
    <3> QED BY <2>3, <3>1 DEF ViewerEncodes
  <2>4. CASE ViewerPauses
    <3>1. encoding' \in [Slots -> BOOLEAN]
      BY <2>4, FlagType DEF ViewerPauses, SetEncodingActive
    <3> QED BY <2>4, <3>1 DEF ViewerPauses
  <2> QED BY <1>13, <2>1, <2>2, <2>3, <2>4 DEF Viewer
<1>14. ASSUME ViewerDetach \/ \E p \in Profiles \cup {None} : ViewerProfile(p)
       PROVE  UNCHANGED pipeVars /\ UNCHANGED envVars
  BY <1>14 DEF ViewerDetach, ViewerProfile
<1>15. ASSUME UNCHANGED vars PROVE UNCHANGED pipeVars /\ UNCHANGED envVars
  BY <1>15 DEF vars
<1> QED BY <1>1, <1>2, <1>3, <1>4, <1>5, <1>6, <1>7, <1>8, <1>9, <1>10, <1>11, <1>12, <1>13, <1>14, <1>15
        DEF Next
-----------------------------------------------------------------------------
(* RESTART_LOCK *)

\* Who drops the guard was at the head, so nobody else is inside.
LEMMA ReleaseKeepsLock ==
    ASSUME BuildTypeOK, LockHeld, NEW b \in Builders, NEW l \in BuilderPcs \ Critical,
           pc[b] \in Critical, Release(b, l)
    PROVE  /\ LockHeld'
           /\ lockQueue' \in Seq(Builders)
           /\ \A c \in Builders \cup {Main} : pc'[c] = IF c = b THEN l ELSE pc[c]
           /\ pc' \in [Builders \cup {Main} -> BuilderPcs]
<1>1. lockQueue # <<>> /\ Head(lockQueue) = b
  BY DEF LockHeld
<1>2. \A c \in Builders \cup {Main} : pc'[c] = IF c = b THEN l ELSE pc[c]
  BY DEF Release, Goto, BuildTypeOK
<1>3. lockQueue' \in Seq(Builders)
  BY <1>1 DEF Release, BuildTypeOK
<1>4. \A c \in Builders : pc'[c] \notin Critical
  BY <1>1, <1>2 DEF LockHeld
<1>5. LockHeld'
  BY <1>4 DEF LockHeld
<1>6. pc' \in [Builders \cup {Main} -> BuilderPcs]
  BY DEF Release, Goto, BuildTypeOK
<1> QED BY <1>2, <1>3, <1>5, <1>6

\* A step of a builder inside the lock, or of main, that leaves the lock alone.
LEMMA InsideKeepsLock ==
    ASSUME BuildTypeOK, LockHeld, NEW b \in Builders \cup {Main}, NEW l \in BuilderPcs,
           b = Main \/ pc[b] \in Critical, Goto(b, l), UNCHANGED lockQueue
    PROVE  /\ LockHeld'
           /\ lockQueue' \in Seq(Builders)
           /\ \A c \in Builders \cup {Main} : pc'[c] = IF c = b THEN l ELSE pc[c]
           /\ pc' \in [Builders \cup {Main} -> BuilderPcs]
<1>1. \A c \in Builders \cup {Main} : pc'[c] = IF c = b THEN l ELSE pc[c]
  BY DEF Goto, BuildTypeOK
<1>2. Main \notin Builders
  BY RolesAssumption DEF Builders, Main, Supervisor
<1>3. LockHeld'
  BY <1>1, <1>2 DEF LockHeld
<1>4. pc' \in [Builders \cup {Main} -> BuilderPcs]
  BY DEF Goto, BuildTypeOK
<1> QED BY <1>1, <1>3, <1>4 DEF BuildTypeOK

\* Taking the lock: waiting for it, and getting it.
LEMMA TakeKeepsLock ==
    ASSUME BuildTypeOK, LockHeld,
           \/ SupervisorTick
           \/ \E r \in Restarters : RequestRestart(r) \/ RestartLocked(r)
    PROVE  /\ LockHeld' /\ lockQueue' \in Seq(Builders) /\ pc' \in [Builders \cup {Main} -> BuilderPcs]
           /\ pc'[Main] = pc[Main]
           /\ \A c \in Builders : pc'[c] # pc[c] => {pc[c], pc'[c]} \subseteq {"idle", "lock", "check", "stop"}
           /\ UNCHANGED <<manager, work, graph, supervised>>
<1> USE DEF BuildTypeOK, Goto, pipeVars
<1>1. ASSUME NEW r \in Restarters, RequestRestart(r) PROVE LockHeld' /\ lockQueue' \in Seq(Builders)
  <2>1. lockQueue # <<>> => Head(lockQueue') = Head(lockQueue)
    BY <1>1 DEF RequestRestart
  <2>2. lockQueue' \in Seq(Builders) /\ lockQueue' # <<>>
    BY <1>1 DEF RequestRestart, Builders
  <2>3. \A c \in Builders : pc'[c] = IF c = r THEN "lock" ELSE pc[c]
    BY <1>1 DEF RequestRestart
  <2> QED BY <2>1, <2>2, <2>3 DEF LockHeld, Critical
<1>2. ASSUME NEW r \in Restarters, RestartLocked(r) PROVE LockHeld' /\ lockQueue' \in Seq(Builders)
  BY <1>2 DEF RestartLocked, LockHeld
<1>3. ASSUME SupervisorTick PROVE LockHeld' /\ lockQueue' \in Seq(Builders)
  <2>1. \A c \in Builders : pc[c] \notin Critical
    BY <1>3 DEF SupervisorTick, LockHeld
  <2>2. lockQueue' \in Seq(Builders) /\ lockQueue' # <<>> /\ Head(lockQueue') = Supervisor
    BY <1>3 DEF SupervisorTick, Builders
  <2>3. \A c \in Builders : pc'[c] = IF c = Supervisor THEN "check" ELSE pc[c]
    BY <1>3 DEF SupervisorTick, Builders
  <2> QED BY <2>1, <2>2, <2>3 DEF LockHeld
<1>4. pc' \in [Builders \cup {Main} -> BuilderPcs]
  BY DEF SupervisorTick, RequestRestart, RestartLocked, BuilderPcs
<1>5. pc'[Main] = pc[Main]
  BY RolesAssumption DEF SupervisorTick, RequestRestart, RestartLocked, Supervisor, Main
<1>6. \A c \in Builders : pc'[c] # pc[c] => {pc[c], pc'[c]} \subseteq {"idle", "lock", "check", "stop"}
  BY DEF SupervisorTick, RequestRestart, RestartLocked, Builders
<1>7. UNCHANGED <<manager, work, graph, supervised>>
  BY DEF SupervisorTick, RequestRestart, RestartLocked
<1> QED BY <1>1, <1>2, <1>3, <1>4, <1>5, <1>6, <1>7
-----------------------------------------------------------------------------
(* Who owns which graph *)

\* Nobody who rebuilds, or main, changes: what is owned stays owned when no graph begins to play
\* or to stop.
LEMMA GraphKept ==
    ASSUME BuildTypeOK, BuildInv, UNCHANGED <<manager, lockQueue, pc, work, supervised>>,
           \A s \in Slots : graph'[s] = graph[s] \/ graph'[s] \in {"none", "abandoned"}
    PROVE  BuildTypeOK' /\ BuildInv'
<1>1. BuildTypeOK' /\ LockHeld'
  BY DEF BuildTypeOK, BuildInv, LockHeld
<1>2. ASSUME pc[Main] = "idle" PROVE ManagerTaken' /\ GraphOwned'
  BY <1>2 DEF BuildInv, ManagerTaken, GraphOwned
<1> QED BY <1>1, <1>2 DEF BuildInv

\* Main takes the manager down without the lock: from then on nothing is promised.
LEMMA ShutdownStep ==
    ASSUME BuildTypeOK, BuildInv, Shutdown
    PROVE  BuildTypeOK' /\ BuildInv'
<1> DEFINE labels == {"stop", "stopping", "sink", "done"}
<1>1. PICK l \in labels : Goto(Main, l)
  BY DEF Shutdown, ShutdownStart, TakeDown, StopReturns, StopTimesOut, ShutdownDone
<1>2. UNCHANGED lockQueue
  BY DEF Shutdown, ShutdownStart, TakeDown, StopReturns, StopTimesOut, ShutdownDone
<1>3. l \in BuilderPcs /\ l # "idle"
  BY DEF BuilderPcs
<1>4. LockHeld' /\ lockQueue' \in Seq(Builders) /\ pc' \in [Builders \cup {Main} -> BuilderPcs] /\ pc'[Main] = l
  BY <1>1, <1>2, <1>3, InsideKeepsLock DEF BuildInv
<1>5. manager' \in Slots \cup {None}
  BY DEF Shutdown, ShutdownStart, TakeDown, StopReturns, StopTimesOut, ShutdownDone, BuildTypeOK
<1>6. work' \in [Builders \cup {Main} -> Slots \cup {None}]
  BY DEF Shutdown, ShutdownStart, TakeDown, StopReturns, StopTimesOut, ShutdownDone, BuildTypeOK
<1>7. supervised' \in BOOLEAN
  <2>1. CASE ShutdownStart
    BY <2>1, Zenon DEF ShutdownStart
  <2>2. CASE ~ShutdownStart
    BY <2>2 DEF Shutdown, TakeDown, StopReturns, StopTimesOut, ShutdownDone, BuildTypeOK
  <2> QED BY <2>1, <2>2
<1> QED BY <1>3, <1>4, <1>5, <1>6, <1>7 DEF BuildTypeOK, BuildInv

\* The steps before the manager is taken.
LEMMA DecideStep ==
    ASSUME BuildTypeOK, BuildInv,
           \/ SupervisorTick \/ SupervisorCheck \/ SupervisorStalled \/ SupervisorWaits
           \/ \E r \in Restarters : RequestRestart(r) \/ RestartLocked(r)
    PROVE  BuildTypeOK' /\ BuildInv'
<1> DEFINE Early == {"idle", "lock", "check", "verdict", "stop"}
<1>1. SUFFICES /\ LockHeld' /\ lockQueue' \in Seq(Builders) /\ pc' \in [Builders \cup {Main} -> BuilderPcs]
               /\ pc'[Main] = pc[Main]
               /\ \A c \in Builders : pc'[c] # pc[c] => {pc[c], pc'[c]} \subseteq Early
               /\ UNCHANGED <<manager, work, graph, supervised>>
  <2>1. BuildTypeOK'
    BY <1>1 DEF BuildTypeOK
  <2>2. ASSUME pc'[Main] = "idle" PROVE ManagerTaken' /\ GraphOwned'
    BY <1>1, <2>2 DEF BuildInv, ManagerTaken, GraphOwned
  <2> QED BY <1>1, <2>1, <2>2 DEF BuildInv
<1>2. CASE SupervisorTick \/ \E r \in Restarters : RequestRestart(r) \/ RestartLocked(r)
  BY <1>2, TakeKeepsLock DEF BuildInv
<1>3. Supervisor \in Builders /\ Main # Supervisor /\ {"stop", "verdict", "idle"} \subseteq BuilderPcs
  BY DEF Builders, Main, Supervisor, BuilderPcs
<1>4. CASE SupervisorCheck \/ SupervisorStalled \/ SupervisorWaits
  <2>1. pc[Supervisor] \in {"check", "verdict"}
    BY <1>4 DEF SupervisorCheck, SupervisorStalled, SupervisorWaits
  <2>2. \/ Release(Supervisor, "idle")
        \/ UNCHANGED lockQueue /\ (Goto(Supervisor, "stop") \/ Goto(Supervisor, "verdict"))
    BY <1>4 DEF SupervisorCheck, SupervisorStalled, SupervisorWaits
  <2>3. UNCHANGED <<manager, work, graph, supervised>>
    BY <1>4 DEF SupervisorCheck, SupervisorStalled, SupervisorWaits, pipeVars
  <2>4. CASE Release(Supervisor, "idle")
    <3>1. "idle" \in BuilderPcs \ Critical /\ pc[Supervisor] \in Critical
      BY <1>3, <2>1 DEF Critical
    <3> QED BY <1>3, <2>1, <2>3, <2>4, <3>1, ReleaseKeepsLock DEF BuildInv
  <2>5. ASSUME NEW l \in {"stop", "verdict"}, UNCHANGED lockQueue, Goto(Supervisor, l)
        PROVE  /\ LockHeld' /\ lockQueue' \in Seq(Builders) /\ pc' \in [Builders \cup {Main} -> BuilderPcs]
               /\ pc'[Main] = pc[Main]
               /\ \A c \in Builders : pc'[c] # pc[c] => {pc[c], pc'[c]} \subseteq Early
    <3>1. pc[Supervisor] \in Critical
      BY <2>1 DEF Critical
    <3> QED BY <1>3, <2>1, <2>5, <3>1, InsideKeepsLock DEF BuildInv
  <2> QED BY <2>2, <2>3, <2>4, <2>5
<1> QED BY <1>2, <1>4
\* Inside the lock: the manager is taken and stopped, and a new one is built, started and stored.
LEMMA RebuildStep ==
    ASSUME BuildTypeOK, PipeTypeOK, BuildInv, NEW b \in Builders, Rebuild(b)
    PROVE  BuildTypeOK' /\ BuildInv'
<1>0. Main \notin Builders /\ {"build", "stopping", "start", "sink", "store", "idle", "done"} \subseteq BuilderPcs
  BY RolesAssumption DEF Builders, Main, Supervisor, BuilderPcs
<1>1. pc[b] \in Critical /\ UNCHANGED supervised
  BY DEF Rebuild, TakeDown, StopReturns, StopTimesOut, Build, Start, ReadSink, Store, Critical
<1>2. \A c \in Builders : c # b => pc[c] \notin Critical
  BY <1>1 DEF BuildInv, LockHeld
<1>3. ASSUME NEW l \in BuilderPcs \ Critical, Release(b, l)
      PROVE  /\ LockHeld' /\ lockQueue' \in Seq(Builders) /\ pc' \in [Builders \cup {Main} -> BuilderPcs]
             /\ \A c \in Builders \cup {Main} : pc'[c] = IF c = b THEN l ELSE pc[c]
  BY <1>1, <1>3, ReleaseKeepsLock DEF BuildInv
<1>4. ASSUME NEW l \in BuilderPcs, Goto(b, l), UNCHANGED lockQueue
      PROVE  /\ LockHeld' /\ lockQueue' \in Seq(Builders) /\ pc' \in [Builders \cup {Main} -> BuilderPcs]
             /\ \A c \in Builders \cup {Main} : pc'[c] = IF c = b THEN l ELSE pc[c]
  BY <1>1, <1>4, InsideKeepsLock DEF BuildInv
<1>5. ASSUME Finish(b)
      PROVE  /\ LockHeld' /\ lockQueue' \in Seq(Builders) /\ pc' \in [Builders \cup {Main} -> BuilderPcs]
             /\ pc'[Main] = pc[Main]
             /\ \A c \in Builders : pc'[c] \notin Critical
             /\ work' \in [Builders \cup {Main} -> Slots \cup {None}]
  <2>1. PICK l \in {"idle", "done"} : Release(b, l)
    BY <1>5 DEF Finish
  <2>2. l \in BuilderPcs \ Critical
    BY <1>0 DEF Critical
  <2>3. work' \in [Builders \cup {Main} -> Slots \cup {None}]
    BY <1>5 DEF Finish, BuildTypeOK
  <2> QED BY <1>0, <1>2, <1>3, <2>1, <2>2, <2>3
<1> DEFINE Late == {"stopping", "build", "start", "sink", "store"}
           Owned(s) == /\ graph[s] = "playing" =>
                            s = manager \/ (work[b] = s /\ pc[b] \in {"sink", "store"})
                       /\ graph[s] = "stopping" => work[b] = s /\ pc[b] = "stopping"
<1>6. ASSUME pc[Main] = "idle"
      PROVE  (pc[b] \in Late => manager = None) /\ \A s \in Slots : Owned(s)
  BY <1>2, <1>6 DEF BuildInv, ManagerTaken, GraphOwned, Critical
<1>7. ASSUME NEW l \in BuilderPcs, Goto(b, l), UNCHANGED lockQueue, manager' \in Slots \cup {None},
             work' \in [Builders \cup {Main} -> Slots \cup {None}],
             pc[Main] = "idle" => (l \in Late => manager' = None) /\ \A s \in Slots : Owned(s)'
      PROVE  BuildTypeOK' /\ BuildInv'
  <2>1. /\ LockHeld' /\ lockQueue' \in Seq(Builders) /\ pc' \in [Builders \cup {Main} -> BuilderPcs]
        /\ \A c \in Builders \cup {Main} : pc'[c] = IF c = b THEN l ELSE pc[c]
    BY <1>4, <1>7
  <2>2. ASSUME pc'[Main] = "idle" PROVE ManagerTaken'
    BY <1>0, <1>2, <1>7, <2>1, <2>2 DEF ManagerTaken, Critical
  <2>3. ASSUME pc'[Main] = "idle" PROVE GraphOwned'
    BY <1>0, <1>7, <2>1, <2>3 DEF GraphOwned
  <2> QED BY <1>1, <1>7, <2>1, <2>2, <2>3 DEF BuildTypeOK, BuildInv
<1>8. CASE TakeDown(b, "build")
  <2>1. CASE manager = None
    <3>1. Goto(b, "build") /\ UNCHANGED <<lockQueue, manager, work, graph>> /\ pc[b] = "stop"
      BY <1>8, <2>1 DEF TakeDown
    <3>2. ASSUME pc[Main] = "idle" PROVE \A s \in Slots : Owned(s)'
      BY <1>6, <3>1, <3>2
    <3> QED BY <1>0, <1>7, <2>1, <3>1, <3>2 DEF BuildTypeOK
  <2>2. CASE manager # None
    <3>1. /\ Goto(b, "stopping") /\ UNCHANGED lockQueue /\ manager' = None /\ pc[b] = "stop"
          /\ work' = [work EXCEPT ![b] = manager]
          /\ graph' = [graph EXCEPT ![manager] = "stopping"]
      BY <1>8, <2>2 DEF TakeDown
    <3>2. work'[b] = manager /\ work' \in [Builders \cup {Main} -> Slots \cup {None}]
      BY <3>1 DEF BuildTypeOK
    <3>3. \A s \in Slots : graph'[s] = IF s = manager THEN "stopping" ELSE graph[s]
      BY <3>1 DEF PipeTypeOK
    <3>4. pc'[b] = "stopping"
      BY <3>1 DEF Goto, BuildTypeOK
    <3>5. ASSUME pc[Main] = "idle" PROVE \A s \in Slots : Owned(s)'
      BY <1>6, <3>1, <3>2, <3>3, <3>4, <3>5
    <3> QED BY <1>0, <1>7, <3>1, <3>2, <3>5
  <2> QED BY <2>1, <2>2
<1>9. CASE StopReturns(b, "build") \/ StopTimesOut(b, "build")
  <2>1. /\ pc[b] = "stopping" /\ Goto(b, "build") /\ UNCHANGED <<lockQueue, manager>>
        /\ work' = [work EXCEPT ![b] = None]
    BY <1>9 DEF StopReturns, StopTimesOut
  <2>2. \A s \in Slots : graph'[s] = graph[s] \/ graph'[s] = "abandoned"
    BY <1>9 DEF StopReturns, StopTimesOut, pipeVars, PipeTypeOK
  <2>3. work[b] \in Slots => graph'[work[b]] \in {"none", "abandoned"}
    BY <1>9 DEF StopReturns, StopTimesOut, pipeVars, PipeTypeOK
  <2>4. work' \in [Builders \cup {Main} -> Slots \cup {None}]
    BY <2>1 DEF BuildTypeOK
  <2>5. ASSUME pc[Main] = "idle" PROVE manager' = None /\ \A s \in Slots : Owned(s)'
    BY <1>6, <2>1, <2>2, <2>3, <2>5
  <2> QED BY <1>0, <1>7, <2>1, <2>4, <2>5 DEF BuildTypeOK
<1>10. ASSUME Finish(b), UNCHANGED <<graph, manager>>, pc[b] \in {"build", "start"}
       PROVE  BuildTypeOK' /\ BuildInv'
  <2>1. ASSUME pc[Main] = "idle" PROVE ManagerTaken' /\ GraphOwned'
    BY <1>5, <1>6, <1>10, <2>1 DEF ManagerTaken, GraphOwned, Critical
  <2> QED BY <1>1, <1>5, <1>10, <2>1 DEF BuildTypeOK, BuildInv
<1>11. CASE Build(b)
  <2>1. pc[b] = "build" /\ UNCHANGED <<graph, manager>>
    BY <1>11 DEF Build
  <2>2. ASSUME NEW s \in Slots, work' = [work EXCEPT ![b] = s], Goto(b, "start"), UNCHANGED lockQueue
        PROVE  BuildTypeOK' /\ BuildInv'
    <3>1. work' \in [Builders \cup {Main} -> Slots \cup {None}]
      BY <2>2 DEF BuildTypeOK
    <3>2. ASSUME pc[Main] = "idle" PROVE manager' = None /\ \A t \in Slots : Owned(t)'
      BY <1>6, <2>1, <3>2
    <3> QED BY <1>0, <1>7, <2>1, <2>2, <3>1, <3>2 DEF BuildTypeOK
  <2> QED BY <1>10, <1>11, <2>1, <2>2 DEF Build
<1>12. CASE Start(b)
  <2>1. pc[b] = "start" /\ UNCHANGED manager
    BY <1>12 DEF Start
  <2>2. CASE /\ Goto(b, "sink") /\ UNCHANGED <<lockQueue, work>>
             /\ graph' = [graph EXCEPT ![work[b]] = "playing"]
    <3>1. \A s \in Slots : graph'[s] = IF s = work[b] THEN "playing" ELSE graph[s]
      BY <2>2 DEF PipeTypeOK
    <3>2. pc'[b] = "sink"
      BY <2>2 DEF Goto, BuildTypeOK
    <3>3. ASSUME pc[Main] = "idle" PROVE manager' = None /\ \A s \in Slots : Owned(s)'
      BY <1>6, <2>1, <2>2, <3>1, <3>2, <3>3
    <3> QED BY <1>0, <1>7, <2>1, <2>2, <3>3 DEF BuildTypeOK
  <2>3. CASE Finish(b) /\ UNCHANGED graph
    BY <1>10, <2>1, <2>3
  <2> QED BY <1>12, <2>2, <2>3 DEF Start
<1>13. CASE ReadSink(b)
  <2>1. pc[b] = "sink" /\ Goto(b, "store") /\ UNCHANGED <<lockQueue, manager, work, graph>>
    BY <1>13 DEF ReadSink
  <2>2. pc'[b] = "store"
    BY <2>1 DEF Goto, BuildTypeOK
  <2>3. ASSUME pc[Main] = "idle" PROVE manager' = None /\ \A s \in Slots : Owned(s)'
    BY <1>6, <2>1, <2>2, <2>3
  <2> QED BY <1>0, <1>7, <2>1, <2>3 DEF BuildTypeOK
<1>14. CASE Store(b)
  <2>1. pc[b] = "store" /\ Finish(b) /\ manager' = work[b]
    BY <1>14 DEF Store
  <2>2. manager' \in Slots \cup {None}
    BY <2>1 DEF BuildTypeOK
  <2>3. \A s \in Slots : graph'[s] \in {graph[s], "none"}
    BY <1>14 DEF Store
  <2>4. ASSUME pc[Main] = "idle" PROVE ManagerTaken' /\ GraphOwned'
    <3>1. manager = None /\ \A s \in Slots : Owned(s)
      BY <1>6, <2>1, <2>4
    <3>2. \A s \in Slots : graph[s] # "stopping" /\ (graph[s] = "playing" => s = work[b])
      BY <2>1, <3>1, NoneAssumption
    <3>3. GraphOwned'
      BY <2>1, <2>3, <3>2 DEF GraphOwned
    <3> QED BY <1>5, <2>1, <3>3 DEF ManagerTaken, Critical
  <2> QED BY <1>1, <1>5, <2>1, <2>2, <2>4 DEF BuildTypeOK, BuildInv
<1> QED BY <1>8, <1>9, <1>11, <1>12, <1>13, <1>14 DEF Rebuild

-----------------------------------------------------------------------------
(* The theorem *)

LEMMA PipelineInit == Init => IInv
<1> SUFFICES ASSUME Init PROVE IInv
  OBVIOUS
<1>1. PICK first \in Slots, ok \in BOOLEAN :
        /\ graph = [s \in Slots |-> IF s = first /\ ok THEN "playing" ELSE "none"]
        /\ running = [s \in Slots |-> s = first /\ ok]
        /\ bus = [s \in Slots |-> IF s = first /\ ok THEN "spawned" ELSE "none"]
        /\ flowing = [s \in Slots |-> s = first /\ ok]
        /\ manager = IF ok THEN first ELSE None
  BY DEF Init
<1>2. running \in [Slots -> BOOLEAN] /\ flowing \in [Slots -> BOOLEAN]
  BY <1>1, Zenon
<1>3. errored \in [Slots -> BOOLEAN] /\ encoding \in [Slots -> BOOLEAN]
  <2>1. errored = [s \in Slots |-> FALSE] /\ encoding = [s \in Slots |-> FALSE]
    BY DEF Init
  <2> QED BY <2>1, Zenon
<1>4. PipeTypeOK
  BY <1>1, <1>2, <1>3, SlotsAssumption DEF Init, PipeTypeOK
<1>5. BuildTypeOK
  <2>1. manager \in Slots \cup {None}
    BY <1>1
  <2>2. lockQueue \in Seq(Builders) /\ supervised \in BOOLEAN
    BY DEF Init
  <2> QED BY <2>1, <2>2 DEF Init, BuildTypeOK, BuilderPcs
<1>6. ViewerTypeOK /\ EnvTypeOK /\ ProfileChosen
  <2>1. sink \in BOOLEAN /\ signal \in BOOLEAN
    <3>1. sink = FALSE /\ signal = TRUE
      BY DEF Init
    <3> QED BY <3>1, Zenon
  <2>2. viewers \in 0..MaxViewers /\ faults \in 0..MaxFaults
    BY FaultsAssumption DEF Init
  <2>3. h264Profile = None /\ viewerPc = "none"
    BY DEF Init
  <2> QED BY <2>1, <2>2, <2>3 DEF ViewerTypeOK, EnvTypeOK, ViewerPcs, ProfileChosen
<1>7. \A b \in Builders : pc[b] = "idle"
  BY DEF Init
<1>8. LockHeld /\ ManagerTaken
  BY <1>7 DEF LockHeld, ManagerTaken, Critical
<1>9. GraphOwned
  BY <1>1 DEF GraphOwned
<1> QED BY <1>4, <1>5, <1>6, <1>8, <1>9, TypeParts DEF IInv, BuildInv

LEMMA PipelineStep == IInv /\ [Next]_vars => IInv'
<1> SUFFICES ASSUME IInv, [Next]_vars PROVE IInv'
  OBVIOUS
<1>1. ViewerTypeOK' /\ ProfileChosen' /\ PipeTypeOK' /\ EnvTypeOK'
  BY ViewerType, PipeType DEF IInv
<1>2. BuildTypeOK /\ PipeTypeOK /\ BuildInv
  BY TypeParts DEF IInv
<1>3. SUFFICES BuildTypeOK' /\ BuildInv'
  <2>1. TypeOK'
    BY <1>1, <1>3 DEF TypeOK, BuildTypeOK, PipeTypeOK, ViewerTypeOK, EnvTypeOK
  <2> QED BY <1>1, <1>3, <2>1 DEF IInv
<1>4. ASSUME /\ UNCHANGED <<manager, buildVars>>
             /\ \A s \in Slots : graph'[s] = graph[s] \/ graph'[s] \in {"none", "abandoned"}
      PROVE  BuildTypeOK' /\ BuildInv'
  BY <1>2, <1>4, GraphKept DEF buildVars
<1>5. ASSUME NEW s \in Slots, NullReached(s) \/ BusStart(s) \/ BusEnd(s) \/ GstError(s) \/ Wedge(s)
      PROVE  /\ UNCHANGED <<manager, buildVars>>
             /\ \A t \in Slots : graph'[t] = graph[t] \/ graph'[t] \in {"none", "abandoned"}
  BY <1>2, <1>5 DEF NullReached, BusStart, BusEnd, GstError, Wedge, PipeTypeOK
<1>6. ASSUME Viewer \/ ViewerDetach \/ (\E p \in Profiles \cup {None} : ViewerProfile(p)) \/ SignalLost \/ SignalBack
      PROVE  UNCHANGED <<manager, buildVars, graph>>
  BY <1>6 DEF Viewer, ViewerDetach, ViewerProfile, SignalLost, SignalBack, ViewerEncoderProfile, ViewerAttach,
     ViewerEncodes, ViewerPauses, pipeVars
<1>7. ASSUME UNCHANGED vars PROVE UNCHANGED <<manager, buildVars, graph>>
  BY <1>7 DEF vars, pipeVars
<1> QED BY <1>2, <1>4, <1>5, <1>6, <1>7, DecideStep, RebuildStep, ShutdownStep DEF Next

\* However restarts, supervisor ticks, faults and viewers interleave, and whatever stops hang: until
\* main shuts down, two pipelines hold the capture device only when a stop was given up on.
THEOREM PipelineInvHolds == Spec => []PipelineInv
<1>1. IInv => PipelineInv
  <2> SUFFICES ASSUME IInv, pc[Main] = "idle",
                      NEW s \in Slots, NEW t \in Slots, graph[s] = "playing", graph[t] # "none", s # t,
                      graph[t] # "abandoned"
               PROVE  FALSE
    BY DEF PipelineInv, OneEncoder, IInv
  <2>1. graph[t] \in {"playing", "stopping"}
    BY DEF IInv, TypeOK
  <2>2. \A b, c \in Builders : pc[b] \in Critical /\ pc[c] \in Critical => b = c
    BY DEF IInv, BuildInv, LockHeld
  <2>3. GraphOwned /\ ManagerTaken
    BY DEF IInv, BuildInv
  <2>4. s = manager \/ \E b \in Builders : work[b] = s /\ pc[b] \in {"sink", "store"}
    BY <2>3 DEF GraphOwned
  <2>5. t = manager \/ \E b \in Builders : work[b] = t /\ pc[b] \in {"sink", "store", "stopping"}
    BY <2>1, <2>3 DEF GraphOwned
  <2>6. CASE s = manager
    BY <2>3, <2>5, <2>6, NoneAssumption DEF ManagerTaken
  <2>7. CASE t = manager
    BY <2>3, <2>4, <2>7, NoneAssumption DEF ManagerTaken
  <2> QED BY <2>2, <2>4, <2>5, <2>6, <2>7 DEF Critical
<1> QED BY <1>1, PipelineInit, PipelineStep, PTL DEF Spec
=============================================================================
