---------------------------- MODULE VideoPipeline ---------------------------
(***************************************************************************)
(* The capture/encode pipeline of app/src/video.rs and app/src/pipeline.rs *)
(* and everybody who rebuilds it or configures it: the supervisor task,    *)
(* restartVideoPipeline calls, the shutdown at the end of main, and the    *)
(* connection handlers of the viewers, which set the H.264 profile, attach *)
(* the sink and open the encoder valve.                                    *)
(*                                                                         *)
(* A pipeline object lives in a slot, reused once nothing refers to it.    *)
(* Time is left out: a frame counter that moves is `flowing`, and the      *)
(* stall limit or a back-off has passed whenever the supervisor says so.   *)
(***************************************************************************)
EXTENDS Naturals, Sequences, FiniteSets

CONSTANTS
    Slots,          \* pipeline objects that may exist at the same time
    Restarters,     \* restartVideoPipeline calls, one restart each
    Profiles,       \* H.264 profiles a viewer may negotiate
    Configured,     \* the profile of the boot-time configuration
    MaxFaults,      \* bound: GStreamer errors, wedged captures, hanging stops, lost signals, failed starts
    MaxViewers,     \* bound: viewers that connect, one after the other
    MayShutdown,    \* whether SIGTERM may arrive
    None

ASSUME FaultsAssumption == MaxFaults \in Nat /\ MaxViewers \in Nat
ASSUME BoolAssumption == MayShutdown \in BOOLEAN
ASSUME NoneAssumption == None \notin Slots \cup Profiles
ASSUME SlotsAssumption == Slots # {} /\ Configured \in Profiles

Supervisor == "supervisor"
Main == "main"
Builders == Restarters \cup {Supervisor}
ASSUME RolesAssumption == {Supervisor, Main} \cap Restarters = {}

VARIABLES
    graph,       \* per slot: "none", "playing", "stopping" until set_state(Null) returns, or
                 \* "abandoned" when that takes longer than stop_pipeline waits
    running,     \* per slot: VideoPipeline.running
    bus,         \* per slot: the bus loop: "none", "spawned", "watching" or "ended"
    errored,     \* per slot: an error or EOS message waits on the bus
    flowing,     \* per slot: raw frames arrive from the capture device
    encoding,    \* per slot: the encoder valve is open
    profile,     \* per slot: the encoder's H.264 profile
    manager,     \* PIPELINE_MANAGER
    lockQueue,   \* RESTART_LOCK: FIFO, head = holder
    pc,          \* where each builder, and main's shutdown, is
    work,        \* the slot a builder (or main) is taking down or putting up
    supervised,  \* ~SUPERVISOR_STOPPED
    h264Profile, \* H264_PROFILE
    sink,        \* VIDEO_SINK is set
    viewerPc,    \* the connection handler of the current viewer
    viewers, faults,  \* how often each bound was used
    signal       \* the HDMI receiver has a signal

pipeVars   == <<graph, running, bus, errored, flowing, encoding, profile>>
viewerVars == <<h264Profile, sink, viewerPc, viewers>>
buildVars  == <<lockQueue, pc, work, supervised>>
envVars    == <<faults, signal>>
vars == <<pipeVars, manager, buildVars, viewerVars, envVars>>

BuilderPcs == {"idle", "lock", "check", "verdict", "stop", "stopping", "build", "start", "sink",
               "store", "done"}
ViewerPcs == {"none", "profile", "attach", "valve", "watching", "closeValve"}

TypeOK ==
    /\ graph \in [Slots -> {"none", "playing", "stopping", "abandoned"}]
    /\ running \in [Slots -> BOOLEAN]
    /\ bus \in [Slots -> {"none", "spawned", "watching", "ended"}]
    /\ errored \in [Slots -> BOOLEAN] /\ flowing \in [Slots -> BOOLEAN]
    /\ encoding \in [Slots -> BOOLEAN]
    /\ profile \in [Slots -> Profiles]
    /\ manager \in Slots \cup {None}
    /\ lockQueue \in Seq(Builders)
    /\ pc \in [Builders \cup {Main} -> BuilderPcs]
    /\ work \in [Builders \cup {Main} -> Slots \cup {None}]
    /\ supervised \in BOOLEAN
    /\ h264Profile \in Profiles \cup {None}
    /\ sink \in BOOLEAN /\ viewerPc \in ViewerPcs /\ viewers \in 0..MaxViewers
    /\ faults \in 0..MaxFaults /\ signal \in BOOLEAN

\* start_native_video_with_cli has run, before the supervisor and the web server exist: the
\* first pipeline plays with its bus loop about to run, or it failed.
Init ==
    \E first \in Slots, ok \in BOOLEAN :
        /\ graph = [s \in Slots |-> IF s = first /\ ok THEN "playing" ELSE "none"]
        /\ running = [s \in Slots |-> s = first /\ ok]
        /\ bus = [s \in Slots |-> IF s = first /\ ok THEN "spawned" ELSE "none"]
        /\ flowing = [s \in Slots |-> s = first /\ ok]
        /\ manager = IF ok THEN first ELSE None
        /\ errored = [s \in Slots |-> FALSE]
        /\ encoding = [s \in Slots |-> FALSE]
        /\ profile = [s \in Slots |-> Configured]
        /\ lockQueue = <<>> /\ supervised = TRUE
        /\ pc = [b \in Builders \cup {Main} |-> "idle"]
        /\ work = [b \in Builders \cup {Main} |-> None]
        /\ h264Profile = None /\ sink = FALSE /\ viewerPc = "none" /\ viewers = 0
        /\ faults = 0 /\ signal = TRUE

Goto(b, l) == pc' = [pc EXCEPT ![b] = l]

-----------------------------------------------------------------------------
(* Who may rebuild: RESTART_LOCK *)

\* restart_video_pipeline: RESTART_LOCK.lock().await, in FIFO order.
RequestRestart(r) ==
    /\ pc[r] = "idle"
    /\ Goto(r, "lock")
    /\ lockQueue' = Append(lockQueue, r)
    /\ UNCHANGED <<pipeVars, manager, work, supervised, viewerVars, envVars>>

\* Mutant: restart_video_pipeline without RESTART_LOCK.
RestartUnlocked(r) ==
    /\ pc[r] = "lock"
    /\ Goto(r, "stop")
    /\ UNCHANGED <<pipeVars, manager, lockQueue, work, supervised, viewerVars, envVars>>

RestartLocked(r) ==
    /\ pc[r] = "lock" /\ lockQueue # <<>> /\ Head(lockQueue) = r
    /\ Goto(r, "stop")
    /\ UNCHANGED <<pipeVars, manager, lockQueue, work, supervised, viewerVars, envVars>>

\* A supervisor tick: look again next time when somebody else is rebuilding (try_lock).
SupervisorTick ==
    /\ pc[Supervisor] = "idle" /\ supervised
    /\ lockQueue = <<>>
    /\ lockQueue' = <<Supervisor>>
    /\ Goto(Supervisor, "check")
    /\ UNCHANGED <<pipeVars, manager, work, supervised, viewerVars, envVars>>

\* The holder's lock guard goes out of scope.
Release(b, l) == Goto(b, l) /\ lockQueue' = Tail(lockQueue)

\* Mutant: the supervisor only rebuilds a pipeline whose bus loop saw an error.
CheckRunningOnly ==
    /\ pc[Supervisor] = "check"
    /\ IF manager # None /\ running[manager]
         THEN Release(Supervisor, "idle")
         ELSE Goto(Supervisor, "stop") /\ UNCHANGED lockQueue
    /\ UNCHANGED <<pipeVars, manager, work, supervised, viewerVars, envVars>>

\* is_video_pipeline_running, then LiveCheck::check up to its awaits: the frame count is
\* sampled here and judged after the probe has been asked.
SupervisorCheck ==
    /\ pc[Supervisor] = "check"
    /\ CASE manager = None \/ ~running[manager] -> Goto(Supervisor, "stop") /\ UNCHANGED lockQueue
         [] manager # None /\ running[manager] /\ flowing[manager] -> Release(Supervisor, "idle")
         [] OTHER -> Goto(Supervisor, "verdict") /\ UNCHANGED lockQueue
    /\ UNCHANGED <<pipeVars, manager, work, supervised, viewerVars, envVars>>

\* No new frame and a signal (or a probe that cannot tell): rebuild past the limit.
SupervisorStalled ==
    /\ pc[Supervisor] = "verdict"
    /\ Goto(Supervisor, "stop")
    /\ UNCHANGED <<pipeVars, manager, lockQueue, work, supervised, viewerVars, envVars>>

\* ... and wait for the limit, or for the signal to return.
SupervisorWaits ==
    /\ pc[Supervisor] = "verdict"
    /\ Release(Supervisor, "idle")
    /\ UNCHANGED <<pipeVars, manager, work, supervised, viewerVars, envVars>>

-----------------------------------------------------------------------------
(* stop_pipeline and start_pipeline *)

\* PIPELINE_MANAGER.lock().take(); manager.stop() runs on a blocking thread.
TakeDown(b, next) ==
    /\ pc[b] = "stop"
    /\ IF manager = None
         THEN Goto(b, next) /\ UNCHANGED <<graph, running, manager, work>>
         ELSE /\ Goto(b, "stopping")
              /\ work' = [work EXCEPT ![b] = manager]
              /\ running' = [running EXCEPT ![manager] = FALSE]
              /\ graph' = [graph EXCEPT ![manager] = "stopping"]
              /\ manager' = None
    /\ UNCHANGED <<bus, errored, flowing, encoding, profile, lockQueue, supervised, viewerVars, envVars>>

\* set_state(Null) returns: the encoder and the capture device are free.
NullReached(s) ==
    /\ graph[s] \in {"stopping", "abandoned"}
    /\ graph' = [graph EXCEPT ![s] = "none"]
    /\ flowing' = [flowing EXCEPT ![s] = FALSE]
    /\ UNCHANGED <<running, bus, errored, encoding, profile, manager, buildVars, viewerVars, envVars>>

\* The stop task ended.
StopReturns(b, next) ==
    /\ pc[b] = "stopping" /\ graph[work[b]] = "none"
    /\ Goto(b, next)
    /\ work' = [work EXCEPT ![b] = None]
    /\ UNCHANGED <<pipeVars, manager, lockQueue, supervised, viewerVars, envVars>>

\* ... or its 5 s passed and the caller goes on without it.
StopTimesOut(b, next) ==
    /\ pc[b] = "stopping" /\ graph[work[b]] = "stopping"
    /\ faults < MaxFaults /\ faults' = faults + 1
    /\ graph' = [graph EXCEPT ![work[b]] = "abandoned"]
    /\ Goto(b, next)
    /\ work' = [work EXCEPT ![b] = None]
    /\ UNCHANGED <<running, bus, errored, flowing, encoding, profile, manager, lockQueue, supervised,
                   viewerVars, signal>>

Unused(s) ==
    graph[s] = "none" /\ manager # s /\ bus[s] \in {"none", "ended"} /\ \A b \in Builders : work[b] # s

\* A build or a start failed: the supervisor backs off, an RPC call reports the error.
Finish(b) == Release(b, IF b = Supervisor THEN "idle" ELSE "done") /\ work' = [work EXCEPT ![b] = None]

\* The viewer's profile is read, the graph is built paused and set_state_callback spawns the
\* bus loop, before start() sets `running`.
Build(b) ==
    /\ pc[b] = "build"
    /\ \/ \E s \in Slots :
            /\ Unused(s)
            /\ work' = [work EXCEPT ![b] = s]
            /\ profile' = [profile EXCEPT ![s] = IF h264Profile = None THEN Configured ELSE h264Profile]
            /\ encoding' = [encoding EXCEPT ![s] = FALSE]
            /\ errored' = [errored EXCEPT ![s] = FALSE]
            /\ bus' = [bus EXCEPT ![s] = "spawned"]
            /\ Goto(b, "start") /\ UNCHANGED <<lockQueue, faults>>
       \/ faults < MaxFaults /\ faults' = faults + 1 /\ Finish(b)
          /\ UNCHANGED <<profile, encoding, errored, bus>>
    /\ UNCHANGED <<graph, running, flowing, manager, supervised, viewerVars, signal>>

\* start(): Playing, then `running`.  Frames arrive when there is a signal and nobody else
\* holds the capture queue.  A failed start drops the pipeline.
Start(b) ==
    /\ pc[b] = "start"
    /\ \/ /\ Goto(b, "sink")
          /\ graph' = [graph EXCEPT ![work[b]] = "playing"]
          /\ running' = [running EXCEPT ![work[b]] = TRUE]
          /\ flowing' = [flowing EXCEPT ![work[b]] = signal /\ \A s \in Slots : graph[s] = "none"]
          /\ UNCHANGED <<lockQueue, work, faults>>
       \/ faults < MaxFaults /\ faults' = faults + 1 /\ Finish(b)
          /\ UNCHANGED <<graph, running, flowing>>
    /\ UNCHANGED <<bus, errored, encoding, profile, manager, supervised, viewerVars, signal>>

\* "A restarted pipeline comes up paused; resume it if a viewer is attached."
ReadSink(b) ==
    /\ pc[b] = "sink"
    /\ encoding' = [encoding EXCEPT ![work[b]] = sink]
    /\ Goto(b, "store")
    /\ UNCHANGED <<graph, running, bus, errored, flowing, profile, manager, lockQueue, work, supervised,
                   viewerVars, envVars>>

\* PIPELINE_MANAGER = Some(manager); a manager found there would be dropped and so stopped.
Store(b) ==
    /\ pc[b] = "store"
    /\ manager' = work[b]
    /\ graph' = [s \in Slots |-> IF s = manager THEN "none" ELSE graph[s]]
    /\ running' = [s \in Slots |-> running[s] /\ s # manager]
    /\ flowing' = [s \in Slots |-> flowing[s] /\ s # manager]
    /\ Finish(b)
    /\ UNCHANGED <<bus, errored, encoding, profile, supervised, viewerVars, envVars>>

Rebuild(b) ==
    \/ TakeDown(b, "build") \/ StopReturns(b, "build") \/ StopTimesOut(b, "build")
    \/ Build(b) \/ Start(b) \/ ReadSink(b) \/ Store(b)

-----------------------------------------------------------------------------
(* shutdown_video_pipeline, at the end of main: it does not take RESTART_LOCK *)

ShutdownStart ==
    /\ MayShutdown /\ pc[Main] = "idle"
    /\ supervised' = FALSE
    /\ Goto(Main, "stop")
    /\ UNCHANGED <<pipeVars, manager, lockQueue, work, viewerVars, envVars>>

\* VIDEO_SINK is cleared; the process exits right after.
ShutdownDone ==
    /\ pc[Main] = "sink"
    /\ sink' = FALSE
    /\ Goto(Main, "done")
    /\ UNCHANGED <<pipeVars, manager, lockQueue, work, supervised, h264Profile, viewerPc, viewers, envVars>>

Shutdown ==
    \/ ShutdownStart \/ TakeDown(Main, "sink")
    \/ StopReturns(Main, "sink") \/ StopTimesOut(Main, "sink") \/ ShutdownDone

-----------------------------------------------------------------------------
(* The bus loop of one pipeline *)

\* The first look at `running`: a loop that gets its thread before start() ends at once.
BusStart(s) ==
    /\ bus[s] = "spawned"
    /\ bus' = [bus EXCEPT ![s] = IF running[s] THEN "watching" ELSE "ended"]
    /\ UNCHANGED <<graph, running, errored, flowing, encoding, profile, manager, buildVars, viewerVars,
                   envVars>>

\* An error or EOS message, or `running` cleared by stop().
BusEnd(s) ==
    /\ bus[s] = "watching" /\ (errored[s] \/ ~running[s])
    /\ bus' = [bus EXCEPT ![s] = "ended"]
    /\ running' = [running EXCEPT ![s] = FALSE]
    /\ UNCHANGED <<graph, errored, flowing, encoding, profile, manager, buildVars, viewerVars, envVars>>

-----------------------------------------------------------------------------
(* A viewer's connection handler, as far as it calls into video.rs *)

\* A session connects.  set_h264_profile replaces H264_PROFILE, with nothing more to do if it
\* was the same; it is not called when no H.264 profile was negotiated (None).
ViewerProfile(p) ==
    /\ viewerPc \in {"none", "watching"} /\ viewers < MaxViewers
    /\ viewers' = viewers + 1
    /\ h264Profile' = IF p = None THEN h264Profile ELSE p
    /\ viewerPc' = IF p \in {None, h264Profile} THEN "attach" ELSE "profile"
    /\ UNCHANGED <<pipeVars, manager, buildVars, sink, envVars>>

\* ... then the running encoder is switched, if there is one.
ViewerEncoderProfile ==
    /\ viewerPc = "profile"
    /\ viewerPc' = "attach"
    /\ profile' = [s \in Slots |-> IF s = manager THEN h264Profile ELSE profile[s]]
    /\ UNCHANGED <<graph, running, bus, errored, flowing, encoding, manager, buildVars, h264Profile, sink,
                   viewers, envVars>>

ViewerAttach ==
    /\ viewerPc = "attach"
    /\ viewerPc' = "valve"
    /\ sink' = TRUE
    /\ UNCHANGED <<pipeVars, manager, buildVars, h264Profile, viewers, envVars>>

\* set_encoding_active, which is a no-op without a manager.
SetEncodingActive(active) == encoding' = [s \in Slots |-> IF s = manager THEN active ELSE encoding[s]]

ViewerEncodes ==
    /\ viewerPc = "valve"
    /\ viewerPc' = "watching"
    /\ SetEncodingActive(TRUE)
    /\ UNCHANGED <<graph, running, bus, errored, flowing, profile, manager, buildVars, h264Profile, sink,
                   viewers, envVars>>

\* detach_webrtc_sink, called when the last session closes.
ViewerDetach ==
    /\ viewerPc = "watching"
    /\ viewerPc' = "closeValve"
    /\ sink' = FALSE
    /\ UNCHANGED <<pipeVars, manager, buildVars, h264Profile, viewers, envVars>>

ViewerPauses ==
    /\ viewerPc = "closeValve"
    /\ viewerPc' = "none"
    /\ SetEncodingActive(FALSE)
    /\ UNCHANGED <<graph, running, bus, errored, flowing, profile, manager, buildVars, h264Profile, sink,
                   viewers, envVars>>

Viewer == ViewerEncoderProfile \/ ViewerAttach \/ ViewerEncodes \/ ViewerPauses

-----------------------------------------------------------------------------
(* The capture hardware *)

Fault(s) == graph[s] = "playing" /\ faults < MaxFaults /\ faults' = faults + 1

\* GStreamer posts an error: the capture ends.
GstError(s) ==
    /\ Fault(s)
    /\ errored' = [errored EXCEPT ![s] = TRUE]
    /\ flowing' = [flowing EXCEPT ![s] = FALSE]
    /\ UNCHANGED <<graph, running, bus, encoding, profile, manager, buildVars, viewerVars, signal>>

\* The capture stream wedges without a message.
Wedge(s) ==
    /\ Fault(s) /\ flowing[s]
    /\ flowing' = [flowing EXCEPT ![s] = FALSE]
    /\ UNCHANGED <<graph, running, bus, errored, encoding, profile, manager, buildVars, viewerVars, signal>>

SignalLost ==
    /\ signal /\ faults < MaxFaults
    /\ signal' = FALSE /\ faults' = faults + 1
    /\ flowing' = [s \in Slots |-> FALSE]
    /\ UNCHANGED <<graph, running, bus, errored, encoding, profile, manager, buildVars, viewerVars>>

\* The signal returns; capture may resume by itself or stay wedged.
SignalBack ==
    /\ ~signal
    /\ signal' = TRUE
    /\ flowing' \in [Slots -> BOOLEAN]
    /\ \A s \in Slots : flowing'[s] => /\ graph[s] = "playing" /\ ~errored[s]
                                       /\ \A t \in Slots \ {s} : graph[t] = "none"
    /\ UNCHANGED <<graph, running, bus, errored, encoding, profile, manager, buildVars, viewerVars, faults>>

\* What runs on after ShutdownDone is cut short by process::exit, a moment later.
Next ==
    \/ \E r \in Restarters : RequestRestart(r) \/ RestartLocked(r)
    \/ SupervisorTick \/ SupervisorCheck \/ SupervisorStalled \/ SupervisorWaits
    \/ \E b \in Builders : Rebuild(b)
    \/ Shutdown
    \/ \E s \in Slots : NullReached(s) \/ BusStart(s) \/ BusEnd(s) \/ GstError(s) \/ Wedge(s)
    \/ Viewer \/ ViewerDetach
    \/ \E p \in Profiles \cup {None} : ViewerProfile(p)
    \/ SignalLost \/ SignalBack

Spec == Init /\ [][Next]_vars

\* The runtime polls its tasks and the blocking threads run; ticks keep coming, so a stall
\* that lasts is past its limit at some later look (the limit is at most RESTART_BACKOFF_MAX).
\* Nothing is assumed of viewers, of RPC callers, of the signal or of SIGTERM.
Fairness ==
    /\ \A b \in Builders : WF_vars(Rebuild(b))
    /\ \A r \in Restarters : WF_vars(RestartLocked(r))
    /\ SF_vars(SupervisorTick) /\ WF_vars(SupervisorCheck)
    /\ WF_vars(SupervisorStalled \/ SupervisorWaits) /\ SF_vars(signal /\ SupervisorStalled)
    /\ \A s \in Slots : WF_vars(NullReached(s)) /\ WF_vars(BusStart(s) \/ BusEnd(s))
    /\ WF_vars(Viewer)

FairSpec == Spec /\ Fairness

-----------------------------------------------------------------------------
(* Properties *)

\* The promise of RESTART_LOCK ("Without it ... two encoders, the capture queue busy"): two
\* pipelines hold the capture device only when the older one's stop was given up on after
\* 5 s, or when main is shutting down.
OneEncoder ==
    pc[Main] = "idle" =>
        \A s, t \in Slots : graph[s] = "playing" /\ graph[t] # "none" /\ s # t
                            => graph[t] = "abandoned"

\* The state stays in its type and the encoder is one.
PipelineInv == TypeOK /\ OneEncoder

\* The supervisor's purpose: once faults stop and the signal stays, the pipeline runs and
\* captures, whatever errors, wedges, failed rebuilds and RPC restarts came before.
CaptureRecovers ==
    <>[](signal /\ pc[Main] = "idle") => <>[](manager # None /\ running[manager] /\ flowing[manager])
=============================================================================
