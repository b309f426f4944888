------------------------------ MODULE HidMacro ------------------------------
(***************************************************************************)
(* The keyboard-macro lane of app/src/hidrpc/dispatcher.rs.                *)
(*                                                                         *)
(* Every macro (web UI paste, typeText, pressCombo, executeKeyboardMacro)  *)
(* is a tokio task that waits for MACRO_LANE, publishes its cancellation   *)
(* token in DISPATCHER.running_macro, types its reports and leaves.  A     *)
(* cancel request bumps CANCEL_ALL_EPOCH, cancels the published token and  *)
(* waits for the lane; the close of a hidrpc data channel bumps            *)
(* CHANNEL_EPOCH and cancels the published token of a macro that came from *)
(* a data channel.  One step of this specification is what a task does     *)
(* between two points where another thread can get in.                     *)
(***************************************************************************)
EXTENDS Naturals, Sequences

CONSTANTS
    Macros,        \* macro tasks
    Cancellers,    \* callers of cancel_macro
    Channels,      \* reliable hidrpc data channels, one per browser session
    Reports,       \* Reports[m]: TRUE for a step that holds keys, FALSE for a release
    HidErrors,     \* whether keyboard_report may fail (writer thread gone, no HID)
    None

ASSUME ReportsAssumption == Reports \in [Macros -> Seq(BOOLEAN)]
ASSUME HidErrorsAssumption == HidErrors \in BOOLEAN
ASSUME NoneAssumption == None \notin Macros \cup Channels
ASSUME ActorsAssumption == Macros \cap Cancellers = {}

VARIABLES
    macroPc,         \* where each macro task is
    lane,            \* MACRO_LANE: tokio's mutex hands over in FIFO order, head = holder
    epochs,          \* epochs[m]: the two epochs start_macro captured
    origin,          \* origin[m]: the data channel a macro came from, None for the RPC API
    stepIx,          \* next step of run_macro
    outcome,         \* what the done_tx receiver learns
    running,         \* DISPATCHER.running_macro
    tokenCancelled,  \* the state of each macro's CancellationToken
    cancelPc,        \* where each cancel request is
    cancelEpoch,     \* the epoch each request's fetch_add produced, 0 before it
    cancelAllEpoch,  \* CANCEL_ALL_EPOCH
    channelEpoch,    \* CHANNEL_EPOCH
    reliable,        \* DISPATCHER.reliable_channel
    chanState,       \* life of each data channel
    keysDown         \* Hid.keys_down: None when released, else who pressed them last

taskVars   == <<macroPc, epochs, origin, stepIx, outcome>>
cancelVars == <<cancelPc, cancelEpoch, cancelAllEpoch>>
chanVars   == <<channelEpoch, reliable, chanState>>
vars == <<taskVars, lane, running, tokenCancelled, cancelVars, chanVars, keysDown>>

\* The owner of keys pressed by a person at the browser.
User == "user"

\* States of a macro task between taking the lane and leaving it.
Typing   == {"begin", "step", "delay", "aborted", "typed"}
Critical == {"checked", "published"} \cup Typing

TypeOK ==
    /\ macroPc \in [Macros -> {"idle", "spawned", "waiting", "done"} \cup Critical]
    /\ lane \in Seq(Macros \cup Cancellers)
    /\ epochs \in [Macros -> [all : Nat, channel : Nat]]
    /\ origin \in [Macros -> Channels \cup {None}]
    /\ stepIx \in [Macros -> Nat]
    /\ outcome \in [Macros -> {"pending", "completed", "dropped"}]
    /\ running \in Macros \cup {None}
    /\ tokenCancelled \in [Macros -> BOOLEAN]
    /\ cancelPc \in [Cancellers -> {"idle", "bumped", "queueing", "waiting", "returned"}]
    /\ cancelEpoch \in [Cancellers -> Nat]
    /\ cancelAllEpoch \in Nat
    /\ channelEpoch \in Nat
    /\ reliable \in Channels \cup {None}
    /\ chanState \in [Channels -> {"new", "open", "closed"}]
    /\ keysDown \in Macros \cup {User, None}

Init ==
    /\ macroPc = [m \in Macros |-> "idle"]
    /\ lane = <<>>
    /\ epochs = [m \in Macros |-> [all |-> 0, channel |-> 0]]
    /\ origin = [m \in Macros |-> None]
    /\ stepIx = [m \in Macros |-> 1]
    /\ outcome = [m \in Macros |-> "pending"]
    /\ running = None
    /\ tokenCancelled = [m \in Macros |-> FALSE]
    /\ cancelPc = [c \in Cancellers |-> "idle"]
    /\ cancelEpoch = [c \in Cancellers |-> 0]
    /\ cancelAllEpoch = 0
    /\ channelEpoch = 0
    /\ reliable = None
    /\ chanState = [ch \in Channels |-> "new"]
    /\ keysDown = None

-----------------------------------------------------------------------------
(* The macro task *)

\* The `cancelled` closure of start_macro.
Cancelled(m) ==
    \/ epochs[m].all # cancelAllEpoch
    \/ origin[m] # None /\ epochs[m].channel # channelEpoch

Goto(m, pc) == macroPc' = [macroPc EXCEPT ![m] = pc]

Holds(p) == lane # <<>> /\ Head(lane) = p

\* start_macro up to tokio::spawn: from an open data channel (dispatch) or from the
\* RPC API (play_macro).  Both epochs are read before the task exists.
StartMacro(m, ch) ==
    /\ macroPc[m] = "idle"
    /\ ch # None => chanState[ch] = "open"
    /\ Goto(m, "spawned")
    /\ origin' = [origin EXCEPT ![m] = ch]
    /\ epochs' = [epochs EXCEPT ![m] = [all |-> cancelAllEpoch, channel |-> channelEpoch]]
    /\ UNCHANGED <<lane, stepIx, outcome, running, tokenCancelled, cancelVars, chanVars, keysDown>>

\* The spawned task's first poll: MACRO_LANE.lock().await joins the queue.
JoinLane(m) ==
    /\ macroPc[m] = "spawned"
    /\ Goto(m, "waiting")
    /\ lane' = Append(lane, m)
    /\ UNCHANGED <<epochs, origin, stepIx, outcome, running, tokenCancelled, cancelVars, chanVars,
                   keysDown>>

\* The task returns: the lane guard and done_tx are dropped.
Leave(m, result) ==
    /\ Goto(m, "done")
    /\ outcome' = [outcome EXCEPT ![m] = result]
    /\ lane' = Tail(lane)

\* Mutant: a cancelled task ends without dropping the lane guard.
EnterKeepsLane(m) ==
    /\ macroPc[m] = "waiting"
    /\ Holds(m)
    /\ IF Cancelled(m)
         THEN Goto(m, "done") /\ outcome' = [outcome EXCEPT ![m] = "dropped"]
         ELSE Goto(m, "checked") /\ UNCHANGED outcome
    /\ UNCHANGED <<lane, epochs, origin, stepIx, running, tokenCancelled, cancelVars, chanVars, keysDown>>

\* The lane is ours: the first cancelled() check.
EnterLane(m) ==
    /\ macroPc[m] = "waiting"
    /\ Holds(m)
    /\ IF Cancelled(m)
         THEN Leave(m, "dropped")
         ELSE Goto(m, "checked") /\ UNCHANGED <<outcome, lane>>
    /\ UNCHANGED <<epochs, origin, stepIx, running, tokenCancelled, cancelVars, chanVars, keysDown>>

\* DISPATCHER.lock().running_macro = Some((token, from_channel)).
PublishToken(m) ==
    /\ macroPc[m] = "checked"
    /\ Goto(m, "published")
    /\ running' = m
    /\ UNCHANGED <<lane, epochs, origin, stepIx, outcome, tokenCancelled, cancelVars, chanVars, keysDown>>

\* Mutant: no second check after the token is published.
NoRecheck(m) ==
    /\ macroPc[m] = "published"
    /\ Goto(m, "begin")
    /\ UNCHANGED <<lane, epochs, origin, stepIx, outcome, running, tokenCancelled, cancelVars, chanVars,
                   keysDown>>

\* Mutant: the second check returns without clearing running_macro.
RecheckKeepsToken(m) ==
    /\ macroPc[m] = "published"
    /\ IF Cancelled(m)
         THEN Leave(m, "dropped")
         ELSE Goto(m, "begin") /\ UNCHANGED <<outcome, lane>>
    /\ UNCHANGED <<epochs, origin, stepIx, running, tokenCancelled, cancelVars, chanVars, keysDown>>

\* "A cancel between the check above and publishing the token would miss it."
Recheck(m) ==
    /\ macroPc[m] = "published"
    /\ IF Cancelled(m)
         THEN Leave(m, "dropped") /\ running' = None
         ELSE Goto(m, "begin") /\ UNCHANGED <<outcome, lane, running>>
    /\ UNCHANGED <<epochs, origin, stepIx, tokenCancelled, cancelVars, chanVars, keysDown>>

\* send_reliable(begin).await completes; usb_hid() may find no HID.
SendBegin(m) ==
    /\ macroPc[m] = "begin"
    /\ \/ Goto(m, "step")
       \/ HidErrors /\ Goto(m, "aborted")
    /\ UNCHANGED <<lane, epochs, origin, stepIx, outcome, running, tokenCancelled, cancelVars, chanVars,
                   keysDown>>

\* One round of run_macro's loop up to the await: finish, notice the cancel, or send the
\* report.  keyboard_report overwrites keys_down before it can fail.
RunStep(m) ==
    /\ macroPc[m] = "step"
    /\ \/ /\ stepIx[m] > Len(Reports[m])
          /\ Goto(m, "typed")
          /\ UNCHANGED keysDown
       \/ /\ stepIx[m] <= Len(Reports[m])
          /\ tokenCancelled[m]
          /\ Goto(m, "aborted")
          /\ UNCHANGED keysDown
       \/ /\ stepIx[m] <= Len(Reports[m])
          /\ ~tokenCancelled[m]
          /\ Goto(m, "delay") \/ (HidErrors /\ Goto(m, "aborted"))
          /\ keysDown' = IF Reports[m][stepIx[m]] THEN m ELSE None
    /\ UNCHANGED <<lane, epochs, origin, stepIx, outcome, running, tokenCancelled, cancelVars, chanVars>>

\* The sleep branch of the select!.  A token cancelled meanwhile does not disable it:
\* select! picks at random among its ready branches.
DelayElapsed(m) ==
    /\ macroPc[m] = "delay"
    /\ Goto(m, "step")
    /\ stepIx' = [stepIx EXCEPT ![m] = @ + 1]
    /\ UNCHANGED <<lane, epochs, origin, outcome, running, tokenCancelled, cancelVars, chanVars, keysDown>>

\* The cancelled branch of the select!: release every key.
DelayCancelled(m) ==
    /\ macroPc[m] = "delay"
    /\ tokenCancelled[m]
    /\ Goto(m, "aborted")
    /\ keysDown' = None
    /\ UNCHANGED <<lane, epochs, origin, stepIx, outcome, running, tokenCancelled, cancelVars, chanVars>>

\* Mutant: the result of run_macro is not looked at.
EndMacroCompleted(m) ==
    /\ macroPc[m] \in {"typed", "aborted"}
    /\ running' = None
    /\ Leave(m, "completed")
    /\ UNCHANGED <<epochs, origin, stepIx, tokenCancelled, cancelVars, chanVars, keysDown>>

\* send_reliable(end).await completes: the slot is cleared, done_tx fires if run_macro
\* returned true, the lane is released.
EndMacro(m) ==
    /\ macroPc[m] \in {"typed", "aborted"}
    /\ running' = None
    /\ Leave(m, IF macroPc[m] = "typed" THEN "completed" ELSE "dropped")
    /\ UNCHANGED <<epochs, origin, stepIx, tokenCancelled, cancelVars, chanVars, keysDown>>

MacroTask(m) ==
    \/ JoinLane(m) \/ EnterLane(m) \/ PublishToken(m) \/ Recheck(m) \/ SendBegin(m)
    \/ RunStep(m) \/ DelayElapsed(m) \/ DelayCancelled(m) \/ EndMacro(m)
-----------------------------------------------------------------------------
(* A cancel request: CancelKeyboardMacroReport or cancelKeyboardMacro *)

\* CANCEL_ALL_EPOCH.fetch_add(1).
BumpEpoch(c) ==
    /\ cancelPc[c] = "idle"
    /\ cancelPc' = [cancelPc EXCEPT ![c] = "bumped"]
    /\ cancelAllEpoch' = cancelAllEpoch + 1
    /\ cancelEpoch' = [cancelEpoch EXCEPT ![c] = cancelAllEpoch + 1]
    /\ UNCHANGED <<taskVars, lane, running, tokenCancelled, chanVars, keysDown>>

\* Under the DISPATCHER lock: cancel the published token, if there is one.
CancelToken(c) ==
    /\ cancelPc[c] = "bumped"
    /\ cancelPc' = [cancelPc EXCEPT ![c] = "queueing"]
    /\ tokenCancelled' = [m \in Macros |-> tokenCancelled[m] \/ m = running]
    /\ UNCHANGED <<taskVars, lane, running, cancelEpoch, cancelAllEpoch, chanVars, keysDown>>

\* Mutant: the request returns without waiting for the lane.
CancelWithoutLane(c) ==
    /\ cancelPc[c] = "queueing"
    /\ cancelPc' = [cancelPc EXCEPT ![c] = "returned"]
    /\ UNCHANGED <<taskVars, lane, running, tokenCancelled, cancelEpoch, cancelAllEpoch, chanVars,
                   keysDown>>

\* MACRO_LANE.lock().await, first poll.
AwaitLane(c) ==
    /\ cancelPc[c] = "queueing"
    /\ cancelPc' = [cancelPc EXCEPT ![c] = "waiting"]
    /\ lane' = Append(lane, c)
    /\ UNCHANGED <<taskVars, running, tokenCancelled, cancelEpoch, cancelAllEpoch, chanVars, keysDown>>

\* The lane was granted: drop the guard and return to the caller.
ReturnToCaller(c) ==
    /\ cancelPc[c] = "waiting"
    /\ Holds(c)
    /\ cancelPc' = [cancelPc EXCEPT ![c] = "returned"]
    /\ lane' = Tail(lane)
    /\ UNCHANGED <<taskVars, running, tokenCancelled, cancelEpoch, cancelAllEpoch, chanVars, keysDown>>

CancelTask(c) == CancelToken(c) \/ AwaitLane(c) \/ ReturnToCaller(c)

-----------------------------------------------------------------------------
(* Data channels and interactive input *)

\* setup_hidrpc_channel: the newest reliable channel takes the slot.
OpenChannel(ch) ==
    /\ chanState[ch] = "new"
    /\ chanState' = [chanState EXCEPT ![ch] = "open"]
    /\ reliable' = ch
    /\ UNCHANGED <<taskVars, lane, running, tokenCancelled, cancelVars, channelEpoch, keysDown>>

\* Mutant: clear_reliable_channel cancels whatever macro is running.
CloseCancelsAny(ch) ==
    /\ chanState[ch] = "open"
    /\ chanState' = [chanState EXCEPT ![ch] = "closed"]
    /\ reliable' = None
    /\ channelEpoch' = channelEpoch + 1
    /\ tokenCancelled' = [m \in Macros |-> tokenCancelled[m] \/ m = running]
    /\ UNCHANGED <<taskVars, lane, running, cancelVars, keysDown>>

\* on_close of a reliable channel: clear_reliable_channel, whichever channel it was.
CloseChannel(ch) ==
    /\ chanState[ch] = "open"
    /\ chanState' = [chanState EXCEPT ![ch] = "closed"]
    /\ reliable' = None
    /\ channelEpoch' = channelEpoch + 1
    /\ tokenCancelled' = [m \in Macros |-> tokenCancelled[m] \/ (m = running /\ origin[m] # None)]
    /\ UNCHANGED <<taskVars, lane, running, cancelVars, keysDown>>

\* dispatch of a KeyboardReport or KeypressReport from the browser: it shares keys_down
\* with the macro being typed and does not take the lane.
UserReport(owner) ==
    /\ \E ch \in Channels : chanState[ch] = "open"
    /\ keysDown' = owner
    /\ UNCHANGED <<taskVars, lane, running, tokenCancelled, cancelVars, chanVars>>

Next ==
    \/ \E m \in Macros : MacroTask(m) \/ \E ch \in Channels \cup {None} : StartMacro(m, ch)
    \/ \E c \in Cancellers : BumpEpoch(c) \/ CancelTask(c)
    \/ \E ch \in Channels : OpenChannel(ch) \/ CloseChannel(ch)
    \/ \E owner \in {User, None} : UserReport(owner)

Spec == Init /\ [][Next]_vars

\* The tokio scheduler polls every ready task, timers fire, and an SCTP send completes
\* or fails: a task that is not blocked on the lane keeps moving.
Fairness ==
    /\ \A m \in Macros : WF_vars(MacroTask(m))
    /\ \A c \in Cancellers : WF_vars(CancelTask(c))

FairSpec == Spec /\ Fairness

-----------------------------------------------------------------------------
(* Properties *)

\* The lane's promise (dispatcher.rs, MACRO_LANE): one macro types at a time, and the
\* token a cancel finds in running_macro is the token of that macro, never a stale one.
RunningIsTheTypist ==
    /\ \A m, n \in Macros : macroPc[m] \in Critical /\ macroPc[n] \in Critical => m = n
    /\ \A m \in Macros : (running = m) <=> (macroPc[m] \in Typing \cup {"published"})

\* Once a cancel request has looked at running_macro, every macro started before the
\* request that is still typing has its token cancelled (the window the comment on the
\* second cancelled() check is about); the same for the close of a data channel.
NoMacroMissesCancel ==
    \A m \in Macros : macroPc[m] \in Typing =>
        /\ \A c \in Cancellers :
              cancelPc[c] \in {"queueing", "waiting", "returned"} /\ epochs[m].all < cancelEpoch[c]
              => tokenCancelled[m]
        /\ origin[m] # None /\ epochs[m].channel # channelEpoch => tokenCancelled[m]

\* After cancel_macro has returned, no macro started before the request is on the lane's
\* inside: whatever the host sees typed from now on was asked for after the cancel.
CancelIsFinal ==
    \A c \in Cancellers, m \in Macros :
        cancelPc[c] = "returned" /\ macroPc[m] \in Critical => epochs[m].all >= cancelEpoch[c]

\* The close of a browser's data channel never stops a macro of the RPC API (CHANNEL_EPOCH:
\* "drops only macros it started", for macros no channel started).
CloseSparesRpcMacros ==
    [][\A ch \in Channels, m \in Macros :
         chanState[ch] = "open" /\ chanState'[ch] = "closed" /\ origin[m] = None
         => tokenCancelled'[m] = tokenCancelled[m] /\ Cancelled(m)' = Cancelled(m)]_vars

\* Every macro that was started leaves the lane.
MacrosFinish == \A m \in Macros : macroPc[m] = "spawned" ~> macroPc[m] = "done"

\* Every cancel request returns, however many macros are queued before it.
CancelReturns == \A c \in Cancellers : cancelPc[c] = "bumped" ~> cancelPc[c] = "returned"

\* Nobody waits for the lane for ever: it is handed on by macros that type, fail or are cancelled, and
\* by cancel requests (the guard of MACRO_LANE is dropped on every way out of start_macro's task).
LaneMovesOn == MacrosFinish /\ CancelReturns

-----------------------------------------------------------------------------
(* What callers see of the lane *)

\* A macro types from the publication of its token on, and is over when its task is.
PhaseOf(pc, result) ==
    CASE pc = "idle" -> "new"
      [] pc \in {"spawned", "waiting", "checked"} -> "queued"
      [] pc \in {"published"} \cup Typing -> "typing"
      [] pc = "done" -> result

RequestOf(pc) ==
    CASE pc = "idle" -> "new"
      [] pc \in {"bumped", "queueing", "waiting"} -> "asked"
      [] pc = "returned" -> "returned"

Started == {m \in Macros : macroPc[m] # "idle"}

Service == INSTANCE TypingService WITH
    Length      <- [m \in Macros |-> Len(Reports[m])],
    Failures    <- HidErrors,
    phase       <- [m \in Macros |-> PhaseOf(macroPc[m], outcome[m])],
    typed       <- [m \in Macros |-> stepIx[m] - 1],
    fromBrowser <- [m \in Macros |-> origin[m] # None],
    stopped     <- {m \in Started : Cancelled(m) \/ tokenCancelled[m]},
    request     <- [c \in Cancellers |-> RequestOf(cancelPc[c])],
    covers      <- [c \in Cancellers |-> {m \in Started : epochs[m].all < cancelEpoch[c]}]

\* The lane implements TypingService: "completed" is told only of a macro whose every step was typed,
\* one after the other and with no other macro's in between; "dropped" only of one that a cancel or a
\* close reached or the HID failed; and nothing covered by a returned request types (start_macro,
\* run_macro, cancel_macro).
LaneIsTypingService == Service!ServiceSafety
=============================================================================
