------------------------------ MODULE Jiggler ------------------------------
(***************************************************************************)
(* The mouse jiggler: a loop started at boot and restarted by every         *)
(* setJigglerConfig.  A restart cancels the stored token, stores a new one  *)
(* and spawns a loop, in separate steps, so requests may interleave; a loop *)
(* reads the configuration once, when it starts.                            *)
(***************************************************************************)
EXTENDS Naturals, FiniteSets

CONSTANTS
  JigReqs,    \* setJigglerConfig requests; the boot start is one more restart, already done
  JigConfs,   \* configurations
  Patient     \* those of JigConfs whose inactivity limit was negative: `as u64` makes it endless

ASSUME JigglerAssumption ==
  /\ IsFiniteSet(JigReqs) /\ JigConfs # {} /\ Patient \subseteq JigConfs
  /\ {"boot", "none"} \cap JigReqs = {}

JigBoot == "boot"
JigLoops == JigReqs \cup {JigBoot}   \* each restart spawns one loop, known by its request
NoToken == "none"

VARIABLES
  jigConf,     \* JIGGLER_CONFIG
  jigToken,    \* JIGGLER_CANCEL: the loop it cancels, or NoToken
  jigEnabled,  \* jiggler_enabled of the configuration
  idle,        \* no user input for longer than any finite limit
  jigReq,      \* place of each request
  loop,        \* place of each loop
  loopConf,    \* the configuration a loop runs with
  cancelled,   \* loops whose token is cancelled
  jigOverlap   \* a request has begun while another was under way
jigVars == <<jigConf, jigToken, jigEnabled, idle, jigReq, loop, loopConf, cancelled, jigOverlap>>

Running(l) == loop[l] \in {"wait", "jitter", "due"}
Requesting == {r \in JigReqs : jigReq[r] \notin {"new", "done"}}

JigglerTypeOK ==
  /\ jigConf \in JigConfs /\ jigToken \in JigLoops \cup {NoToken} /\ {jigEnabled, idle} \subseteq BOOLEAN
  /\ jigReq \in [JigReqs -> {"new", "take", "takeAgain", "store", "spawn", "done"}]
  /\ loop \in [JigLoops -> {"none", "spawned", "wait", "jitter", "due", "ended"}]
  /\ loopConf \in [JigLoops -> JigConfs] /\ cancelled \subseteq JigLoops /\ jigOverlap \in BOOLEAN

\* main has run run_jiggler_cron_tab once.
JigglerInit ==
  /\ jigConf \in JigConfs \ Patient /\ jigToken = JigBoot /\ jigEnabled \in BOOLEAN /\ idle = FALSE
  /\ jigReq = [r \in JigReqs |-> "new"]
  /\ loop = [l \in JigLoops |-> IF l = JigBoot THEN "spawned" ELSE "none"]
  /\ loopConf = [l \in JigLoops |-> jigConf] /\ cancelled = {} /\ jigOverlap = FALSE

-----------------------------------------------------------------------------
\* set_jiggler_config stores the configuration first.
StoreConf(r, c) ==
  /\ jigReq[r] = "new" /\ jigConf' = c /\ jigReq' = [jigReq EXCEPT ![r] = "take"]
  /\ jigOverlap' = (jigOverlap \/ Requesting # {})
  /\ UNCHANGED <<jigToken, jigEnabled, idle, loop, loopConf, cancelled>>

\* cancel_jiggler_cron, called by the handler and again by run_jiggler_cron_tab.
CancelCron(r, from, to) ==
  /\ jigReq[r] = from /\ jigReq' = [jigReq EXCEPT ![r] = to]
  /\ jigToken' = NoToken /\ cancelled' = cancelled \cup ({jigToken} \ {NoToken})
  /\ UNCHANGED <<jigConf, jigEnabled, idle, loop, loopConf, jigOverlap>>

\* Storing the new token forgets, without cancelling, one stored meanwhile.
StoreToken(r) ==
  /\ jigReq[r] = "store" /\ jigToken' = r /\ jigReq' = [jigReq EXCEPT ![r] = "spawn"]
  /\ UNCHANGED <<jigConf, jigEnabled, idle, loop, loopConf, cancelled, jigOverlap>>

SpawnLoop(r) ==
  /\ jigReq[r] = "spawn" /\ jigReq' = [jigReq EXCEPT ![r] = "done"]
  /\ loop' = [loop EXCEPT ![r] = "spawned"]
  /\ UNCHANGED <<jigConf, jigToken, jigEnabled, idle, loopConf, cancelled, jigOverlap>>

\* set_jiggler_state changes the configuration only; the loop goes on ticking.
SetEnabled(on) ==
  /\ jigEnabled # on /\ jigEnabled' = on
  /\ UNCHANGED <<jigConf, jigToken, idle, jigReq, loop, loopConf, cancelled, jigOverlap>>

UserInput == idle /\ idle' = FALSE /\ UNCHANGED <<jigConf, jigToken, jigEnabled, jigReq, loop, loopConf, cancelled, jigOverlap>>
TimePasses == ~idle /\ idle' = TRUE /\ UNCHANGED <<jigConf, jigToken, jigEnabled, jigReq, loop, loopConf, cancelled, jigOverlap>>

-----------------------------------------------------------------------------
\* run_jiggler_loop.
LoopStart(l) ==
  /\ loop[l] = "spawned" /\ loop' = [loop EXCEPT ![l] = "wait"]
  /\ loopConf' = [loopConf EXCEPT ![l] = jigConf]
  /\ UNCHANGED <<jigConf, jigToken, jigEnabled, idle, jigReq, cancelled, jigOverlap>>

\* A tick leaves the select, so the token is not looked at until the loop comes round again.
LoopTick(l) ==
  /\ loop[l] = "wait" /\ l \notin cancelled /\ loop' = [loop EXCEPT ![l] = "jitter"]
  /\ UNCHANGED <<jigConf, jigToken, jigEnabled, idle, jigReq, loopConf, cancelled, jigOverlap>>

LoopLook(l) ==
  /\ loop[l] = "jitter"
  /\ loop' = [loop EXCEPT ![l] = IF jigEnabled /\ idle /\ loopConf[l] \notin Patient THEN "due" ELSE "wait"]
  /\ UNCHANGED <<jigConf, jigToken, jigEnabled, idle, jigReq, loopConf, cancelled, jigOverlap>>

\* Mutant: the loop ends after its first jiggle.
DoJiggleOnce(l) ==
  /\ loop[l] = "due" /\ loop' = [loop EXCEPT ![l] = "ended"]
  /\ UNCHANGED <<jigConf, jigToken, jigEnabled, idle, jigReq, loopConf, cancelled, jigOverlap>>

DoJiggle(l) ==
  /\ loop[l] = "due" /\ loop' = [loop EXCEPT ![l] = "wait"]
  /\ UNCHANGED <<jigConf, jigToken, jigEnabled, idle, jigReq, loopConf, cancelled, jigOverlap>>

LoopCancelled(l) ==
  /\ loop[l] = "wait" /\ l \in cancelled /\ loop' = [loop EXCEPT ![l] = "ended"]
  /\ UNCHANGED <<jigConf, jigToken, jigEnabled, idle, jigReq, loopConf, cancelled, jigOverlap>>

JigHandler(r) == \/ CancelCron(r, "take", "takeAgain") \/ CancelCron(r, "takeAgain", "store")
                 \/ StoreToken(r) \/ SpawnLoop(r)
JigLoopStep(l) == LoopStart(l) \/ LoopTick(l) \/ LoopLook(l) \/ DoJiggle(l) \/ LoopCancelled(l)
JigglerNext ==
  \/ \E r \in JigReqs : JigHandler(r) \/ \E c \in JigConfs : StoreConf(r, c)
  \/ \E on \in BOOLEAN : SetEnabled(on)
  \/ UserInput \/ TimePasses
  \/ \E l \in JigLoops : JigLoopStep(l)

\* The handlers and loops are tasks of a runtime that goes on running them.
JigglerFairness == /\ \A r \in JigReqs : WF_jigVars(JigHandler(r))
                   /\ \A l \in JigLoops : WF_jigVars(JigLoopStep(l))

-----------------------------------------------------------------------------
\* However requests overlapped, once none is under way there is a loop that the stored token cancels,
\* and it runs with the configuration set last: it was started after that configuration was stored
\* (set_jiggler_config stores before it cancels).
JigglerUsesLatest ==
  Requesting = {} => /\ jigToken \in JigLoops \ cancelled /\ loop[jigToken] # "none"
                     /\ Running(jigToken) => loopConf[jigToken] = jigConf

\* Requests that came one after the other leave that one loop and no other.  Of two that overlap, one
\* may store its token over the other's, whose loop nothing can cancel or reconfigure any more.
OneLoopUnlessOverlap ==
  (Requesting = {} /\ ~jigOverlap) => \A l \in JigLoops \ cancelled : loop[l] # "none" => l = jigToken

\* Whatever was reconfigured before, a host that stays idle with the jiggler on is jiggled again and
\* again, unless the limit set last is negative.
KeepsJiggling ==
  (<>[](jigEnabled /\ idle /\ jigConf \notin Patient)) => []<>(\E l \in JigLoops : loop[l] = "due")

\* A loop lives and uses the latest configuration, and it is alone unless requests overlapped.
JigInv == JigglerTypeOK /\ JigglerUsesLatest /\ OneLoopUnlessOverlap

=============================================================================
