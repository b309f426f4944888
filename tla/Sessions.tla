------------------------------ MODULE Sessions ------------------------------
(***************************************************************************)
(* The life of a viewer's WebRTC session: the offer handlers of the HTTP   *)
(* endpoint and the cloud (web/webrtc_handlers.rs, cloud/websocket.rs),    *)
(* of the signalling WebSocket and of Socket.IO (web/socket.rs), the       *)
(* session table of state.rs, the takeover of a running session, and the   *)
(* ICE state handler of webrtc.rs that moves the video sink.               *)
(*                                                                         *)
(* There are two notions of "current": AppState.current_session, set when  *)
(* an offer is answered and used by the takeover, and CURRENT_SESSION, set *)
(* when a session's ICE connects and used to decide who owns the video.    *)
(***************************************************************************)
EXTENDS Naturals, FiniteSets

CONSTANTS
    Sessions,       \* peer connections, one per offer
    Ids,            \* session ids
    Id,             \* Id[s]: a fresh uuid for "http", the connection's id for "ws" and "sio"
    MayFail,        \* whether exchange_offer may fail
    None

ASSUME IdAssumption == Id \in [Sessions -> Ids]
ASSUME MayFailAssumption == MayFail \in BOOLEAN
ASSUME NoneAssumption == None \notin Sessions \cup Ids

VARIABLES
    path,         \* how each offer arrived: "http" (or the cloud), "ws" or "sio"
    offer,        \* where each offer handler is
    pc,           \* peer connections: "none", "open", "closed"
    table,        \* AppState.sessions
    appCurrent,   \* AppState.current_session
    closers,      \* takeover tasks that sleep before closing this id
    handler,      \* where each session's ICE state handler is
    ice,          \* ICE events each session's handler has been given
    connected,    \* the handler's is_connected
    counter,      \* SESSION_COUNTER
    current,      \* CURRENT_SESSION
    sink,         \* VIDEO_SINK: whose track
    ctrlVideo     \* the native process was told start_video, not stop_video

offerVars == <<path, offer, appCurrent, closers>>
iceVars   == <<handler, ice, connected, counter, current, sink, ctrlVideo>>
vars == <<offerVars, pc, table, iceVars>>

Paths == {"http", "ws", "sio"}
Closing == {"readCurrent", "clearCurrent", "uncount", "stopVideo", "checkNone", "detach", "remove"}
Connecting == {"count", "startVideo", "attach", "setCurrent"}

TypeOK ==
    /\ offer \in [Sessions -> {"none", "exchange", "takeover", "register", "setCurrent", "done", "failed"}]
    /\ path \in [Sessions -> Paths]
    /\ pc \in [Sessions -> {"none", "open", "closed"}]
    /\ table \in [Ids -> Sessions \cup {None}]
    /\ appCurrent \in Ids \cup {None}
    /\ closers \subseteq Ids
    /\ handler \in [Sessions -> {"rest"} \cup Connecting \cup Closing]
    /\ ice \in [Sessions -> SUBSET {"connected", "failed", "closed"}]
    /\ connected \in [Sessions -> BOOLEAN]
    /\ counter \in Nat
    /\ current \in Ids \cup {None}
    /\ sink \in Sessions \cup {None}
    /\ ctrlVideo \in BOOLEAN

Init ==
    /\ offer = [s \in Sessions |-> "none"]
    /\ path = [s \in Sessions |-> "http"]
    /\ pc = [s \in Sessions |-> "none"]
    /\ table = [i \in Ids |-> None]
    /\ appCurrent = None /\ closers = {}
    /\ handler = [s \in Sessions |-> "rest"]
    /\ ice = [s \in Sessions |-> {}]
    /\ connected = [s \in Sessions |-> FALSE]
    /\ counter = 0 /\ current = None /\ sink = None /\ ctrlVideo = FALSE

-----------------------------------------------------------------------------
(* state.rs *)

\* add_session: whoever was registered under this id is replaced.
AddSession(s) ==
    /\ table' = [table EXCEPT ![Id[s]] = s]
    /\ appCurrent' = IF appCurrent = None THEN Id[s] ELSE appCurrent

\* Mutant: the session is dropped without closing its peer connection.
RemoveKeepsOpen(i) ==
    /\ table' = [table EXCEPT ![i] = None]
    /\ UNCHANGED pc
    /\ appCurrent' = IF appCurrent = i THEN None ELSE appCurrent

\* remove_session: the peer connection of the session found under this id is closed.
RemoveSession(i) ==
    /\ table' = [table EXCEPT ![i] = None]
    /\ pc' = [s \in Sessions |-> IF s = table[i] THEN "closed" ELSE pc[s]]
    /\ appCurrent' = IF appCurrent = i THEN None ELSE appCurrent

-----------------------------------------------------------------------------
(* The offer handlers *)

Then(s, l) == offer' = [offer EXCEPT ![s] = l]

\* new_session.  "ws" and "sio" register before the offer is exchanged; their connection
\* handles one message at a time.
NewSession(s, p) ==
    /\ offer[s] = "none"
    /\ p = "http" => \A t \in Sessions \ {s} : Id[t] # Id[s]
    /\ path' = [path EXCEPT ![s] = p]
    /\ \A t \in Sessions : Id[t] = Id[s] => offer[t] \in {"none", "done", "failed"}
    /\ pc' = [pc EXCEPT ![s] = "open"]
    /\ Then(s, "exchange")
    /\ IF p = "http" THEN UNCHANGED <<table, appCurrent>> ELSE AddSession(s)
    /\ UNCHANGED <<closers, iceVars>>

\* exchange_offer succeeds.  "ws" and "sio" send the answer here.
ExchangeOffer(s) ==
    /\ offer[s] = "exchange"
    /\ Then(s, IF path[s] = "sio" THEN "done" ELSE "takeover")
    /\ UNCHANGED <<path, pc, table, appCurrent, closers, iceVars>>

\* It fails: "ws" and "sio" remove the session; the others never registered it.
ExchangeFails(s) ==
    /\ MayFail /\ offer[s] = "exchange"
    /\ Then(s, "failed")
    /\ IF path[s] = "http" THEN UNCHANGED <<pc, table, appCurrent>> ELSE RemoveSession(Id[s])
    /\ UNCHANGED <<path, closers, iceVars>>

\* handle_session_takeover: notify the current session and close it one second later.
Takeover(s) ==
    /\ offer[s] = "takeover"
    /\ closers' = closers \cup ({appCurrent} \ {Id[s], None})
    /\ Then(s, IF path[s] = "http" THEN "register" ELSE "setCurrent")
    /\ UNCHANGED <<path, pc, table, appCurrent, iceVars>>

Register(s) ==
    /\ offer[s] = "register"
    /\ AddSession(s)
    /\ Then(s, "setCurrent")
    /\ UNCHANGED <<path, pc, closers, iceVars>>

\* app_state.set_current_session; "http" sends its answer after this.
SetAppCurrent(s) ==
    /\ offer[s] = "setCurrent"
    /\ appCurrent' = Id[s]
    /\ Then(s, "done")
    /\ UNCHANGED <<path, pc, table, closers, iceVars>>

Offer(s) == ExchangeOffer(s) \/ ExchangeFails(s) \/ Takeover(s) \/ Register(s) \/ SetAppCurrent(s)

\* Mutant: the task spares a session that is (still) current.
CloseUnlessCurrent(i) ==
    /\ i \in closers
    /\ closers' = closers \ {i}
    /\ IF appCurrent = i THEN UNCHANGED <<table, pc, appCurrent>> ELSE RemoveSession(i)
    /\ UNCHANGED <<path, offer, iceVars>>

\* The sleeping task of a takeover wakes up.
CloseTakenOver(i) ==
    /\ i \in closers
    /\ closers' = closers \ {i}
    /\ RemoveSession(i)
    /\ UNCHANGED <<path, offer, iceVars>>

\* The signalling connection of a "ws" or "sio" session ends.
SignallingEnds(s) ==
    /\ path[s] # "http" /\ offer[s] \in {"done", "failed"} /\ table[Id[s]] # None
    /\ \A t \in Sessions : Id[t] = Id[s] => offer[t] \in {"none", "done", "failed"}
    /\ RemoveSession(Id[s])
    /\ UNCHANGED <<path, offer, closers, iceVars>>

-----------------------------------------------------------------------------
(* The ICE state handler: webrtc-rs runs one invocation per connection at a time *)

Goto(s, l) == handler' = [handler EXCEPT ![s] = l]

\* The browser needs the answer before ICE can connect.
Answered(s) == offer[s] = "done" \/ (path[s] = "ws" /\ offer[s] \in {"takeover", "setCurrent"})

IceConnected(s) ==
    /\ pc[s] = "open" /\ Answered(s) /\ handler[s] = "rest"
    /\ ice[s] = {}
    /\ ice' = [ice EXCEPT ![s] = {"connected"}]
    /\ connected' = [connected EXCEPT ![s] = TRUE]
    /\ Goto(s, "count")
    /\ UNCHANGED <<offerVars, pc, table, counter, current, sink, ctrlVideo>>

\* increment_session_counter ...
Count(s) ==
    /\ handler[s] = "count"
    /\ counter' = counter + 1
    /\ Goto(s, IF counter = 0 THEN "startVideo" ELSE "attach")
    /\ UNCHANGED <<offerVars, pc, table, ice, connected, current, sink, ctrlVideo>>

\* ... whose first session starts the native video, outside the counter's lock.
StartVideo(s) ==
    /\ handler[s] = "startVideo"
    /\ ctrlVideo' = TRUE
    /\ Goto(s, "attach")
    /\ UNCHANGED <<offerVars, pc, table, ice, connected, counter, current, sink>>

Attach(s) ==
    /\ handler[s] = "attach"
    /\ sink' = s
    /\ Goto(s, "setCurrent")
    /\ UNCHANGED <<offerVars, pc, table, ice, connected, counter, current, ctrlVideo>>

SetCurrent(s) ==
    /\ handler[s] = "setCurrent"
    /\ current' = Id[s]
    /\ Goto(s, "rest")
    /\ UNCHANGED <<offerVars, pc, table, ice, connected, counter, sink, ctrlVideo>>

\* Failed (the network is gone) or Closed (somebody closed the peer connection).
IceEnds(s, event) ==
    /\ handler[s] = "rest" /\ event \notin ice[s] /\ "closed" \notin ice[s]
    /\ IF event = "failed" THEN pc[s] = "open" /\ Answered(s) ELSE pc[s] = "closed"
    /\ ice' = [ice EXCEPT ![s] = @ \cup {event}]
    /\ Goto(s, "readCurrent")
    /\ UNCHANGED <<offerVars, pc, table, connected, counter, current, sink, ctrlVideo>>

\* The comparison with the current session and the reset are separate lock acquisitions.
ReadCurrent(s) ==
    /\ handler[s] = "readCurrent"
    /\ Goto(s, IF current = Id[s] THEN "clearCurrent" ELSE IF connected[s] THEN "uncount" ELSE "remove")
    /\ UNCHANGED <<offerVars, pc, table, ice, connected, counter, current, sink, ctrlVideo>>

\* Mutant: the handler leaves CURRENT_SESSION alone.
ClearNothing(s) ==
    /\ handler[s] = "clearCurrent"
    /\ Goto(s, IF connected[s] THEN "uncount" ELSE "remove")
    /\ UNCHANGED <<offerVars, pc, table, ice, connected, counter, current, sink, ctrlVideo>>

ClearCurrent(s) ==
    /\ handler[s] = "clearCurrent"
    /\ current' = None
    /\ Goto(s, IF connected[s] THEN "uncount" ELSE "remove")
    /\ UNCHANGED <<offerVars, pc, table, ice, connected, counter, sink, ctrlVideo>>

\* is_connected is reset and the counter goes down, not below zero.
Uncount(s) ==
    /\ handler[s] = "uncount"
    /\ connected' = [connected EXCEPT ![s] = FALSE]
    /\ counter' = IF counter = 0 THEN 0 ELSE counter - 1
    /\ Goto(s, IF counter' = 0 THEN "stopVideo" ELSE "checkNone")
    /\ UNCHANGED <<offerVars, pc, table, ice, current, sink, ctrlVideo>>

StopVideo(s) ==
    /\ handler[s] = "stopVideo"
    /\ ctrlVideo' = FALSE
    /\ Goto(s, "checkNone")
    /\ UNCHANGED <<offerVars, pc, table, ice, connected, counter, current, sink>>

CheckNone(s) ==
    /\ handler[s] = "checkNone"
    /\ Goto(s, IF current = None THEN "detach" ELSE "remove")
    /\ UNCHANGED <<offerVars, pc, table, ice, connected, counter, current, sink, ctrlVideo>>

\* detach_webrtc_sink, whoever's track is in the sink by now.
Detach(s) ==
    /\ handler[s] = "detach"
    /\ sink' = None
    /\ Goto(s, "remove")
    /\ UNCHANGED <<offerVars, pc, table, ice, connected, counter, current, ctrlVideo>>

Remove(s) ==
    /\ handler[s] = "remove"
    /\ RemoveSession(Id[s])
    /\ Goto(s, "rest")
    /\ UNCHANGED <<path, offer, closers, ice, connected, counter, current, sink, ctrlVideo>>

Handler(s) ==
    \/ Count(s) \/ StartVideo(s) \/ Attach(s) \/ SetCurrent(s)
    \/ IceEnds(s, "closed") \/ ReadCurrent(s) \/ ClearCurrent(s) \/ Uncount(s) \/ StopVideo(s)
    \/ CheckNone(s) \/ Detach(s) \/ Remove(s)

Next ==
    \/ \E s \in Sessions : Offer(s) \/ SignallingEnds(s)
    \/ \E s \in Sessions, p \in Paths : NewSession(s, p)
    \/ \E s \in Sessions : IceConnected(s) \/ IceEnds(s, "failed") \/ Handler(s)
    \/ \E i \in Ids : CloseTakenOver(i)

Spec == Init /\ [][Next]_vars

\* Tasks are polled, the takeover's sleep ends, and webrtc-rs reports a closed connection.
\* Browsers, networks and signalling connections owe nothing.
Fairness ==
    /\ \A s \in Sessions : WF_vars(Offer(s)) /\ WF_vars(Handler(s))
    /\ \A i \in Ids : WF_vars(CloseTakenOver(i))

FairSpec == Spec /\ Fairness

-----------------------------------------------------------------------------
(* Properties *)

\* No handler, offer or takeover task is under way.
Settled ==
    /\ closers = {}
    /\ \A s \in Sessions : /\ handler[s] = "rest" /\ offer[s] \in {"none", "done", "failed"}
                           /\ pc[s] = "closed" => "closed" \in ice[s]

\* The last session's end gives everything back: with every handler at rest and nobody
\* connected, the video sink is empty, no session is current and the counter is at zero, in
\* whatever order connects, failures and takeovers interleaved.
AllReleased ==
    (\A s \in Sessions : handler[s] = "rest" /\ ~connected[s]) => sink = None /\ current = None /\ counter = 0

\* The state stays in its type and the last end gives everything back.
SessionsInv == TypeOK /\ AllReleased

\* state.rs:38-40: "Every removal path goes through here: a session dropped without `close()`
\* keeps its ICE agent ... alive".  A peer connection that is open once its offer was
\* answered can be found in the table, where a takeover or a disconnect can close it.
OpenIsRegistered ==
    \A s \in Sessions : offer[s] = "done" /\ pc[s] = "open" => table[Id[s]] = s

\* A session that was current when another one's offer was answered is closed: the takeover
\* task finds it, or somebody else removed it first.
TakenOverCloses ==
    \A s \in Sessions : (Id[s] \in closers /\ table[Id[s]] = s) ~> pc[s] = "closed"

\* Once its connection is closed, a session stops counting and is no longer current.
ClosedIsForgotten ==
    \A s \in Sessions : pc[s] = "closed" ~> (~connected[s] /\ current # Id[s] /\ table[Id[s]] # s)

\* docs/soak-testing.md:198: "One session at a time. A second client takes over the session".
OneSessionAtATime == Settled => Cardinality({i \in Ids : table[i] # None}) <= 1
=============================================================================
