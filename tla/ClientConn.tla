----------------------------- MODULE ClientConn -----------------------------
(***************************************************************************)
(* The page before and while it is connected (rkvm-web app.rs,             *)
(* net/peer.rs, net/rest.rs): the gate that asks for set-up, a password or  *)
(* a click on Connect, the dialling of a peer, and the task that watches    *)
(* it until it is lost.  Only one task runs at a time in a page; a task     *)
(* gives way at its awaits.                                                 *)
(***************************************************************************)
EXTENDS Naturals, FiniteSets

CONSTANTS
  MaxDials,          \* bound on clicks on Connect
  DisconnectedTicks, \* ticks for which ICE may be disconnected
  MaxRestFaults      \* bound on requests that fail

ASSUME ConnAssumption ==
  MaxDials \in Nat \ {0} /\ DisconnectedTicks \in Nat \ {0} /\ MaxRestFaults \in Nat

Dials == 1..MaxDials

VARIABLES
  deviceSetup, deviceLogin,  \* the device is set up; it asks this page for a password
  gate,            \* "checking", then the card shown: "setup", "login" or "connect"
  gateStep,        \* the request the gate's task waits for, or "idle"
  restFaults,
  connState,       \* conn_state
  dials,           \* peers dialled
  peer,            \* per peer: "none", "dialing", "open", "dropped" (the other side or the
                   \* network ended it), "closed"
  ice,             \* ICE of the open peer is "up" or "disconnected"
  watcher,         \* per peer: "none", "watching" or "done"
  mine,            \* per watcher: its generation, this_gen
  outTicks,            \* the watcher's count of ticks with ICE disconnected
  generation,      \* conn_gen
  holder           \* the peer in hid_session, rpc_store and peer_store; 0: none

gateVars == <<deviceSetup, deviceLogin, gate, gateStep, restFaults>>
peerVars == <<connState, dials, peer, ice, watcher, mine, outTicks, generation, holder>>
connVars == <<gateVars, peerVars>>

ConnInit ==
  /\ deviceSetup \in BOOLEAN /\ deviceLogin \in BOOLEAN /\ (deviceLogin => deviceSetup)
  /\ gate = "checking" /\ gateStep = "is_setup" /\ restFaults = 0
  /\ connState = "idle" /\ dials = 0 /\ peer = [d \in Dials |-> "none"] /\ ice = "up"
  /\ watcher = [d \in Dials |-> "none"] /\ mine = [d \in Dials |-> 0] /\ outTicks = 0 /\ generation = 0 /\ holder = 0

ConnTypeOK ==
  /\ gate \in {"checking", "setup", "login", "connect"}
  /\ gateStep \in {"idle", "is_setup", "auth_required", "setup", "login"}
  /\ connState \in {"idle", "connecting", "connected", "lost", "error"}
  /\ peer \in [Dials -> {"none", "dialing", "open", "dropped", "closed"}]
  /\ watcher \in [Dials -> {"none", "watching", "done"}]
  /\ outTicks \in 0..DisconnectedTicks /\ generation \in 0..dials /\ holder \in 0..dials

\* A request may fail; then the page takes the default the caller names.
Asked(truth, default, result) ==
  \/ result = truth /\ UNCHANGED restFaults
  \/ result = default /\ restFaults < MaxRestFaults /\ restFaults' = restFaults + 1

\* rest::is_setup: an unreachable device counts as set up.
AskIsSetup ==
  /\ gateStep = "is_setup"
  /\ \E setUp \in BOOLEAN :
       /\ Asked(deviceSetup, TRUE, setUp)
       /\ IF setUp THEN gateStep' = "auth_required" /\ UNCHANGED gate
                   ELSE gateStep' = "idle" /\ gate' = "setup"
  /\ UNCHANGED <<deviceSetup, deviceLogin, peerVars>>

\* rest::auth_required: an unreachable device counts as open.
AskAuthRequired ==
  /\ gateStep = "auth_required"
  /\ \E needed \in BOOLEAN :
       Asked(deviceLogin, FALSE, needed) /\ gate' = (IF needed THEN "login" ELSE "connect")
  /\ gateStep' = "idle" /\ UNCHANGED <<deviceSetup, deviceLogin, peerVars>>

\* do_setup and its answer; with a password the device also logs this page in.
DoSetup ==
  /\ gate = "setup" /\ gateStep = "idle" /\ gateStep' = "setup"
  /\ UNCHANGED <<deviceSetup, deviceLogin, gate, restFaults, peerVars>>

SetupAnswered ==
  /\ gateStep = "setup"
  /\ \/ deviceSetup' = TRUE /\ gateStep' = "auth_required" /\ UNCHANGED restFaults
     \/ restFaults < MaxRestFaults /\ restFaults' = restFaults + 1
          /\ gateStep' = "idle" /\ UNCHANGED deviceSetup
  /\ UNCHANGED <<deviceLogin, gate, peerVars>>

DoLogin ==
  /\ gate = "login" /\ gateStep = "idle" /\ gateStep' = "login"
  /\ UNCHANGED <<deviceSetup, deviceLogin, gate, restFaults, peerVars>>

LoginAnswered ==
  /\ gateStep = "login" /\ gateStep' = "idle"
  /\ \/ deviceLogin' = FALSE /\ gate' = "connect" /\ UNCHANGED restFaults
     \/ restFaults < MaxRestFaults /\ restFaults' = restFaults + 1 /\ UNCHANGED <<deviceLogin, gate>>
  /\ UNCHANGED <<deviceSetup, peerVars>>
-----------------------------------------------------------------------------
\* do_connect up to its first await; the card is gone while connected.
DoConnect ==
  /\ gate = "connect" /\ connState \notin {"connecting", "connected"} /\ dials < MaxDials
  /\ connState' = "connecting" /\ dials' = dials + 1 /\ peer' = [peer EXCEPT ![dials + 1] = "dialing"]
  /\ UNCHANGED <<gateVars, ice, watcher, mine, outTicks, generation, holder>>

\* peer::connect gives up: refused signalling, ICE failed or 240 polls without
\* an open channel.
DialFails(d) ==
  /\ peer[d] = "dialing"
  /\ peer' = [peer EXCEPT ![d] = "closed"] /\ connState' = "error"
  /\ UNCHANGED <<gateVars, dials, ice, watcher, mine, outTicks, generation, holder>>

\* peer::connect returns a peer: do_connect stores it and starts its watcher.
DialOpens(d) ==
  /\ peer[d] = "dialing" /\ ~deviceLogin
  /\ peer' = [peer EXCEPT ![d] = "open"] /\ ice' = "up" /\ holder' = d
  /\ connState' = "connected" /\ generation' = generation + 1
  /\ watcher' = [watcher EXCEPT ![d] = "watching"] /\ mine' = [mine EXCEPT ![d] = generation'] /\ outTicks' = 0
  /\ UNCHANGED <<gateVars, dials>>

\* The device ends the session for another client, or the network is gone for good.
Dropped(d) ==
  /\ peer[d] = "open" /\ peer' = [peer EXCEPT ![d] = "dropped"]
  /\ UNCHANGED <<gateVars, connState, dials, ice, watcher, mine, outTicks, generation, holder>>

IceChanges ==
  /\ ice' = (IF ice = "up" THEN "disconnected" ELSE "up")
  /\ \E d \in Dials : peer[d] = "open"
  /\ UNCHANGED <<gateVars, connState, dials, peer, watcher, mine, outTicks, generation, holder>>

\* What do_connect does when the watcher reports a loss.
TearDown(d) ==
  /\ holder' = 0 /\ peer' = [peer EXCEPT ![d] = "closed"] /\ connState' = "lost"
  /\ watcher' = [watcher EXCEPT ![d] = "done"] /\ outTicks' = 0

\* One tick of watch: cancelled, lost, counting, or fine.
WatchTick(d) ==
  /\ watcher[d] = "watching"
  /\ IF generation # mine[d]
     THEN watcher' = [watcher EXCEPT ![d] = "done"] /\ UNCHANGED <<connState, peer, outTicks, holder>>
     ELSE IF peer[d] = "dropped" \/ (ice = "disconnected" /\ outTicks + 1 >= DisconnectedTicks)
     THEN TearDown(d)
     ELSE outTicks' = (IF ice = "disconnected" THEN outTicks + 1 ELSE 0)
            /\ UNCHANGED <<connState, peer, watcher, holder>>
  /\ UNCHANGED <<gateVars, dials, ice, mine, generation>>

GateNext == AskIsSetup \/ AskAuthRequired \/ DoSetup \/ SetupAnswered \/ DoLogin \/ LoginAnswered

ConnNext ==
  \/ GateNext \/ DoConnect \/ IceChanges
  \/ \E d \in Dials : DialFails(d) \/ DialOpens(d) \/ Dropped(d) \/ WatchTick(d)

\* The browser runs the watcher's timer.
ConnFairness == \A d \in Dials : WF_connVars(WatchTick(d))
ConnSpec == ConnInit /\ [][ConnNext]_connVars /\ ConnFairness
-----------------------------------------------------------------------------
(* A second click, a lost connection and a reconnection never leave two    *)
(* peers alive: the device would end the older session for the newer one   *)
(* (app.rs, the comment in do_connect). Input, calls and terminal use the  *)
(* newest peer, and nothing while the page is not connected.               *)
OnePeer ==
  /\ Cardinality({d \in Dials : peer[d] \in {"dialing", "open", "dropped"}}) <= 1
  /\ (connState = "connected") <=> (holder # 0)
  /\ holder # 0 => holder = dials /\ watcher[holder] = "watching" /\ mine[holder] = generation

(* The page asks for what the device asks for, unless one of its own       *)
(* requests went unanswered: set-up before anything else, then a password. *)
GateFollowsDevice ==
  gateStep = "idle" /\ restFaults = 0 =>
    gate = (IF ~deviceSetup THEN "setup" ELSE IF deviceLogin THEN "login" ELSE "connect")

(* A connection the other side has ended is noticed: the page never stays  *)
(* "connected" to a peer that is gone (peer.rs watch).                     *)
LossIsNoticed ==
  \A d \in Dials : peer[d] = "dropped" ~> (peer[d] = "closed" /\ holder # d)

(* The page shows the card the device calls for and keeps one peer, whose  *)
(* watcher is its own.                                                     *)
ConnInv == ConnTypeOK /\ OnePeer /\ GateFollowsDevice

=============================================================================
