------------------------------ MODULE RpcCalls ------------------------------
(***************************************************************************)
(* JSON-RPC over one "rpc" data channel: the browser's RpcClient            *)
(* (rkvm-web rpc.rs) with its timeouts and attempts, and the device's       *)
(* JsonRpcProcessor (api/registry.rs), whose handler for one message is     *)
(* awaited before the next message is read.  The channel keeps order and    *)
(* loses messages only by closing.  In the release build a panic aborts     *)
(* the process (Cargo.toml: panic = "abort"); the catch_unwind of the       *)
(* synchronous handlers only works in a development build.                   *)
(***************************************************************************)
EXTENDS Naturals, Sequences

CONSTANTS
  RpcCallers,     \* calls of RpcClient::call_with
  MaxAttempts,    \* its max_attempts (4 at most in the client, 1 by default)
  Blocked,        \* the calls whose method is_blocked in fail-safe mode
  PanicAborts,    \* the build: release (TRUE) or development
  MaxPanics       \* bound on panicking handlers

ASSUME RpcAssumption ==
  MaxAttempts \in Nat \ {0} /\ Blocked \subseteq RpcCallers /\ PanicAborts \in BOOLEAN /\ MaxPanics \in Nat

VARIABLES
  nextId, rpcPending,      \* RpcClient.next_id; RpcClient.pending: pairs <<id, call>>
  failsafe,                \* RpcClient.failsafe_reason is set
  rpcPc, attempt, rpcId,   \* the calls
  rpcGot,                  \* the message each call returned with, or "none"
  up, down,                \* messages to the device and to the browser, in order
  rpcOpen,                 \* the channel is open
  serving,                 \* the request whose handler runs, or "none"
  announced,               \* the device has sent its failsafeMode event (on_open)
  executed,                \* handler runs per call
  panics

rpcVars == <<nextId, rpcPending, failsafe, rpcPc, attempt, rpcId, rpcGot, up, down, rpcOpen,
             serving, announced, executed, panics>>

RpcEnded == {"new", "blocked", "returned", "failed"}
RpcGoto(k, pc) == rpcPc' = [rpcPc EXCEPT ![k] = pc]
NoMessage == [kind |-> "none"]

RpcTypeOK ==
  /\ nextId \in Nat
  /\ rpcPending \subseteq (1..nextId) \X RpcCallers
  /\ rpcPc \in [RpcCallers -> RpcEnded \cup {"send", "wait", "backoff"}]
  /\ attempt \in [RpcCallers -> 0..MaxAttempts]

RpcInit ==
  /\ nextId = 0 /\ rpcPending = {} /\ failsafe = FALSE
  /\ rpcPc = [k \in RpcCallers |-> "new"] /\ attempt = [k \in RpcCallers |-> 0]
  /\ rpcId = [k \in RpcCallers |-> 0] /\ rpcGot = [k \in RpcCallers |-> NoMessage]
  /\ up = << >> /\ down = << >> /\ rpcOpen = TRUE
  /\ serving = NoMessage /\ announced = FALSE
  /\ executed = [k \in RpcCallers |-> 0] /\ panics = 0

\* call_with refuses a blocked method at once.
CallRpc(k) ==
  /\ rpcPc[k] = "new"
  /\ RpcGoto(k, IF failsafe /\ k \in Blocked THEN "blocked" ELSE "send")
  /\ UNCHANGED <<nextId, rpcPending, failsafe, attempt, rpcId, rpcGot, up, down, rpcOpen, serving,
                 announced, executed, panics>>

\* An attempt has failed: back off for another one or give up.
AttemptFails(k, made) == RpcGoto(k, IF made < MaxAttempts THEN "backoff" ELSE "failed")

\* One attempt takes a new id, registers it and sends; a failing send unregisters it.
SendAttempt(k) ==
  /\ rpcPc[k] = "send"
  /\ nextId' = nextId + 1
  /\ rpcId' = [rpcId EXCEPT ![k] = nextId']
  /\ attempt' = [attempt EXCEPT ![k] = @ + 1]
  /\ IF rpcOpen
     THEN /\ rpcPending' = rpcPending \cup {<<nextId', k>>}
          /\ up' = Append(up, [kind |-> "request", id |-> nextId', call |-> k])
          /\ RpcGoto(k, "wait")
     ELSE AttemptFails(k, attempt[k] + 1) /\ UNCHANGED <<rpcPending, up>>
  /\ UNCHANGED <<failsafe, rpcGot, down, rpcOpen, serving, announced, executed, panics>>

\* Mutant: an attempt that timed out stays registered.
TimeoutKeepsEntry(k) ==
  /\ rpcPc[k] = "wait" /\ AttemptFails(k, attempt[k])
  /\ UNCHANGED <<nextId, rpcPending, failsafe, attempt, rpcId, rpcGot, up, down, rpcOpen, serving, announced,
                 executed, panics>>

TimeoutAttempt(k) ==
  /\ rpcPc[k] = "wait"
  /\ rpcPending' = {p \in rpcPending : p[1] # rpcId[k]}
  /\ AttemptFails(k, attempt[k]) /\ UNCHANGED attempt
  /\ UNCHANGED <<nextId, failsafe, rpcId, rpcGot, up, down, rpcOpen, serving, announced, executed, panics>>

Backoff(k) ==
  /\ rpcPc[k] = "backoff" /\ RpcGoto(k, "send")
  /\ UNCHANGED <<nextId, rpcPending, failsafe, attempt, rpcId, rpcGot, up, down, rpcOpen, serving,
                 announced, executed, panics>>

\* on_open sends the fail-safe notification of a device that is in fail-safe mode.
Announce ==
  /\ rpcOpen /\ ~announced /\ announced' = TRUE
  /\ down' = Append(down, [kind |-> "failsafeMode"])
  /\ UNCHANGED <<nextId, rpcPending, failsafe, rpcPc, attempt, rpcId, rpcGot, up, rpcOpen, serving, executed, panics>>

\* on_message: dispatch parses the request and calls its handler.
TakeRequest ==
  /\ rpcOpen /\ serving = NoMessage /\ up # << >>
  /\ serving' = Head(up) /\ up' = Tail(up)
  /\ executed' = [executed EXCEPT ![Head(up).call] = @ + 1]
  /\ UNCHANGED <<nextId, rpcPending, failsafe, rpcPc, attempt, rpcId, rpcGot, down, rpcOpen, announced, panics>>

\* The handler is done; send_response answers with the request's id.
Respond(how) ==
  /\ serving # NoMessage
  /\ down' = IF rpcOpen
             THEN Append(down, [kind |-> how, id |-> serving.id, call |-> serving.call]) ELSE down
  /\ serving' = NoMessage
  /\ UNCHANGED <<nextId, rpcPending, failsafe, rpcPc, attempt, rpcId, rpcGot, up, rpcOpen,
                 announced, executed, panics>>

\* A handler panics: recovered as an error, or the whole process goes.
HandlerPanics ==
  /\ serving # NoMessage /\ panics < MaxPanics /\ panics' = panics + 1
  /\ serving' = NoMessage
  /\ IF PanicAborts
     THEN rpcOpen' = FALSE /\ up' = << >> /\ UNCHANGED down
     ELSE /\ down' = Append(down, [kind |-> "error", id |-> serving.id, call |-> serving.call])
          /\ UNCHANGED <<rpcOpen, up>>
  /\ UNCHANGED <<nextId, rpcPending, failsafe, rpcPc, attempt, rpcId, rpcGot, announced, executed>>

\* The client's on_message: an event, or the answer of the call registered for its id.
ReceiveMessage ==
  /\ down # << >> /\ down' = Tail(down)
  /\ LET msg == Head(down)
         to == {p \in rpcPending : msg.kind # "failsafeMode" /\ p[1] = msg.id} IN
     /\ failsafe' = (failsafe \/ msg.kind = "failsafeMode")
     /\ rpcPending' = rpcPending \ to
     /\ rpcPc' = [k \in RpcCallers |-> IF \E p \in to : p[2] = k THEN "returned" ELSE rpcPc[k]]
     /\ rpcGot' = [k \in RpcCallers |-> IF \E p \in to : p[2] = k THEN msg ELSE rpcGot[k]]
  /\ UNCHANGED <<nextId, attempt, rpcId, up, rpcOpen, serving, announced, executed, panics>>

\* The channel closes: what is on the way is lost.
CloseRpc ==
  /\ rpcOpen /\ rpcOpen' = FALSE
  /\ up' = << >> /\ down' = << >>
  /\ UNCHANGED <<nextId, rpcPending, failsafe, rpcPc, attempt, rpcId, rpcGot, serving, announced, executed, panics>>

RpcTask(k) == SendAttempt(k) \/ TimeoutAttempt(k) \/ Backoff(k)

RpcNext ==
  \/ \E k \in RpcCallers : CallRpc(k) \/ RpcTask(k)
  \/ Announce \/ TakeRequest \/ HandlerPanics \/ ReceiveMessage \/ CloseRpc
  \/ \E how \in {"result", "error"} : Respond(how)

\* A call returns only after the device has run it, at most once per attempt, even when earlier
\* attempts of it and of other calls are answered late.
RunsAtMostAttempts ==
  \A k \in RpcCallers : /\ executed[k] <= attempt[k]
                        /\ rpcPc[k] = "returned" => executed[k] >= 1

\* The client's table holds exactly the attempt each waiting call is waiting for; attempts that
\* timed out are forgotten, so that their late answers go nowhere.
PendingIsLatest == rpcPending = {<<rpcId[k], k>> : k \in {c \in RpcCallers : rpcPc[c] = "wait"}}

\* Ids, attempts and runs of the handlers fit together.
RpcInv == RpcTypeOK /\ PendingIsLatest /\ RunsAtMostAttempts

RpcSpec == RpcInit /\ [][RpcNext]_rpcVars /\ \A k \in RpcCallers : WF_rpcVars(RpcTask(k))

RpcPhase(pc) ==
  CASE pc = "new" -> "new"
    [] pc \in {"send", "wait", "backoff"} -> "waiting"
    [] pc = "returned" -> "answered"
    [] OTHER -> "failed"

\* The channel as the module RemoteCall describes it: attempts, fail-safe refusals and lost
\* channels are invisible but for the error they end in.
RpcRemote == INSTANCE RemoteCall WITH
  Calls <- RpcCallers, phase <- [k \in RpcCallers |-> RpcPhase(rpcPc[k])],
  answer <- [k \in RpcCallers |-> IF rpcGot[k] = NoMessage THEN "none" ELSE rpcGot[k].call]

=============================================================================
