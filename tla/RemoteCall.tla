----------------------------- MODULE RemoteCall -----------------------------
(***************************************************************************)
(* What a caller may rely on when it calls another process: it gets the      *)
(* answer to its own request, at most once, or an error, and it does get one *)
(* of the two.  Sequence numbers, tables of pending calls, attempts,         *)
(* reconnects and late answers are matters of the implementations:           *)
(* CtrlSocket (device to native process) and RpcCalls (browser to device).   *)
(***************************************************************************)
CONSTANT Calls

VARIABLES
  phase,     \* "new", "waiting", "answered" or "failed"
  answer     \* the call whose answer a call returned with, or "none"

remoteVars == <<phase, answer>>

RemoteInit ==
  /\ phase = [k \in Calls |-> "new"]
  /\ answer = [k \in Calls |-> "none"]

Call(k) ==
  /\ phase[k] = "new"
  /\ phase' = [phase EXCEPT ![k] = "waiting"]
  /\ UNCHANGED answer

Answer(k) ==
  /\ phase[k] = "waiting"
  /\ phase' = [phase EXCEPT ![k] = "answered"]
  /\ answer' = [answer EXCEPT ![k] = k]

\* A call may be refused before it is made.
Fail(k) ==
  /\ phase[k] \in {"new", "waiting"}
  /\ phase' = [phase EXCEPT ![k] = "failed"]
  /\ UNCHANGED answer

RemoteNext == \E k \in Calls : Call(k) \/ Answer(k) \/ Fail(k)

RemoteSafety == RemoteInit /\ [][RemoteNext]_remoteVars

RemoteSpec == RemoteSafety /\ \A k \in Calls : WF_remoteVars(phase[k] = "waiting" /\ (Answer(k) \/ Fail(k)))

=============================================================================
