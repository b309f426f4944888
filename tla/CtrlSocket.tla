----------------------------- MODULE CtrlSocket -----------------------------
(***************************************************************************)
(* The control socket to the native video process                           *)
(* (hardware/native/socket.rs): calls matched to answers by sequence        *)
(* number, one current connection, a reader thread per accepted connection. *)
(* The native process may die and come back between any two steps; answers  *)
(* are delayed at will, and a call gives up after five seconds.             *)
(***************************************************************************)
EXTENDS Naturals

CONSTANTS
  CtrlCalls,     \* calls of call_action
  CtrlClients    \* connections of the native process, one after the other

VARIABLES
  nextSeq,       \* CtrlShared.next_seq
  ctrlConn,      \* CtrlShared.conn: the connection it dups, or "none"
  ctrlPending,   \* CtrlShared.pending: pairs <<seq, call whose sender it holds>>
  ctrlOpen,      \* connections with a living peer
  ctrlUsed,      \* connections accepted so far
  toClient,      \* requests on the way: [conn, seq, call]
  toDevice,      \* answers on the way: [conn, seq, call that was asked]
  ctrlPc, ctrlSeq, ctrlGrab, ctrlReply   \* the calls

ctrlVars == <<nextSeq, ctrlConn, ctrlPending, ctrlOpen, ctrlUsed, toClient, toDevice,
              ctrlPc, ctrlSeq, ctrlGrab, ctrlReply>>

CtrlEnded == {"new", "answered", "unsent", "timeout"}
CtrlGoto(k, pc) == ctrlPc' = [ctrlPc EXCEPT ![k] = pc]

CtrlTypeOK ==
  /\ nextSeq \in Nat \ {0}
  /\ ctrlConn \in {"none"} \cup CtrlClients
  /\ ctrlPending \subseteq Nat \X CtrlCalls
  /\ ctrlOpen \subseteq ctrlUsed
  /\ ctrlPc \in [CtrlCalls -> CtrlEnded \cup {"grab", "send", "wait"}]

CtrlInit ==
  /\ nextSeq = 1 /\ ctrlConn = "none" /\ ctrlPending = {}
  /\ ctrlOpen = {} /\ ctrlUsed = {} /\ toClient = {} /\ toDevice = {}
  /\ ctrlPc = [k \in CtrlCalls |-> "new"] /\ ctrlSeq = [k \in CtrlCalls |-> 0]
  /\ ctrlGrab = [k \in CtrlCalls |-> "none"] /\ ctrlReply = [k \in CtrlCalls |-> "none"]

\* The acceptor makes the new connection the current one; calls of the old one stay pending.
Accept(c) ==
  /\ c \notin ctrlUsed
  /\ ctrlUsed' = ctrlUsed \cup {c} /\ ctrlOpen' = ctrlOpen \cup {c} /\ ctrlConn' = c
  /\ UNCHANGED <<nextSeq, ctrlPending, toClient, toDevice, ctrlPc, ctrlSeq, ctrlGrab, ctrlReply>>

\* The native process dies: its messages are lost, its reader thread ends, conn is kept.
ClientDies(c) ==
  /\ c \in ctrlOpen /\ ctrlOpen' = ctrlOpen \ {c}
  /\ toClient' = {m \in toClient : m.conn # c}
  /\ toDevice' \in {toDevice, {m \in toDevice : m.conn # c}}
  /\ UNCHANGED <<nextSeq, ctrlConn, ctrlPending, ctrlUsed, ctrlPc, ctrlSeq, ctrlGrab, ctrlReply>>

\* Mutant: the sequence number is never advanced.
CallRegisterSameSeq(k) ==
  /\ ctrlPc[k] = "new" /\ CtrlGoto(k, "grab")
  /\ ctrlSeq' = [ctrlSeq EXCEPT ![k] = nextSeq]
  /\ ctrlPending' = {p \in ctrlPending : p[1] # nextSeq} \cup {<<nextSeq, k>>}
  /\ UNCHANGED <<nextSeq, ctrlConn, ctrlOpen, ctrlUsed, toClient, toDevice, ctrlGrab, ctrlReply>>

\* call_action takes a number and registers its sender under one lock ...
CallRegister(k) ==
  /\ ctrlPc[k] = "new"
  /\ ctrlSeq' = [ctrlSeq EXCEPT ![k] = nextSeq]
  /\ nextSeq' = nextSeq + 1
  /\ ctrlPending' = {p \in ctrlPending : p[1] # nextSeq} \cup {<<nextSeq, k>>}
  /\ CtrlGoto(k, "grab")
  /\ UNCHANGED <<ctrlConn, ctrlOpen, ctrlUsed, toClient, toDevice, ctrlGrab, ctrlReply>>

\* ... write_message dups the current connection under another ...
CallGrab(k) ==
  /\ ctrlPc[k] = "grab"
  /\ IF ctrlConn = "none"
     THEN /\ ctrlPending' = {p \in ctrlPending : p[1] # ctrlSeq[k]}
          /\ CtrlGoto(k, "unsent") /\ UNCHANGED ctrlGrab
     ELSE ctrlGrab' = [ctrlGrab EXCEPT ![k] = ctrlConn] /\ CtrlGoto(k, "send") /\ UNCHANGED ctrlPending
  /\ UNCHANGED <<nextSeq, ctrlConn, ctrlOpen, ctrlUsed, toClient, toDevice, ctrlSeq, ctrlReply>>

\* ... and sends on it from a blocking thread, which fails when the peer is gone.
CallSend(k) ==
  /\ ctrlPc[k] = "send"
  /\ IF ctrlGrab[k] \in ctrlOpen
     THEN /\ toClient' = toClient \cup {[conn |-> ctrlGrab[k], seq |-> ctrlSeq[k], call |-> k]}
          /\ CtrlGoto(k, "wait") /\ UNCHANGED ctrlPending
     ELSE /\ ctrlPending' = {p \in ctrlPending : p[1] # ctrlSeq[k]}
          /\ CtrlGoto(k, "unsent") /\ UNCHANGED toClient
  /\ UNCHANGED <<nextSeq, ctrlConn, ctrlOpen, ctrlUsed, toDevice, ctrlSeq, ctrlGrab, ctrlReply>>

\* The native process answers a request, whenever it likes and in any order.
ClientAnswers(m) ==
  /\ m.conn \in ctrlOpen
  /\ toClient' = toClient \ {m} /\ toDevice' = toDevice \cup {m}
  /\ UNCHANGED <<nextSeq, ctrlConn, ctrlPending, ctrlOpen, ctrlUsed, ctrlPc, ctrlSeq, ctrlGrab, ctrlReply>>

\* read_loop hands an answer to the sender registered for its number and drops it otherwise.
ReadAnswer(m) ==
  /\ toDevice' = toDevice \ {m}
  /\ ctrlPending' = {p \in ctrlPending : p[1] # m.seq}
  /\ LET got == {p[2] : p \in {q \in ctrlPending : q[1] = m.seq}} IN
     /\ ctrlReply' = [k \in CtrlCalls |-> IF k \in got THEN m.call ELSE ctrlReply[k]]
     /\ ctrlPc' = [k \in CtrlCalls |-> IF k \in got THEN "answered" ELSE ctrlPc[k]]
  /\ UNCHANGED <<nextSeq, ctrlConn, ctrlOpen, ctrlUsed, toClient, ctrlSeq, ctrlGrab>>

\* Mutant: a call that gives up leaves its sender in the table.
CallTimeoutLeaks(k) ==
  /\ ctrlPc[k] = "wait" /\ CtrlGoto(k, "timeout")
  /\ UNCHANGED <<nextSeq, ctrlConn, ctrlPending, ctrlOpen, ctrlUsed, toClient, toDevice, ctrlSeq, ctrlGrab, ctrlReply>>

CallTimeout(k) ==
  /\ ctrlPc[k] = "wait"
  /\ ctrlPending' = {p \in ctrlPending : p[1] # ctrlSeq[k]}
  /\ CtrlGoto(k, "timeout")
  /\ UNCHANGED <<nextSeq, ctrlConn, ctrlOpen, ctrlUsed, toClient, toDevice, ctrlSeq, ctrlGrab, ctrlReply>>

CtrlTask(k) == CallGrab(k) \/ CallSend(k) \/ CallTimeout(k)

CtrlNext ==
  \/ \E c \in CtrlClients : Accept(c) \/ ClientDies(c)
  \/ \E k \in CtrlCalls : CallRegister(k) \/ CtrlTask(k)
  \/ \E m \in toClient : ClientAnswers(m)
  \/ \E m \in toDevice : ReadAnswer(m)

\* A sender is registered exactly while its call is under way, so that a native process that
\* never answers, or dies, leaves nothing behind in the table.
PendingIsUnderWay ==
  {p[2] : p \in ctrlPending} = {k \in CtrlCalls : ctrlPc[k] \in {"grab", "send", "wait"}}

\* The table of pending calls is exact.
CtrlInv == CtrlTypeOK /\ PendingIsUnderWay

CtrlSpec == CtrlInit /\ [][CtrlNext]_ctrlVars /\ \A k \in CtrlCalls : WF_ctrlVars(CtrlTask(k))

CtrlPhase(pc) ==
  CASE pc = "new" -> "new"
    [] pc \in {"grab", "send", "wait"} -> "waiting"
    [] pc = "answered" -> "answered"
    [] OTHER -> "failed"

\* The socket as the module RemoteCall describes it: a call returns the answer to its own request
\* or an error, and returns, although answers are delayed past timeouts and reconnects.
CtrlRemote == INSTANCE RemoteCall WITH
  Calls <- CtrlCalls, phase <- [k \in CtrlCalls |-> CtrlPhase(ctrlPc[k])], answer <- ctrlReply

=============================================================================
