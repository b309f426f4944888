---------------------------- MODULE Links_proofs ----------------------------
(***************************************************************************)
(* Proofs about the links of the device, each on its own.                  *)
(*                                                                         *)
(* The two transports of calls.  The control socket, for any number of     *)
(* calls and clients: the table of pending calls is exact, and the socket  *)
(* implements RemoteCall, so that a late answer never reaches another      *)
(* call.  JSON-RPC, for any calls, attempts and panics: the client's table *)
(* holds the attempt each call is waiting for, the device runs a call at   *)
(* most once per attempt, and the channel implements RemoteCall.           *)
(*                                                                         *)
(* The links to the world: the cloud connection, the MQTT client and the   *)
(* disk bridge, for any number of requests, managers, channels and reads.  *)
(***************************************************************************)
EXTENDS CtrlSocket, RpcCalls, Cloud, Mqtt, DiskBridge, FiniteSetTheorems, SequenceTheorems, TLAPS

-----------------------------------------------------------------------------
(* The control socket *)

UnderWay == {"grab", "send", "wait"}

\* A call that has registered has a number below next_seq, and no two have the same.
NumbersTaken ==
  /\ \A k \in CtrlCalls : ctrlPc[k] # "new" => ctrlSeq[k] # 0 /\ ctrlSeq[k] < nextSeq
  /\ \A j, k \in CtrlCalls : ctrlPc[j] # "new" /\ ctrlPc[k] # "new" /\ ctrlSeq[j] = ctrlSeq[k] => j = k

\* The table holds the senders of the calls under way, under their own numbers.
PendingExact ==
  /\ \A p \in ctrlPending : p[1] = ctrlSeq[p[2]] /\ ctrlPc[p[2]] \in UnderWay
  /\ \A k \in CtrlCalls : ctrlPc[k] \in UnderWay => <<ctrlSeq[k], k>> \in ctrlPending

\* A message on the way, however old, carries the number of the call it is about.
MessagesTrue(msgs) ==
  \A m \in msgs : m.call \in CtrlCalls /\ ctrlPc[m.call] # "new" /\ m.seq = ctrlSeq[m.call]

\* The inductive invariant.
CtrlIInv ==
  /\ CtrlTypeOK
  /\ ctrlSeq \in [CtrlCalls -> Nat]
  /\ ctrlReply \in [CtrlCalls -> CtrlCalls \cup {"none"}]
  /\ NumbersTaken
  /\ PendingExact
  /\ MessagesTrue(toClient)
  /\ MessagesTrue(toDevice)

\* The answer read_loop takes from the socket can only be for the call it was asked for.
LEMMA AnswerFindsItsCall ==
  ASSUME CtrlIInv, NEW m \in toDevice
  PROVE  {p[2] : p \in {q \in ctrlPending : q[1] = m.seq}}
           = IF ctrlPc[m.call] \in UnderWay THEN {m.call} ELSE {}
<1> DEFINE got == {p[2] : p \in {q \in ctrlPending : q[1] = m.seq}}
<1>1. m.call \in CtrlCalls /\ ctrlPc[m.call] # "new" /\ m.seq = ctrlSeq[m.call]
  BY DEF CtrlIInv, MessagesTrue
<1>2. ASSUME NEW p \in ctrlPending, p[1] = m.seq
      PROVE  p[2] = m.call /\ ctrlPc[m.call] \in UnderWay
  <2>1. p[2] \in CtrlCalls /\ p[1] = ctrlSeq[p[2]] /\ ctrlPc[p[2]] \in UnderWay
    BY DEF CtrlIInv, CtrlTypeOK, PendingExact
  <2>2. ctrlPc[p[2]] # "new"
    BY <2>1 DEF UnderWay
  <2> QED BY <1>1, <1>2, <2>1, <2>2 DEF CtrlIInv, NumbersTaken
<1>3. CASE ctrlPc[m.call] \in UnderWay
  <2>1. <<m.seq, m.call>> \in ctrlPending
    BY <1>1, <1>3 DEF CtrlIInv, PendingExact
  <2>2. m.call \in got
    BY <2>1
  <2>3. got \subseteq {m.call}
    BY <1>2
  <2> QED BY <1>3, <2>2, <2>3
<1>4. CASE ctrlPc[m.call] \notin UnderWay
  <2>1. got = {}
    BY <1>2, <1>4
  <2> QED BY <1>4, <2>1
<1> QED BY <1>3, <1>4

LEMMA CtrlInitInv == CtrlInit => CtrlIInv
<1> SUFFICES ASSUME CtrlInit PROVE CtrlIInv
  OBVIOUS
<1>1. CtrlTypeOK
  BY DEF CtrlInit, CtrlTypeOK, CtrlEnded
<1>2. NumbersTaken /\ PendingExact /\ MessagesTrue(toClient) /\ MessagesTrue(toDevice)
  BY DEF CtrlInit, NumbersTaken, PendingExact, MessagesTrue, UnderWay
<1> QED BY <1>1, <1>2 DEF CtrlInit, CtrlIInv

\* A call that stays under way keeps its entry.
LEMMA StaysUnderWay ==
  ASSUME CtrlIInv, NEW k \in CtrlCalls, NEW pc \in UnderWay,
         ctrlPc[k] \in UnderWay, CtrlGoto(k, pc),
         UNCHANGED <<nextSeq, ctrlPending, ctrlSeq, ctrlReply>>
  PROVE  /\ ctrlPc' \in [CtrlCalls -> CtrlEnded \cup UnderWay]
         /\ NumbersTaken' /\ PendingExact'
         /\ \A j \in CtrlCalls : ctrlPc[j] # "new" => ctrlPc'[j] # "new"
<1>1. ctrlPc' = [ctrlPc EXCEPT ![k] = pc] /\ ctrlPc \in [CtrlCalls -> CtrlEnded \cup UnderWay]
  BY DEF CtrlGoto, CtrlIInv, CtrlTypeOK, UnderWay
<1>2. NumbersTaken'
  BY <1>1 DEF CtrlIInv, NumbersTaken, UnderWay
<1>3. PendingExact'
  BY <1>1 DEF CtrlIInv, CtrlTypeOK, PendingExact, UnderWay
<1> QED BY <1>1, <1>2, <1>3 DEF UnderWay, CtrlEnded

\* A call that gives up takes its own entry out of the table and no other.
LEMMA GivesUp ==
  ASSUME CtrlIInv, NEW k \in CtrlCalls, NEW pc \in {"unsent", "timeout"},
         ctrlPc[k] \in UnderWay, CtrlGoto(k, pc),
         ctrlPending' = {p \in ctrlPending : p[1] # ctrlSeq[k]},
         UNCHANGED <<nextSeq, ctrlSeq, ctrlReply>>
  PROVE  /\ ctrlPc' \in [CtrlCalls -> CtrlEnded \cup UnderWay]
         /\ NumbersTaken' /\ PendingExact'
         /\ \A j \in CtrlCalls : ctrlPc[j] # "new" => ctrlPc'[j] # "new"
<1>1. ctrlPc' = [ctrlPc EXCEPT ![k] = pc] /\ ctrlPc \in [CtrlCalls -> CtrlEnded \cup UnderWay]
  BY DEF CtrlGoto, CtrlIInv, CtrlTypeOK, UnderWay
<1>2. NumbersTaken'
  BY <1>1 DEF CtrlIInv, NumbersTaken, UnderWay
<1>3. ASSUME NEW p \in ctrlPending'
      PROVE  p[1] = ctrlSeq'[p[2]] /\ ctrlPc'[p[2]] \in UnderWay
  <2>1. p \in ctrlPending /\ p[1] # ctrlSeq[k] /\ p[2] \in CtrlCalls
    BY DEF CtrlIInv, CtrlTypeOK
  <2>2. p[2] # k
    BY <2>1 DEF CtrlIInv, PendingExact
  <2> QED BY <1>1, <2>1, <2>2 DEF CtrlIInv, PendingExact
<1>4. ASSUME NEW j \in CtrlCalls, ctrlPc'[j] \in UnderWay
      PROVE  <<ctrlSeq'[j], j>> \in ctrlPending'
  <2>1. j # k /\ ctrlPc[j] \in UnderWay
    BY <1>1, <1>4 DEF UnderWay
  <2>2. <<ctrlSeq[j], j>> \in ctrlPending
    BY <2>1 DEF CtrlIInv, PendingExact
  <2>3. ctrlSeq[j] # ctrlSeq[k]
    BY <2>1 DEF CtrlIInv, NumbersTaken, UnderWay
  <2> QED BY <2>2, <2>3
<1>5. PendingExact'
  BY <1>3, <1>4 DEF PendingExact
<1> QED BY <1>1, <1>2, <1>5 DEF UnderWay, CtrlEnded

LEMMA CtrlNextInv == CtrlIInv /\ [CtrlNext]_ctrlVars => CtrlIInv'
<1> SUFFICES ASSUME CtrlIInv, [CtrlNext]_ctrlVars PROVE CtrlIInv'
  OBVIOUS
<1> USE DEF UnderWay
<1>0. /\ CtrlTypeOK /\ NumbersTaken /\ PendingExact /\ MessagesTrue(toClient) /\ MessagesTrue(toDevice)
      /\ ctrlSeq \in [CtrlCalls -> Nat] /\ ctrlReply \in [CtrlCalls -> CtrlCalls \cup {"none"}]
  BY DEF CtrlIInv
<1>1. ASSUME NEW c \in CtrlClients, Accept(c) PROVE CtrlIInv'
  <2>1. CtrlTypeOK'
    BY <1>0, <1>1 DEF Accept, CtrlTypeOK
  <2>2. NumbersTaken' /\ PendingExact' /\ MessagesTrue(toClient)' /\ MessagesTrue(toDevice)'
    BY <1>0, <1>1 DEF Accept, NumbersTaken, PendingExact, MessagesTrue
  <2> QED BY <1>0, <1>1, <2>1, <2>2 DEF Accept, CtrlIInv
<1>2. ASSUME NEW c \in CtrlClients, ClientDies(c) PROVE CtrlIInv'
  <2>1. CtrlTypeOK'
    BY <1>0, <1>2 DEF ClientDies, CtrlTypeOK
  <2>2. NumbersTaken' /\ PendingExact' /\ MessagesTrue(toClient)' /\ MessagesTrue(toDevice)'
    BY <1>0, <1>2 DEF ClientDies, NumbersTaken, PendingExact, MessagesTrue
  <2> QED BY <1>0, <1>2, <2>1, <2>2 DEF ClientDies, CtrlIInv
<1>3. ASSUME NEW k \in CtrlCalls, CallRegister(k) PROVE CtrlIInv'
  <2>1. /\ ctrlSeq' = [ctrlSeq EXCEPT ![k] = nextSeq] /\ nextSeq' = nextSeq + 1
        /\ ctrlPending' = {p \in ctrlPending : p[1] # nextSeq} \cup {<<nextSeq, k>>}
        /\ ctrlPc' = [ctrlPc EXCEPT ![k] = "grab"] /\ ctrlPc[k] = "new"
        /\ nextSeq \in Nat /\ nextSeq # 0
        /\ UNCHANGED <<ctrlConn, ctrlOpen, ctrlUsed, toClient, toDevice, ctrlGrab, ctrlReply>>
    BY <1>0, <1>3 DEF CallRegister, CtrlGoto, CtrlTypeOK
  <2>2. \A j \in CtrlCalls : ctrlPc[j] # "new" => j # k /\ ctrlSeq'[j] = ctrlSeq[j] /\ ctrlPc'[j] = ctrlPc[j]
    BY <1>0, <2>1 DEF CtrlTypeOK
  <2>3. CtrlTypeOK'
    BY <1>0, <2>1 DEF CtrlTypeOK
  <2>4. NumbersTaken'
    BY <1>0, <2>1 DEF NumbersTaken, CtrlTypeOK
  <2>5. PendingExact'
    <3>1. ASSUME NEW p \in ctrlPending'
          PROVE  p[1] = ctrlSeq'[p[2]] /\ ctrlPc'[p[2]] \in UnderWay
      <4>1. CASE p = <<nextSeq, k>>
        BY <1>0, <2>1, <4>1 DEF CtrlTypeOK
      <4>2. CASE p \in ctrlPending
        <5>1. p[2] \in CtrlCalls /\ ctrlPc[p[2]] \in UnderWay /\ p[1] = ctrlSeq[p[2]]
          BY <1>0, <4>2 DEF CtrlTypeOK, PendingExact
        <5> QED BY <2>2, <5>1
      <4> QED BY <2>1, <4>1, <4>2
    <3>2. ASSUME NEW j \in CtrlCalls, ctrlPc'[j] \in UnderWay
          PROVE  <<ctrlSeq'[j], j>> \in ctrlPending'
      <4>1. CASE j = k
        BY <1>0, <2>1, <4>1
      <4>2. CASE j # k
        <5>1. ctrlPc[j] \in UnderWay /\ ctrlSeq'[j] = ctrlSeq[j]
          BY <1>0, <2>1, <3>2, <4>2 DEF CtrlTypeOK
        <5>2. <<ctrlSeq[j], j>> \in ctrlPending /\ ctrlSeq[j] < nextSeq /\ ctrlSeq[j] \in Nat
          BY <1>0, <5>1 DEF PendingExact, NumbersTaken
        <5> QED BY <2>1, <5>1, <5>2
      <4> QED BY <4>1, <4>2
    <3> QED BY <3>1, <3>2 DEF PendingExact
  <2>6. MessagesTrue(toClient)' /\ MessagesTrue(toDevice)'
    BY <1>0, <2>1, <2>2 DEF MessagesTrue
  <2> QED BY <1>0, <2>1, <2>3, <2>4, <2>5, <2>6 DEF CtrlIInv
<1>4. ASSUME NEW k \in CtrlCalls, CtrlTask(k) PROVE CtrlIInv'
  <2> DEFINE Kept == /\ ctrlPc' \in [CtrlCalls -> CtrlEnded \cup UnderWay]
                     /\ NumbersTaken' /\ PendingExact'
                     /\ \A j \in CtrlCalls : ctrlPc[j] # "new" => ctrlPc'[j] # "new"
  <2>1. /\ UNCHANGED <<nextSeq, ctrlConn, ctrlOpen, ctrlUsed, toDevice, ctrlSeq, ctrlReply>>
        /\ ctrlPc[k] \in UnderWay /\ ctrlPending' \subseteq ctrlPending
        /\ \A m \in toClient' : m \in toClient \/ (m.seq = ctrlSeq[k] /\ m.call = k)
    BY <1>4 DEF CtrlTask, CallGrab, CallSend, CallTimeout
  <2>2. Kept
    <3>1. \/ \E pc \in UnderWay : CtrlGoto(k, pc) /\ UNCHANGED ctrlPending
          \/ \E pc \in {"unsent", "timeout"} :
               CtrlGoto(k, pc) /\ ctrlPending' = {p \in ctrlPending : p[1] # ctrlSeq[k]}
      BY <1>4 DEF CtrlTask, CallGrab, CallSend, CallTimeout
    <3>2. ASSUME NEW pc \in UnderWay, CtrlGoto(k, pc), UNCHANGED ctrlPending PROVE Kept
      BY <2>1, <3>2, StaysUnderWay
    <3>3. ASSUME NEW pc \in {"unsent", "timeout"}, CtrlGoto(k, pc),
                 ctrlPending' = {p \in ctrlPending : p[1] # ctrlSeq[k]}
          PROVE  Kept
      BY <2>1, <3>3, GivesUp
    <3> QED BY <3>1, <3>2, <3>3
  <2>3. CtrlTypeOK'
    BY <1>0, <2>1, <2>2 DEF CtrlTypeOK
  <2>4. MessagesTrue(toClient)' /\ MessagesTrue(toDevice)'
    BY <1>0, <2>1, <2>2 DEF MessagesTrue
  <2> QED BY <1>0, <2>1, <2>2, <2>3, <2>4 DEF CtrlIInv
<1>5. ASSUME NEW m \in toClient, ClientAnswers(m) PROVE CtrlIInv'
  <2>1. CtrlTypeOK'
    BY <1>0, <1>5 DEF ClientAnswers, CtrlTypeOK
  <2>2. NumbersTaken' /\ PendingExact' /\ MessagesTrue(toClient)' /\ MessagesTrue(toDevice)'
    BY <1>0, <1>5 DEF ClientAnswers, NumbersTaken, PendingExact, MessagesTrue
  <2> QED BY <1>0, <1>5, <2>1, <2>2 DEF ClientAnswers, CtrlIInv
<1>6. ASSUME NEW m \in toDevice, ReadAnswer(m) PROVE CtrlIInv'
  <2> DEFINE got == IF ctrlPc[m.call] \in UnderWay THEN {m.call} ELSE {}
  <2>1. /\ ctrlPending' = {p \in ctrlPending : p[1] # m.seq}
        /\ ctrlReply' = [k \in CtrlCalls |-> IF k \in got THEN m.call ELSE ctrlReply[k]]
        /\ ctrlPc' = [k \in CtrlCalls |-> IF k \in got THEN "answered" ELSE ctrlPc[k]]
        /\ toDevice' = toDevice \ {m}
        /\ UNCHANGED <<nextSeq, ctrlConn, ctrlOpen, ctrlUsed, toClient, ctrlSeq, ctrlGrab>>
    BY <1>6, AnswerFindsItsCall DEF ReadAnswer
  <2>2. m.call \in CtrlCalls /\ m.seq = ctrlSeq[m.call] /\ ctrlPc[m.call] # "new"
    BY <1>0 DEF MessagesTrue
  <2>3. \A j \in CtrlCalls : ctrlPc[j] # "new" => ctrlPc'[j] # "new"
    BY <2>1
  <2>4. CtrlTypeOK'
    <3>1. ctrlPc' \in [CtrlCalls -> CtrlEnded \cup {"grab", "send", "wait"}]
      BY <1>0, <2>1 DEF CtrlTypeOK, CtrlEnded
    <3> QED BY <1>0, <2>1, <3>1 DEF CtrlTypeOK
  <2>5. NumbersTaken'
    BY <1>0, <2>1, <2>2 DEF NumbersTaken
  <2>6. PendingExact'
    <3>1. ASSUME NEW p \in ctrlPending'
          PROVE  p[1] = ctrlSeq'[p[2]] /\ ctrlPc'[p[2]] \in UnderWay
      <4>1. p \in ctrlPending /\ p[1] # m.seq /\ p[2] \in CtrlCalls
            /\ p[1] = ctrlSeq[p[2]] /\ ctrlPc[p[2]] \in UnderWay
        BY <1>0, <2>1 DEF CtrlTypeOK, PendingExact
      <4>2. p[2] # m.call
        BY <2>2, <4>1
      <4> QED BY <2>1, <4>1, <4>2
    <3>2. ASSUME NEW j \in CtrlCalls, ctrlPc'[j] \in UnderWay
          PROVE  <<ctrlSeq'[j], j>> \in ctrlPending'
      <4>1. j \notin got /\ ctrlPc[j] \in UnderWay
        BY <2>1, <3>2
      <4>2. j # m.call
        BY <4>1
      <4>3. ctrlSeq[j] # m.seq
        BY <1>0, <2>2, <4>1, <4>2 DEF NumbersTaken
      <4> QED BY <1>0, <2>1, <4>1, <4>3 DEF PendingExact
    <3> QED BY <3>1, <3>2 DEF PendingExact
  <2>7. MessagesTrue(toClient)' /\ MessagesTrue(toDevice)'
    BY <1>0, <2>1, <2>3 DEF MessagesTrue
  <2>8. ctrlReply' \in [CtrlCalls -> CtrlCalls \cup {"none"}]
    BY <1>0, <2>1, <2>2
  <2> QED BY <1>0, <2>1, <2>4, <2>5, <2>6, <2>7, <2>8 DEF CtrlIInv
<1>7. CASE UNCHANGED ctrlVars
  BY <1>0, <1>7 DEF ctrlVars, CtrlIInv, CtrlTypeOK, NumbersTaken, PendingExact, MessagesTrue
<1> QED BY <1>1, <1>2, <1>3, <1>4, <1>5, <1>6, <1>7 DEF CtrlNext

\* CtrlInv holds in every state: a sender is in the table exactly while its call is under way,
\* for any number of calls and of connections of the native process.
THEOREM CtrlInvariant == CtrlSpec => []CtrlInv
<1>1. CtrlIInv => CtrlInv
  <2> SUFFICES ASSUME CtrlIInv PROVE PendingIsUnderWay
    BY DEF CtrlIInv, CtrlInv
  <2>1. ASSUME NEW p \in ctrlPending PROVE p[2] \in CtrlCalls /\ ctrlPc[p[2]] \in UnderWay
    BY DEF CtrlIInv, CtrlTypeOK, PendingExact
  <2>2. ASSUME NEW k \in CtrlCalls, ctrlPc[k] \in UnderWay PROVE \E p \in ctrlPending : p[2] = k
    <3>1. <<ctrlSeq[k], k>> \in ctrlPending
      BY <2>2 DEF CtrlIInv, PendingExact
    <3> QED BY <3>1
  <2> QED BY <2>1, <2>2 DEF PendingIsUnderWay, UnderWay
<1> QED BY <1>1, CtrlInitInv, CtrlNextInv, PTL DEF CtrlSpec

\* The socket implements RemoteCall: a call returns the answer to its own request, once, or an
\* error, although answers arrive after time-outs, over other connections and in any order.
THEOREM CtrlImplements == CtrlSpec => CtrlRemote!RemoteSafety
<1> USE DEF UnderWay
<1>1. CtrlInit => CtrlRemote!RemoteInit
  BY DEF CtrlInit, CtrlRemote!RemoteInit, CtrlPhase
<1>2. CtrlIInv /\ [CtrlNext]_ctrlVars => [CtrlRemote!RemoteNext]_CtrlRemote!remoteVars
  <2> SUFFICES ASSUME CtrlIInv, [CtrlNext]_ctrlVars
               PROVE  CtrlRemote!RemoteNext \/ UNCHANGED CtrlRemote!remoteVars
    OBVIOUS
  <2>0. ctrlPc \in [CtrlCalls -> CtrlEnded \cup UnderWay] /\ ctrlReply \in [CtrlCalls -> CtrlCalls \cup {"none"}]
    BY DEF CtrlIInv, CtrlTypeOK
  <2>1. CASE UNCHANGED <<ctrlPc, ctrlReply>>
    BY <2>1 DEF CtrlRemote!remoteVars
  <2>2. ASSUME NEW k \in CtrlCalls, CallRegister(k) PROVE CtrlRemote!Call(k)
    BY <2>0, <2>2 DEF CallRegister, CtrlGoto, CtrlRemote!Call, CtrlPhase
  <2>3. ASSUME NEW k \in CtrlCalls, CtrlTask(k)
        PROVE  CtrlRemote!Fail(k) \/ UNCHANGED CtrlRemote!remoteVars
    <3>1. ctrlPc[k] \in UnderWay /\ UNCHANGED ctrlReply
      BY <2>3 DEF CtrlTask, CallGrab, CallSend, CallTimeout
    <3>2. \/ \E pc \in {"send", "wait"} : ctrlPc' = [ctrlPc EXCEPT ![k] = pc]
          \/ \E pc \in {"unsent", "timeout"} : ctrlPc' = [ctrlPc EXCEPT ![k] = pc]
      BY <2>3 DEF CtrlTask, CallGrab, CallSend, CallTimeout, CtrlGoto
    <3>3. ASSUME NEW pc \in {"send", "wait"}, ctrlPc' = [ctrlPc EXCEPT ![k] = pc]
          PROVE  UNCHANGED CtrlRemote!remoteVars
      BY <2>0, <3>1, <3>3 DEF CtrlRemote!remoteVars, CtrlPhase
    <3>4. ASSUME NEW pc \in {"unsent", "timeout"}, ctrlPc' = [ctrlPc EXCEPT ![k] = pc]
          PROVE  CtrlRemote!Fail(k)
      BY <2>0, <3>1, <3>4 DEF CtrlRemote!Fail, CtrlPhase
    <3> QED BY <3>2, <3>3, <3>4
  <2>4. ASSUME NEW m \in toDevice, ReadAnswer(m)
        PROVE  CtrlRemote!Answer(m.call) \/ UNCHANGED CtrlRemote!remoteVars
    <3> DEFINE got == IF ctrlPc[m.call] \in UnderWay THEN {m.call} ELSE {}
    <3>1. /\ ctrlReply' = [k \in CtrlCalls |-> IF k \in got THEN m.call ELSE ctrlReply[k]]
          /\ ctrlPc' = [k \in CtrlCalls |-> IF k \in got THEN "answered" ELSE ctrlPc[k]]
      BY <2>4, AnswerFindsItsCall DEF ReadAnswer
    <3>2. CASE ctrlPc[m.call] \in UnderWay
      <4>1. /\ ctrlReply' = [ctrlReply EXCEPT ![m.call] = m.call]
            /\ ctrlPc' = [ctrlPc EXCEPT ![m.call] = "answered"]
        BY <2>0, <3>1, <3>2
      <4>2. m.call \in CtrlCalls
        BY DEF CtrlIInv, MessagesTrue
      <4> QED BY <2>0, <3>2, <4>1, <4>2 DEF CtrlRemote!Answer, CtrlPhase
    <3>3. CASE ctrlPc[m.call] \notin UnderWay
      <4>1. ctrlReply' = ctrlReply /\ ctrlPc' = ctrlPc
        BY <2>0, <3>1, <3>3
      <4> QED BY <4>1 DEF CtrlRemote!remoteVars
    <3> QED BY <3>2, <3>3
  <2>5. ASSUME NEW m \in toDevice PROVE m.call \in CtrlCalls
    BY DEF CtrlIInv, MessagesTrue
  <2>6. CASE \E c \in CtrlClients : Accept(c) \/ ClientDies(c)
    BY <2>1, <2>6 DEF Accept, ClientDies
  <2>7. CASE \E m \in toClient : ClientAnswers(m)
    BY <2>1, <2>7 DEF ClientAnswers
  <2> QED BY <2>1, <2>2, <2>3, <2>4, <2>5, <2>6, <2>7 DEF CtrlNext, ctrlVars, CtrlRemote!RemoteNext
<1> QED BY <1>1, <1>2, CtrlInitInv, CtrlNextInv, PTL DEF CtrlSpec, CtrlRemote!RemoteSafety

-----------------------------------------------------------------------------
(* JSON-RPC *)

Request == [kind : {"request"}, id : Nat, call : RpcCallers]
Response == [kind : {"result", "error"}, id : Nat, call : RpcCallers]
Event == {[kind |-> "failsafeMode"]}

RTypes ==
  /\ nextId \in Nat
  /\ rpcPending \subseteq Nat \X RpcCallers
  /\ rpcPc \in [RpcCallers -> RpcEnded \cup {"send", "wait", "backoff"}]
  /\ attempt \in [RpcCallers -> Nat]
  /\ rpcId \in [RpcCallers -> Nat]
  /\ executed \in [RpcCallers -> Nat]
  /\ up \in Seq(Request)
  /\ down \in Seq(Response \cup Event)
  /\ serving \in Request \cup {NoMessage}

\* A call that may still make an attempt has attempts left.
AttemptsLeft ==
  \A k \in RpcCallers : /\ attempt[k] <= MaxAttempts
                        /\ rpcPc[k] \in {"new", "send", "backoff"} => attempt[k] < MaxAttempts

\* The table holds the waiting calls under the ids they wait for, which are distinct.
TableExact ==
  /\ \A p \in rpcPending : p[1] = rpcId[p[2]] /\ rpcPc[p[2]] = "wait"
  /\ \A k \in RpcCallers : rpcPc[k] = "wait" => <<rpcId[k], k>> \in rpcPending

IdsDistinct ==
  /\ \A k \in RpcCallers : rpcPc[k] = "wait" => rpcId[k] \in 1..nextId
  /\ \A j, k \in RpcCallers : rpcPc[j] = "wait" /\ rpcPc[k] = "wait" /\ rpcId[j] = rpcId[k] => j = k

\* A message carries an id that has been taken, and no call but its own waits for that id.
Owned(m) ==
  m.id \in 1..nextId /\ \A k \in RpcCallers : rpcPc[k] = "wait" /\ rpcId[k] = m.id => k = m.call

\* The device has run the call of the message.
Ran(m) == executed[m.call] >= 1

MessagesOwned ==
  /\ \A i \in 1..Len(up) : Owned(up[i])
  /\ serving # NoMessage => Owned(serving) /\ Ran(serving)
  /\ \A i \in 1..Len(down) : down[i].kind # "failsafeMode" => Owned(down[i]) /\ Ran(down[i])
  /\ \A k \in RpcCallers : rpcPc[k] = "returned" => executed[k] >= 1

\* The ids of the requests of k on their way, which come in the order they were taken.
Queued(k) == {n \in 1..nextId : \E i \in 1..Len(up) : up[i].id = n /\ up[i].call = k}
UpInOrder == \A i, j \in 1..Len(up) : i < j => up[i].id < up[j].id
RunsCounted == \A k \in RpcCallers : executed[k] + Cardinality(Queued(k)) <= attempt[k]

\* The inductive invariant.
RpcIInv ==
  RTypes /\ AttemptsLeft /\ TableExact /\ IdsDistinct /\ MessagesOwned /\ UpInOrder /\ RunsCounted

-----------------------------------------------------------------------------
LEMMA QueuedFinite ==
  ASSUME NEW k, nextId \in Nat
  PROVE  IsFiniteSet(Queued(k)) /\ Cardinality(Queued(k)) \in Nat
<1>1. IsFiniteSet(1..nextId)
  BY FS_Interval
<1>2. Queued(k) \in SUBSET (1..nextId)
  BY DEF Queued
<1>3. IsFiniteSet(Queued(k))
  BY <1>1, <1>2, FS_Subset
<1> QED BY <1>3, FS_CardinalityType

\* What counts is the queue: with the same requests on their way, or fewer, counts do not grow.
LEMMA QueuedShrinks ==
  ASSUME NEW k, NEW S, nextId \in Nat, S \in SUBSET Queued(k)
  PROVE  IsFiniteSet(S) /\ Cardinality(S) \in Nat /\ Cardinality(S) <= Cardinality(Queued(k))
<1>1. IsFiniteSet(Queued(k))
  BY QueuedFinite
<1>2. IsFiniteSet(S) /\ Cardinality(S) <= Cardinality(Queued(k))
  BY <1>1, FS_Subset
<1> QED BY <1>2, FS_CardinalityType

LEMMA RpcInitInv == RpcInit => RpcIInv
<1> SUFFICES ASSUME RpcInit PROVE RpcIInv
  OBVIOUS
<1>1. RTypes
  <2>1. up \in Seq(Request) /\ down \in Seq(Response \cup Event)
    BY DEF RpcInit
  <2>2. serving \in Request \cup {NoMessage}
    BY DEF RpcInit
  <2>3. rpcPc \in [RpcCallers -> RpcEnded \cup {"send", "wait", "backoff"}]
    BY DEF RpcInit, RpcEnded
  <2> QED BY <2>1, <2>2, <2>3 DEF RpcInit, RTypes
<1>2. AttemptsLeft /\ TableExact /\ IdsDistinct
  BY RpcAssumption DEF RpcInit, AttemptsLeft, TableExact, IdsDistinct
<1>3. MessagesOwned /\ UpInOrder
  BY DEF RpcInit, MessagesOwned, UpInOrder
<1>4. RunsCounted
  <2> SUFFICES ASSUME NEW k \in RpcCallers PROVE executed[k] + Cardinality(Queued(k)) <= attempt[k]
    BY DEF RunsCounted
  <2>1. Queued(k) = {}
    BY DEF RpcInit, Queued
  <2>2. Cardinality(Queued(k)) = 0
    BY <2>1, FS_EmptySet
  <2>3. executed[k] = 0 /\ attempt[k] = 0
    BY DEF RpcInit
  <2> QED BY <2>2, <2>3
<1> QED BY <1>1, <1>2, <1>3, <1>4 DEF RpcIInv

\* Counts are not touched by what leaves the queue, the runs and the attempts alone.
LEMMA CountsKept ==
  ASSUME RunsCounted, UNCHANGED <<nextId, up, executed, attempt>>
  PROVE  UpInOrder => RunsCounted' /\ UpInOrder'
<1>1. ASSUME NEW k \in RpcCallers PROVE Queued(k)' = Queued(k)
  BY DEF Queued
<1>2. RunsCounted'
  <2> SUFFICES ASSUME NEW k \in RpcCallers
               PROVE  executed'[k] + Cardinality(Queued(k)') <= attempt'[k]
    BY DEF RunsCounted
  <2>1. executed[k] + Cardinality(Queued(k)) <= attempt[k]
    BY DEF RunsCounted
  <2> QED BY <1>1, <2>1
<1> QED BY <1>2 DEF UpInOrder

\* A call that goes anywhere but to a wait takes no entry with it but its own.
LEMMA StopsWaiting ==
  ASSUME RpcIInv, NEW k \in RpcCallers, NEW pc \in {"send", "blocked", "backoff", "failed"},
         rpcPc' = [rpcPc EXCEPT ![k] = pc],
         pc \in {"send", "backoff"} => attempt[k] < MaxAttempts,
         \A p \in rpcPending' : p \in rpcPending /\ p[2] # k,
         \A p \in rpcPending : p[2] # k => p \in rpcPending',
         UNCHANGED <<nextId, attempt, rpcId, executed, up, down, serving>>
  PROVE  RpcIInv'
<1>0. RTypes /\ AttemptsLeft /\ TableExact /\ IdsDistinct /\ MessagesOwned /\ UpInOrder /\ RunsCounted
  BY DEF RpcIInv
<1>1. /\ rpcPc \in [RpcCallers -> RpcEnded \cup {"send", "wait", "backoff"}]
      /\ rpcPending \subseteq Nat \X RpcCallers
  BY <1>0 DEF RTypes
<1>2. \A j \in RpcCallers : rpcPc'[j] = IF j = k THEN pc ELSE rpcPc[j]
  BY <1>1
<1>3. \A j \in RpcCallers : rpcPc'[j] = "wait" => rpcPc[j] = "wait" /\ j # k
  BY <1>2
<1>4. RTypes'
  <2>1. rpcPc' \in [RpcCallers -> RpcEnded \cup {"send", "wait", "backoff"}]
    BY <1>1 DEF RpcEnded
  <2>2. rpcPending' \subseteq Nat \X RpcCallers
    BY <1>1
  <2> QED BY <1>0, <2>1, <2>2 DEF RTypes
<1>5. AttemptsLeft'
  BY <1>0, <1>2 DEF AttemptsLeft
<1>6. TableExact'
  <2>1. ASSUME NEW p \in rpcPending' PROVE p[1] = rpcId'[p[2]] /\ rpcPc'[p[2]] = "wait"
    <3>1. p \in rpcPending /\ p[2] # k /\ p[2] \in RpcCallers
      BY <1>1
    <3> QED BY <1>0, <1>2, <3>1 DEF TableExact
  <2>2. ASSUME NEW j \in RpcCallers, rpcPc'[j] = "wait" PROVE <<rpcId'[j], j>> \in rpcPending'
    <3>1. <<rpcId[j], j>> \in rpcPending /\ j # k
      BY <1>0, <1>3, <2>2 DEF TableExact
    <3> QED BY <3>1
  <2> QED BY <2>1, <2>2 DEF TableExact
<1>7. IdsDistinct'
  BY <1>0, <1>3 DEF IdsDistinct
<1>8. ASSUME NEW m, Owned(m) PROVE Owned(m)'
  BY <1>3, <1>8 DEF Owned
<1>9. MessagesOwned'
  <2>1. \A i \in 1..Len(up') : Owned(up[i])'
    BY <1>0, <1>8 DEF MessagesOwned
  <2>2. serving' # NoMessage => Owned(serving)' /\ Ran(serving)'
    BY <1>0, <1>8 DEF MessagesOwned, Ran
  <2>3. \A i \in 1..Len(down') : down'[i].kind # "failsafeMode" => Owned(down[i])' /\ Ran(down[i])'
    BY <1>0, <1>8 DEF MessagesOwned, Ran
  <2>4. \A j \in RpcCallers : rpcPc'[j] = "returned" => executed'[j] >= 1
    BY <1>0, <1>2 DEF MessagesOwned
  <2> QED BY <2>1, <2>2, <2>3, <2>4 DEF MessagesOwned
<1>10. RunsCounted' /\ UpInOrder'
  BY <1>0, CountsKept
<1> QED BY <1>4, <1>5, <1>6, <1>7, <1>9, <1>10 DEF RpcIInv


\* A step that only moves messages: requests are lost or kept, answers come from requests served.
LEMMA OnlyMessages ==
  ASSUME RpcIInv, UNCHANGED <<nextId, rpcPending, rpcPc, attempt, rpcId, executed>>,
         up' \in {up, << >>}, serving' \in {serving, NoMessage},
         down' \in Seq(Response \cup Event),
         \A i \in 1..Len(down') : down'[i].kind # "failsafeMode" => Owned(down'[i]) /\ Ran(down'[i])
  PROVE  RpcIInv'
<1>0. RTypes /\ AttemptsLeft /\ TableExact /\ IdsDistinct /\ MessagesOwned /\ UpInOrder /\ RunsCounted
  BY DEF RpcIInv
<1>1. RTypes'
  <2>1. up' \in Seq(Request)
    <3>1. up \in Seq(Request) /\ << >> \in Seq(Request)
      BY <1>0 DEF RTypes
    <3> QED BY <3>1
  <2>2. serving' \in Request \cup {NoMessage}
    BY <1>0 DEF RTypes
  <2> QED BY <1>0, <2>1, <2>2 DEF RTypes
<1>2. AttemptsLeft' /\ TableExact' /\ IdsDistinct'
  BY <1>0 DEF AttemptsLeft, TableExact, IdsDistinct
<1>3. MessagesOwned'
  <2>1. ASSUME NEW i \in 1..Len(up') PROVE Owned(up[i])'
    <3>1. CASE up' = up
      BY <1>0, <2>1, <3>1 DEF MessagesOwned, Owned
    <3>2. CASE up' = << >>
      <4>1. 1..Len(up') = {}
        BY <3>2
      <4> QED BY <2>1, <4>1
    <3> QED BY <3>1, <3>2
  <2>2. serving' # NoMessage => Owned(serving)' /\ Ran(serving)'
    BY <1>0 DEF MessagesOwned, Owned, Ran
  <2>3. \A i \in 1..Len(down') : down'[i].kind # "failsafeMode" => Owned(down[i])' /\ Ran(down[i])'
    BY DEF Owned, Ran
  <2>4. \A k \in RpcCallers : rpcPc'[k] = "returned" => executed'[k] >= 1
    BY <1>0 DEF MessagesOwned
  <2> QED BY <2>1, <2>2, <2>3, <2>4 DEF MessagesOwned
<1>4. UpInOrder'
  BY <1>0 DEF UpInOrder
<1>5. RunsCounted'
  <2> SUFFICES ASSUME NEW k \in RpcCallers
               PROVE  executed'[k] + Cardinality(Queued(k)') <= attempt'[k]
    BY DEF RunsCounted
  <2>1. nextId \in Nat /\ executed[k] \in Nat /\ attempt[k] \in Nat
    BY <1>0 DEF RTypes
  <2>2. Queued(k)' \in SUBSET Queued(k)
    BY DEF Queued
  <2>3. Cardinality(Queued(k)') \in Nat /\ Cardinality(Queued(k)') <= Cardinality(Queued(k))
    BY <2>1, <2>2, QueuedShrinks
  <2>4. Cardinality(Queued(k)) \in Nat
    BY <2>1, QueuedFinite
  <2>5. executed[k] + Cardinality(Queued(k)) <= attempt[k]
    BY <1>0 DEF RunsCounted
  <2> QED BY <2>1, <2>3, <2>4, <2>5
<1> QED BY <1>1, <1>2, <1>3, <1>4, <1>5 DEF RpcIInv

\* An attempt that cannot be sent changes neither the table nor the messages.
LEMMA UnsentKeeps ==
  ASSUME RpcIInv, NEW k \in RpcCallers, SendAttempt(k), ~rpcOpen
  PROVE  RpcIInv'
<1>0. RTypes /\ AttemptsLeft /\ TableExact /\ IdsDistinct /\ MessagesOwned /\ UpInOrder /\ RunsCounted
  BY DEF RpcIInv
<1>1. PICK pc \in {"backoff", "failed"} :
         /\ rpcPc[k] = "send" /\ rpcPc' = [rpcPc EXCEPT ![k] = pc]
         /\ pc = "backoff" => attempt[k] + 1 < MaxAttempts
  BY DEF SendAttempt, AttemptFails, RpcGoto
<1>2. /\ nextId' = nextId + 1 /\ rpcId' = [rpcId EXCEPT ![k] = nextId + 1]
      /\ attempt' = [attempt EXCEPT ![k] = attempt[k] + 1]
      /\ UNCHANGED <<rpcPending, up, down, serving, executed>>
  BY DEF SendAttempt
<1>3. /\ rpcPc \in [RpcCallers -> RpcEnded \cup {"send", "wait", "backoff"}]
      /\ rpcPending \subseteq Nat \X RpcCallers /\ rpcId \in [RpcCallers -> Nat]
      /\ attempt \in [RpcCallers -> Nat] /\ executed \in [RpcCallers -> Nat] /\ nextId \in Nat
  BY <1>0 DEF RTypes
<1>4. \A j \in RpcCallers : /\ rpcPc'[j] = IF j = k THEN pc ELSE rpcPc[j]
                            /\ rpcId'[j] = IF j = k THEN nextId + 1 ELSE rpcId[j]
                            /\ attempt'[j] = IF j = k THEN attempt[k] + 1 ELSE attempt[j]
  BY <1>1, <1>2, <1>3
<1>5. \A j \in RpcCallers : rpcPc[j] = "wait" \/ rpcPc'[j] = "wait" =>
                              j # k /\ rpcPc'[j] = rpcPc[j] /\ rpcId'[j] = rpcId[j]
  BY <1>1, <1>4
<1>6. RTypes'
  <2>1. rpcPc' \in [RpcCallers -> RpcEnded \cup {"send", "wait", "backoff"}]
    BY <1>1, <1>3 DEF RpcEnded
  <2>2. rpcId' \in [RpcCallers -> Nat] /\ attempt' \in [RpcCallers -> Nat] /\ nextId' \in Nat
    BY <1>2, <1>3
  <2> QED BY <1>0, <1>2, <2>1, <2>2 DEF RTypes
<1>7. AttemptsLeft'
  <2>1. attempt[k] < MaxAttempts
    BY <1>0, <1>1 DEF AttemptsLeft
  <2> QED BY <1>0, <1>1, <1>3, <1>4, <2>1, RpcAssumption DEF AttemptsLeft
<1>8. TableExact'
  <2>1. ASSUME NEW p \in rpcPending' PROVE p[1] = rpcId'[p[2]] /\ rpcPc'[p[2]] = "wait"
    <3>1. p \in rpcPending /\ p[2] \in RpcCallers
      BY <1>2, <1>3
    <3>2. rpcPc[p[2]] = "wait" /\ p[1] = rpcId[p[2]]
      BY <1>0, <3>1 DEF TableExact
    <3> QED BY <1>5, <3>1, <3>2
  <2>2. ASSUME NEW j \in RpcCallers, rpcPc'[j] = "wait" PROVE <<rpcId'[j], j>> \in rpcPending'
    BY <1>0, <1>2, <1>5, <2>2 DEF TableExact
  <2> QED BY <2>1, <2>2 DEF TableExact
<1>9. IdsDistinct'
  BY <1>0, <1>2, <1>3, <1>5 DEF IdsDistinct
<1>10. ASSUME NEW m, Owned(m) PROVE Owned(m)'
  BY <1>2, <1>3, <1>5, <1>10 DEF Owned
<1>11. MessagesOwned'
  <2>1. \A i \in 1..Len(up') : Owned(up[i])'
    BY <1>0, <1>2, <1>10 DEF MessagesOwned
  <2>2. serving' # NoMessage => Owned(serving)' /\ Ran(serving)'
    BY <1>0, <1>2, <1>10 DEF MessagesOwned, Ran
  <2>3. \A i \in 1..Len(down') : down'[i].kind # "failsafeMode" => Owned(down[i])' /\ Ran(down[i])'
    BY <1>0, <1>2, <1>10 DEF MessagesOwned, Ran
  <2>4. \A j \in RpcCallers : rpcPc'[j] = "returned" => executed'[j] >= 1
    BY <1>0, <1>2, <1>4 DEF MessagesOwned
  <2> QED BY <2>1, <2>2, <2>3, <2>4 DEF MessagesOwned
<1>12. UpInOrder'
  BY <1>0, <1>2 DEF UpInOrder
<1>13. RunsCounted'
  <2> SUFFICES ASSUME NEW j \in RpcCallers
               PROVE  executed'[j] + Cardinality(Queued(j)') <= attempt'[j]
    BY DEF RunsCounted
  <2>1. \A i \in 1..Len(up) : up[i].id \in 1..nextId
    BY <1>0 DEF MessagesOwned, Owned
  <2>2. Queued(j)' = Queued(j)
    BY <1>2, <1>3, <2>1 DEF Queued
  <2>3. Cardinality(Queued(j)) \in Nat
    BY <1>3, QueuedFinite
  <2>4. executed[j] + Cardinality(Queued(j)) <= attempt[j]
    BY <1>0 DEF RunsCounted
  <2>5. attempt[j] <= attempt'[j] /\ attempt[j] \in Nat /\ attempt'[j] \in Nat /\ executed'[j] = executed[j]
        /\ executed[j] \in Nat
    BY <1>2, <1>3, <1>4
  <2> QED BY <2>2, <2>3, <2>4, <2>5
<1> QED BY <1>6, <1>7, <1>8, <1>9, <1>11, <1>12, <1>13 DEF RpcIInv


\* An attempt that is sent waits for the answer to the request it puts on the way.
LEMMA SentKeeps ==
  ASSUME RpcIInv, NEW k \in RpcCallers, SendAttempt(k), rpcOpen
  PROVE  RpcIInv'
<1>0. RTypes /\ AttemptsLeft /\ TableExact /\ IdsDistinct /\ MessagesOwned /\ UpInOrder /\ RunsCounted
  BY DEF RpcIInv
<1> DEFINE new == nextId + 1
           req == [kind |-> "request", id |-> new, call |-> k]
<1>1. /\ nextId' = new /\ rpcId' = [rpcId EXCEPT ![k] = new] /\ rpcPc[k] = "send"
      /\ attempt' = [attempt EXCEPT ![k] = attempt[k] + 1]
      /\ rpcPc' = [rpcPc EXCEPT ![k] = "wait"]
      /\ rpcPending' = rpcPending \cup {<<new, k>>}
      /\ up' = Append(up, req)
      /\ UNCHANGED <<down, serving, executed>>
  BY DEF SendAttempt, RpcGoto
<1>2. /\ rpcPc \in [RpcCallers -> RpcEnded \cup {"send", "wait", "backoff"}]
      /\ rpcPending \subseteq Nat \X RpcCallers /\ rpcId \in [RpcCallers -> Nat]
      /\ attempt \in [RpcCallers -> Nat] /\ executed \in [RpcCallers -> Nat] /\ nextId \in Nat
      /\ up \in Seq(Request)
  BY <1>0 DEF RTypes
<1>3. \A j \in RpcCallers : /\ rpcPc'[j] = IF j = k THEN "wait" ELSE rpcPc[j]
                            /\ rpcId'[j] = IF j = k THEN new ELSE rpcId[j]
                            /\ attempt'[j] = IF j = k THEN attempt[k] + 1 ELSE attempt[j]
  BY <1>1, <1>2
<1>4. req \in Request /\ req.id = new /\ req.call = k
  BY <1>2 DEF Request
<1>5. /\ Len(up') = Len(up) + 1 /\ Len(up) \in Nat
      /\ \A i \in 1..Len(up') : up'[i] = IF i <= Len(up) THEN up[i] ELSE req
  BY <1>1, <1>2, <1>4
<1>6. RTypes'
  <2>1. rpcPc' \in [RpcCallers -> RpcEnded \cup {"send", "wait", "backoff"}]
    BY <1>1, <1>2
  <2>2. rpcId' \in [RpcCallers -> Nat] /\ attempt' \in [RpcCallers -> Nat] /\ nextId' \in Nat
    BY <1>1, <1>2
  <2>3. up' \in Seq(Request)
    BY <1>1, <1>2, <1>4
  <2>4. rpcPending' \subseteq Nat \X RpcCallers
    BY <1>1, <1>2
  <2> QED BY <1>0, <1>1, <2>1, <2>2, <2>3, <2>4 DEF RTypes
<1>7. AttemptsLeft'
  <2>1. attempt[k] < MaxAttempts
    BY <1>0, <1>1 DEF AttemptsLeft
  <2> QED BY <1>0, <1>2, <1>3, <2>1, RpcAssumption DEF AttemptsLeft
<1>8. TableExact'
  <2>1. ASSUME NEW p \in rpcPending' PROVE p[1] = rpcId'[p[2]] /\ rpcPc'[p[2]] = "wait"
    <3>1. CASE p \in rpcPending
      <4>1. p[2] \in RpcCallers /\ rpcPc[p[2]] = "wait" /\ p[1] = rpcId[p[2]]
        BY <1>0, <1>2, <3>1 DEF TableExact
      <4>2. p[2] # k
        BY <1>1, <4>1
      <4> QED BY <1>3, <4>1, <4>2
    <3>2. CASE p = <<new, k>>
      BY <1>3, <3>2
    <3> QED BY <1>1, <3>1, <3>2
  <2>2. ASSUME NEW j \in RpcCallers, rpcPc'[j] = "wait" PROVE <<rpcId'[j], j>> \in rpcPending'
    <3>1. CASE j = k
      BY <1>1, <1>3, <3>1
    <3>2. CASE j # k
      BY <1>0, <1>1, <1>3, <2>2, <3>2 DEF TableExact
    <3> QED BY <3>1, <3>2
  <2> QED BY <2>1, <2>2 DEF TableExact
<1>9. IdsDistinct'
  <2>1. \A j \in RpcCallers : rpcPc'[j] = "wait" =>
           \/ j = k /\ rpcId'[j] = new
           \/ j # k /\ rpcPc[j] = "wait" /\ rpcId'[j] = rpcId[j] /\ rpcId[j] \in 1..nextId
    BY <1>0, <1>3 DEF IdsDistinct
  <2> QED BY <1>0, <1>1, <1>2, <2>1 DEF IdsDistinct
<1>10. ASSUME NEW m, Owned(m) PROVE Owned(m)'
  BY <1>1, <1>2, <1>3, <1>10 DEF Owned
<1>11. MessagesOwned'
  <2>1. ASSUME NEW i \in 1..Len(up') PROVE Owned(up[i])'
    <3>1. CASE i <= Len(up)
      <4>1. up'[i] = up[i] /\ Owned(up[i])
        BY <1>0, <1>5, <3>1 DEF MessagesOwned
      <4> QED BY <1>1, <1>2, <1>3, <4>1 DEF Owned
    <3>2. CASE ~(i <= Len(up))
      <4>1. up'[i] = req
        BY <1>5, <3>2
      <4>2. new \in 1..nextId'
        BY <1>1, <1>2
      <4>3. ASSUME NEW j \in RpcCallers, rpcPc'[j] = "wait", rpcId'[j] = new PROVE j = k
        BY <1>0, <1>2, <1>3, <4>3 DEF IdsDistinct
      <4> QED BY <1>4, <4>1, <4>2, <4>3 DEF Owned
    <3> QED BY <3>1, <3>2
  <2>2. serving' # NoMessage => Owned(serving)' /\ Ran(serving)'
    BY <1>0, <1>1, <1>10 DEF MessagesOwned, Ran
  <2>3. \A i \in 1..Len(down') : down'[i].kind # "failsafeMode" => Owned(down[i])' /\ Ran(down[i])'
    BY <1>0, <1>1, <1>10 DEF MessagesOwned, Ran
  <2>4. \A j \in RpcCallers : rpcPc'[j] = "returned" => executed'[j] >= 1
    BY <1>0, <1>1, <1>3 DEF MessagesOwned
  <2> QED BY <2>1, <2>2, <2>3, <2>4 DEF MessagesOwned
<1>12. \A i \in 1..Len(up) : up[i].id \in 1..nextId
  BY <1>0 DEF MessagesOwned, Owned
<1>13. UpInOrder'
  <2> SUFFICES ASSUME NEW i \in 1..Len(up'), NEW j \in 1..Len(up'), i < j PROVE up'[i].id < up'[j].id
    BY DEF UpInOrder
  <2>1. i <= Len(up) /\ i \in 1..Len(up) /\ up'[i] = up[i]
    BY <1>5
  <2>2. CASE j <= Len(up)
    BY <1>0, <1>5, <2>1, <2>2 DEF UpInOrder
  <2>3. CASE ~(j <= Len(up))
    <3>1. up'[j].id = new
      BY <1>4, <1>5, <2>3
    <3>2. up[i].id \in 1..nextId
      BY <1>12, <2>1
    <3> QED BY <1>2, <2>1, <3>1, <3>2
  <2> QED BY <2>2, <2>3
<1>14. RunsCounted'
  <2> SUFFICES ASSUME NEW j \in RpcCallers
               PROVE  executed'[j] + Cardinality(Queued(j)') <= attempt'[j]
    BY DEF RunsCounted
  <2>1. IsFiniteSet(Queued(j)) /\ Cardinality(Queued(j)) \in Nat
    BY <1>2, QueuedFinite
  <2>2. executed[j] + Cardinality(Queued(j)) <= attempt[j]
    BY <1>0 DEF RunsCounted
  <2>3. /\ executed[j] \in Nat /\ attempt[j] \in Nat /\ executed'[j] = executed[j]
        /\ attempt'[j] = IF j = k THEN attempt[j] + 1 ELSE attempt[j]
    BY <1>1, <1>2, <1>3
  <2>4. CASE j # k
    <3>1. Queued(j)' \in SUBSET Queued(j)
      <4>1. ASSUME NEW n \in Queued(j)' PROVE n \in Queued(j)
        <5>1. PICK i \in 1..Len(up') : up'[i].id = n /\ up'[i].call = j
          BY DEF Queued
        <5>2. i <= Len(up) /\ i \in 1..Len(up) /\ up'[i] = up[i]
          BY <1>4, <1>5, <2>4, <5>1
        <5> QED BY <1>12, <5>1, <5>2 DEF Queued
      <4> QED BY <4>1
    <3>2. Cardinality(Queued(j)') \in Nat /\ Cardinality(Queued(j)') <= Cardinality(Queued(j))
      BY <1>2, <3>1, QueuedShrinks
    <3> QED BY <2>1, <2>2, <2>3, <2>4, <3>2
  <2>5. CASE j = k
    <3>1. Queued(j)' \in SUBSET (Queued(j) \cup {new})
      <4>1. ASSUME NEW n \in Queued(j)' PROVE n \in Queued(j) \cup {new}
        <5>1. PICK i \in 1..Len(up') : up'[i].id = n /\ up'[i].call = j
          BY DEF Queued
        <5>2. CASE i <= Len(up)
          <6>1. i \in 1..Len(up) /\ up'[i] = up[i]
            BY <1>5, <5>2
          <6> QED BY <1>12, <5>1, <6>1 DEF Queued
        <5>3. CASE ~(i <= Len(up))
          BY <1>4, <1>5, <5>1, <5>3
        <5> QED BY <5>2, <5>3
      <4> QED BY <4>1
    <3>2. new \notin Queued(j)
      BY <1>2 DEF Queued
    <3>3. /\ IsFiniteSet(Queued(j) \cup {new})
          /\ Cardinality(Queued(j) \cup {new}) = Cardinality(Queued(j)) + 1
      BY <2>1, <3>2, FS_AddElement
    <3>4. IsFiniteSet(Queued(j)') /\ Cardinality(Queued(j)') <= Cardinality(Queued(j)) + 1
      BY <3>1, <3>3, FS_Subset
    <3>5. Cardinality(Queued(j)') \in Nat
      BY <3>4, FS_CardinalityType
    <3> QED BY <2>1, <2>2, <2>3, <2>5, <3>4, <3>5
  <2> QED BY <2>4, <2>5
<1> QED BY <1>6, <1>7, <1>8, <1>9, <1>11, <1>13, <1>14 DEF RpcIInv


\* The device takes the oldest request, which leaves the queue and counts as a run.
LEMMA TakenKeeps ==
  ASSUME RpcIInv, TakeRequest
  PROVE  RpcIInv'
<1>0. RTypes /\ AttemptsLeft /\ TableExact /\ IdsDistinct /\ MessagesOwned /\ UpInOrder /\ RunsCounted
  BY DEF RpcIInv
<1> DEFINE h == up[1]
<1>1. /\ up # << >> /\ serving' = h /\ up' = Tail(up)
      /\ executed' = [executed EXCEPT ![h.call] = executed[h.call] + 1]
      /\ UNCHANGED <<nextId, rpcPending, rpcPc, attempt, rpcId, down>>
  <2>1. up \in Seq(Request) /\ up # << >>
    BY <1>0 DEF RTypes, TakeRequest
  <2>2. Head(up) = up[1]
    BY <2>1
  <2> QED BY <2>2 DEF TakeRequest
<1>2. /\ up \in Seq(Request) /\ executed \in [RpcCallers -> Nat] /\ attempt \in [RpcCallers -> Nat]
      /\ nextId \in Nat
  BY <1>0 DEF RTypes
<1>3. /\ Len(up) \in Nat /\ 1 <= Len(up) /\ 1 \in 1..Len(up) /\ Len(up') = Len(up) - 1
      /\ \A i \in 1..Len(up') : i + 1 \in 1..Len(up) /\ up'[i] = up[i + 1]
      /\ up' \in Seq(Request)
  <2>1. Len(up) \in Nat /\ 1 <= Len(up) /\ Len(up') = Len(up) - 1
    BY <1>1, <1>2
  <2> QED BY <1>1, <1>2, <2>1
<1>4. h \in Request
  BY <1>2, <1>3
<1>5. h.call \in RpcCallers /\ h.id \in Nat
  BY <1>4 DEF Request
<1>6. \A k \in RpcCallers : /\ executed'[k] = IF k = h.call THEN executed[k] + 1 ELSE executed[k]
                            /\ executed[k] \in Nat /\ executed'[k] \in Nat
  BY <1>1, <1>2, <1>5
<1>7. RTypes'
  <2>1. executed' \in [RpcCallers -> Nat]
    BY <1>1, <1>2, <1>5
  <2>2. serving' \in Request \cup {NoMessage}
    BY <1>1, <1>4
  <2> QED BY <1>0, <1>1, <1>3, <2>1, <2>2 DEF RTypes
<1>8. AttemptsLeft' /\ TableExact' /\ IdsDistinct'
  BY <1>0, <1>1 DEF AttemptsLeft, TableExact, IdsDistinct
<1>9. \A k \in RpcCallers : executed[k] >= 1 => executed'[k] >= 1
  BY <1>6
<1>10. MessagesOwned'
  <2>1. ASSUME NEW i \in 1..Len(up') PROVE Owned(up[i])'
    <3>1. i + 1 \in 1..Len(up) /\ up'[i] = up[i + 1]
      BY <1>3
    <3>2. Owned(up[i + 1])
      BY <1>0, <3>1 DEF MessagesOwned
    <3> QED BY <1>1, <3>1, <3>2 DEF Owned
  <2>2. Owned(serving)' /\ Ran(serving)'
    <3>1. Owned(h)
      BY <1>0, <1>3 DEF MessagesOwned
    <3>2. executed'[h.call] >= 1
      BY <1>5, <1>6
    <3> QED BY <1>1, <3>1, <3>2 DEF Owned, Ran
  <2>3. ASSUME NEW i \in 1..Len(down'), down'[i].kind # "failsafeMode"
        PROVE  Owned(down[i])' /\ Ran(down[i])'
    <3>1. Owned(down[i]) /\ Ran(down[i])
      BY <1>0, <1>1, <2>3 DEF MessagesOwned
    <3>2. down[i] \in Response \cup Event
      BY <1>0, <1>1, <2>3 DEF RTypes
    <3>3. down[i].call \in RpcCallers
      BY <1>1, <2>3, <3>2 DEF Response, Event
    <3> QED BY <1>1, <1>9, <3>1, <3>3 DEF Owned, Ran
  <2>4. \A k \in RpcCallers : rpcPc'[k] = "returned" => executed'[k] >= 1
    BY <1>0, <1>1, <1>9 DEF MessagesOwned
  <2> QED BY <2>1, <2>2, <2>3, <2>4 DEF MessagesOwned
<1>11. UpInOrder'
  <2> SUFFICES ASSUME NEW i \in 1..Len(up'), NEW j \in 1..Len(up'), i < j PROVE up'[i].id < up'[j].id
    BY DEF UpInOrder
  <2>1. /\ i + 1 \in 1..Len(up) /\ up'[i] = up[i + 1] /\ j + 1 \in 1..Len(up) /\ up'[j] = up[j + 1]
        /\ i + 1 < j + 1
    BY <1>3
  <2> QED BY <1>0, <2>1 DEF UpInOrder
<1>12. RunsCounted'
  <2> SUFFICES ASSUME NEW k \in RpcCallers
               PROVE  executed'[k] + Cardinality(Queued(k)') <= attempt'[k]
    BY DEF RunsCounted
  <2>1. IsFiniteSet(Queued(k)) /\ Cardinality(Queued(k)) \in Nat
    BY <1>2, QueuedFinite
  <2>2. executed[k] + Cardinality(Queued(k)) <= attempt[k]
    BY <1>0 DEF RunsCounted
  <2>3. attempt[k] \in Nat /\ attempt'[k] = attempt[k]
    BY <1>1, <1>2
  <2>4. Queued(k)' \in SUBSET Queued(k)
    <3>1. ASSUME NEW n \in Queued(k)' PROVE n \in Queued(k)
      <4>1. PICK i \in 1..Len(up') : up'[i].id = n /\ up'[i].call = k
        BY DEF Queued
      <4>2. i + 1 \in 1..Len(up) /\ up'[i] = up[i + 1] /\ n \in 1..nextId
        BY <1>1, <1>3 DEF Queued
      <4> QED BY <4>1, <4>2 DEF Queued
    <3> QED BY <3>1
  <2>5. CASE k # h.call
    <3>1. Cardinality(Queued(k)') \in Nat /\ Cardinality(Queued(k)') <= Cardinality(Queued(k))
      BY <1>2, <2>4, QueuedShrinks
    <3> QED BY <1>6, <2>1, <2>2, <2>3, <2>5, <3>1
  <2>6. CASE k = h.call
    <3>1. h.id \in Queued(k)
      <4>1. h.id \in 1..nextId
        BY <1>0, <1>3 DEF MessagesOwned, Owned
      <4> QED BY <1>3, <2>6, <4>1 DEF Queued
    <3>2. h.id \notin Queued(k)'
      <4> SUFFICES ASSUME h.id \in Queued(k)' PROVE FALSE
        OBVIOUS
      <4>1. PICK i \in 1..Len(up') : up'[i].id = h.id
        BY DEF Queued
      <4>2. i + 1 \in 1..Len(up) /\ up'[i] = up[i + 1] /\ 1 < i + 1
        BY <1>3
      <4>3. up[1].id < up[i + 1].id
        BY <1>0, <1>3, <4>2 DEF UpInOrder
      <4> QED BY <1>5, <4>1, <4>2, <4>3
    <3>3. Queued(k)' \in SUBSET (Queued(k) \ {h.id})
      BY <2>4, <3>2
    <3>4. /\ IsFiniteSet(Queued(k) \ {h.id})
          /\ Cardinality(Queued(k) \ {h.id}) = Cardinality(Queued(k)) - 1
      BY <2>1, <3>1, FS_RemoveElement
    <3>5. IsFiniteSet(Queued(k)') /\ Cardinality(Queued(k)') <= Cardinality(Queued(k)) - 1
      BY <3>3, <3>4, FS_Subset
    <3>6. Cardinality(Queued(k)') \in Nat
      BY <3>5, FS_CardinalityType
    <3> QED BY <1>6, <2>1, <2>2, <2>3, <2>6, <3>5, <3>6
  <2> QED BY <2>5, <2>6
<1> QED BY <1>7, <1>8, <1>10, <1>11, <1>12 DEF RpcIInv

\* An answer can only go to the call it was asked for, and only while that call waits for it.
LEMMA AnswerFindsItsCaller ==
  ASSUME RpcIInv, NEW m \in Response, Owned(m)
  PROVE  {p \in rpcPending : p[1] = m.id}
           = IF rpcPc[m.call] = "wait" /\ rpcId[m.call] = m.id THEN {<<m.id, m.call>>} ELSE {}
<1>0. rpcPending \subseteq Nat \X RpcCallers /\ TableExact /\ m.call \in RpcCallers
  BY DEF RpcIInv, RTypes, Response
<1>1. ASSUME NEW p \in rpcPending, p[1] = m.id
      PROVE  p = <<m.id, m.call>> /\ rpcPc[m.call] = "wait" /\ rpcId[m.call] = m.id
  <2>1. p[2] \in RpcCallers /\ p[1] = rpcId[p[2]] /\ rpcPc[p[2]] = "wait" /\ p = <<p[1], p[2]>>
    BY <1>0 DEF TableExact
  <2>2. p[2] = m.call
    BY <1>1, <2>1 DEF Owned
  <2> QED BY <1>1, <2>1, <2>2
<1>2. CASE rpcPc[m.call] = "wait" /\ rpcId[m.call] = m.id
  <2>1. <<m.id, m.call>> \in rpcPending
    BY <1>0, <1>2 DEF TableExact
  <2> QED BY <1>1, <1>2, <2>1
<1>3. CASE ~(rpcPc[m.call] = "wait" /\ rpcId[m.call] = m.id)
  BY <1>1, <1>3
<1> QED BY <1>2, <1>3

\* What the client does with the next message: it returns the call that waits for it, if any.
LEMMA ReceiveReturns ==
  ASSUME RpcIInv, ReceiveMessage
  PROVE  \/ UNCHANGED <<rpcPending, rpcPc>> /\ rpcGot' = [j \in RpcCallers |-> rpcGot[j]]
         \/ \E k \in RpcCallers :
              /\ rpcPc[k] = "wait" /\ executed[k] >= 1
              /\ rpcPc' = [rpcPc EXCEPT ![k] = "returned"]
              /\ rpcPending' = rpcPending \ {<<rpcId[k], k>>}
              /\ \E m \in Response : m.call = k /\ rpcGot' = [j \in RpcCallers |-> IF j = k THEN m ELSE rpcGot[j]]
<1> DEFINE msg == down[1]
           to == {p \in rpcPending : msg.kind # "failsafeMode" /\ p[1] = msg.id}
<1>0. /\ down \in Seq(Response \cup Event) /\ down # << >>
      /\ rpcPc \in [RpcCallers -> RpcEnded \cup {"send", "wait", "backoff"}]
  BY DEF RpcIInv, RTypes, ReceiveMessage
<1>1. Head(down) = msg /\ 1 \in 1..Len(down) /\ msg \in Response \cup Event
  BY <1>0
<1>2. /\ rpcPending' = rpcPending \ to
      /\ rpcPc' = [k \in RpcCallers |-> IF \E p \in to : p[2] = k THEN "returned" ELSE rpcPc[k]]
      /\ rpcGot' = [k \in RpcCallers |-> IF \E p \in to : p[2] = k THEN msg ELSE rpcGot[k]]
  BY <1>1 DEF ReceiveMessage
<1>3. CASE msg.kind = "failsafeMode"
  <2>1. to = {}
    BY <1>3
  <2>2. rpcPending' = rpcPending
    BY <1>2, <2>1
  <2>3. rpcPc' = [k \in RpcCallers |-> rpcPc[k]] /\ rpcGot' = [k \in RpcCallers |-> rpcGot[k]]
    BY <1>2, <2>1
  <2> QED BY <1>0, <2>2, <2>3
<1>4. CASE msg.kind # "failsafeMode"
  <2>1. msg \in Response
    BY <1>1, <1>4 DEF Event
  <2>2. Owned(msg) /\ Ran(msg)
    BY <1>1, <1>4 DEF RpcIInv, MessagesOwned
  <2>3. to = IF rpcPc[msg.call] = "wait" /\ rpcId[msg.call] = msg.id THEN {<<msg.id, msg.call>>} ELSE {}
    BY <1>4, <2>1, <2>2, AnswerFindsItsCaller
  <2>4. CASE ~(rpcPc[msg.call] = "wait" /\ rpcId[msg.call] = msg.id)
    <3>1. to = {}
      BY <2>3, <2>4
    <3>2. rpcPending' = rpcPending
      BY <1>2, <3>1
    <3>3. rpcPc' = [k \in RpcCallers |-> rpcPc[k]] /\ rpcGot' = [k \in RpcCallers |-> rpcGot[k]]
      BY <1>2, <3>1
    <3> QED BY <1>0, <3>2, <3>3
  <2>5. CASE rpcPc[msg.call] = "wait" /\ rpcId[msg.call] = msg.id
    <3>1. to = {<<msg.id, msg.call>>} /\ msg.call \in RpcCallers
      BY <2>1, <2>3, <2>5 DEF Response
    <3>2. ASSUME NEW k \in RpcCallers PROVE (\E p \in to : p[2] = k) <=> k = msg.call
      <4>1. \A p \in to : p = <<msg.id, msg.call>>
        BY <3>1
      <4>2. \A p \in to : p[2] = msg.call
        BY <4>1
      <4>3. <<msg.id, msg.call>> \in to
        BY <3>1
      <4> HIDE DEF to
      <4> QED BY <4>2, <4>3
    <3>3. rpcPc' = [rpcPc EXCEPT ![msg.call] = "returned"]
      BY <1>0, <1>2, <3>1, <3>2
    <3>4. rpcGot' = [k \in RpcCallers |-> IF k = msg.call THEN msg ELSE rpcGot[k]]
      BY <1>2, <3>2
    <3>5. rpcPending' = rpcPending \ {<<rpcId[msg.call], msg.call>>}
      BY <1>2, <2>5, <3>1
    <3>6. executed[msg.call] >= 1
      BY <2>2 DEF Ran
    <3> QED BY <2>1, <2>5, <3>1, <3>3, <3>4, <3>5, <3>6
  <2> QED BY <2>4, <2>5
<1> QED BY <1>3, <1>4

LEMMA ReceivedKeeps ==
  ASSUME RpcIInv, ReceiveMessage
  PROVE  RpcIInv'
<1>0. RTypes /\ AttemptsLeft /\ TableExact /\ IdsDistinct /\ MessagesOwned /\ UpInOrder /\ RunsCounted
  BY DEF RpcIInv
<1>1. /\ down # << >> /\ down' = Tail(down)
      /\ UNCHANGED <<nextId, attempt, rpcId, up, serving, executed>>
  BY DEF ReceiveMessage
<1>2. /\ down \in Seq(Response \cup Event) /\ rpcPending \subseteq Nat \X RpcCallers
      /\ rpcPc \in [RpcCallers -> RpcEnded \cup {"send", "wait", "backoff"}]
  BY <1>0 DEF RTypes
<1>3. /\ down' \in Seq(Response \cup Event)
      /\ \A i \in 1..Len(down') : i + 1 \in 1..Len(down) /\ down'[i] = down[i + 1]
  <2>1. Len(down) \in Nat /\ 1 <= Len(down) /\ Len(down') = Len(down) - 1
    BY <1>1, <1>2
  <2> QED BY <1>1, <1>2, <2>1
<1>4. \A i \in 1..Len(down') : down'[i].kind # "failsafeMode" => Owned(down'[i]) /\ Ran(down'[i])
  BY <1>0, <1>3 DEF MessagesOwned
<1>5. CASE UNCHANGED <<rpcPending, rpcPc>>
  BY <1>1, <1>3, <1>4, <1>5, OnlyMessages
<1>6. ASSUME NEW k \in RpcCallers, rpcPc[k] = "wait", executed[k] >= 1,
             rpcPc' = [rpcPc EXCEPT ![k] = "returned"], rpcPending' = rpcPending \ {<<rpcId[k], k>>}
      PROVE  RpcIInv'
  <2>1. \A j \in RpcCallers : rpcPc'[j] = IF j = k THEN "returned" ELSE rpcPc[j]
    BY <1>2, <1>6
  <2>2. \A j \in RpcCallers : rpcPc'[j] = "wait" => j # k /\ rpcPc[j] = "wait"
    BY <2>1
  <2>3. RTypes'
    <3>1. rpcPc' \in [RpcCallers -> RpcEnded \cup {"send", "wait", "backoff"}]
      BY <1>2, <1>6 DEF RpcEnded
    <3>2. rpcPending' \subseteq Nat \X RpcCallers
      BY <1>2, <1>6
    <3> QED BY <1>0, <1>1, <1>3, <3>1, <3>2 DEF RTypes
  <2>4. AttemptsLeft'
    BY <1>0, <1>1, <2>1 DEF AttemptsLeft
  <2>5. TableExact'
    <3>1. ASSUME NEW p \in rpcPending' PROVE p[1] = rpcId'[p[2]] /\ rpcPc'[p[2]] = "wait"
      <4>1. p \in rpcPending /\ p # <<rpcId[k], k>> /\ p[2] \in RpcCallers /\ p = <<p[1], p[2]>>
        BY <1>2, <1>6
      <4>2. p[1] = rpcId[p[2]] /\ rpcPc[p[2]] = "wait"
        BY <1>0, <4>1 DEF TableExact
      <4>3. p[2] # k
        BY <4>1, <4>2
      <4> QED BY <1>1, <2>1, <4>1, <4>2, <4>3
    <3>2. ASSUME NEW j \in RpcCallers, rpcPc'[j] = "wait" PROVE <<rpcId'[j], j>> \in rpcPending'
      <4>1. <<rpcId[j], j>> \in rpcPending /\ j # k
        BY <1>0, <2>2, <3>2 DEF TableExact
      <4> QED BY <1>1, <1>6, <4>1
    <3> QED BY <3>1, <3>2 DEF TableExact
  <2>6. IdsDistinct'
    BY <1>0, <1>1, <2>2 DEF IdsDistinct
  <2>7. ASSUME NEW m, Owned(m) PROVE Owned(m)'
    BY <1>1, <2>2, <2>7 DEF Owned
  <2>8. MessagesOwned'
    <3>1. \A i \in 1..Len(up') : Owned(up[i])'
      BY <1>0, <1>1, <2>7 DEF MessagesOwned
    <3>2. serving' # NoMessage => Owned(serving)' /\ Ran(serving)'
      BY <1>0, <1>1, <2>7 DEF MessagesOwned, Ran
    <3>3. \A i \in 1..Len(down') : down'[i].kind # "failsafeMode" => Owned(down[i])' /\ Ran(down[i])'
      BY <1>1, <1>4, <2>2 DEF Owned, Ran
    <3>4. \A j \in RpcCallers : rpcPc'[j] = "returned" => executed'[j] >= 1
      BY <1>0, <1>1, <1>6, <2>1 DEF MessagesOwned
    <3> QED BY <3>1, <3>2, <3>3, <3>4 DEF MessagesOwned
  <2>9. RunsCounted' /\ UpInOrder'
    BY <1>0, <1>1, CountsKept
  <2> QED BY <2>3, <2>4, <2>5, <2>6, <2>8, <2>9 DEF RpcIInv
<1> QED BY <1>5, <1>6, ReceiveReturns

LEMMA RpcNextInv == RpcIInv /\ [RpcNext]_rpcVars => RpcIInv'
<1> SUFFICES ASSUME RpcIInv, [RpcNext]_rpcVars PROVE RpcIInv'
  OBVIOUS
<1>0. RTypes /\ AttemptsLeft /\ TableExact /\ IdsDistinct /\ MessagesOwned
  BY DEF RpcIInv
<1>a. rpcPending \subseteq Nat \X RpcCallers /\ down \in Seq(Response \cup Event)
  BY <1>0 DEF RTypes
<1>b. \A i \in 1..Len(down) : down[i].kind # "failsafeMode" => Owned(down[i]) /\ Ran(down[i])
  BY <1>0 DEF MessagesOwned
<1>c. ASSUME NEW k \in RpcCallers, rpcPc[k] # "wait" PROVE \A p \in rpcPending : p[2] # k
  BY <1>0, <1>c DEF TableExact
<1>1. ASSUME NEW k \in RpcCallers, CallRpc(k) PROVE RpcIInv'
  <2>1. PICK pc \in {"blocked", "send"} : rpcPc' = [rpcPc EXCEPT ![k] = pc]
    BY <1>1 DEF CallRpc, RpcGoto
  <2>2. /\ rpcPc[k] = "new" /\ attempt[k] < MaxAttempts
        /\ UNCHANGED <<nextId, rpcPending, attempt, rpcId, executed, up, down, serving>>
    BY <1>0, <1>1 DEF CallRpc, AttemptsLeft
  <2>3. \A p \in rpcPending : p[2] # k
    BY <1>c, <2>2
  <2> QED BY <2>1, <2>2, <2>3, StopsWaiting
<1>2. ASSUME NEW k \in RpcCallers, SendAttempt(k) PROVE RpcIInv'
  BY <1>2, SentKeeps, UnsentKeeps
<1>3. ASSUME NEW k \in RpcCallers, TimeoutAttempt(k) PROVE RpcIInv'
  <2>1. PICK pc \in {"backoff", "failed"} : /\ rpcPc' = [rpcPc EXCEPT ![k] = pc]
                                            /\ pc = "backoff" => attempt[k] < MaxAttempts
    BY <1>3 DEF TimeoutAttempt, AttemptFails, RpcGoto
  <2>2. /\ rpcPc[k] = "wait" /\ rpcPending' = {p \in rpcPending : p[1] # rpcId[k]}
        /\ UNCHANGED <<nextId, attempt, rpcId, executed, up, down, serving>>
    BY <1>3 DEF TimeoutAttempt
  <2>3. ASSUME NEW p \in rpcPending PROVE p[2] = k <=> p[1] = rpcId[k]
    <3>1. p[2] \in RpcCallers /\ p[1] = rpcId[p[2]] /\ rpcPc[p[2]] = "wait"
      BY <1>0, <1>a DEF TableExact
    <3> QED BY <1>0, <2>2, <3>1 DEF IdsDistinct
  <2>4. /\ \A p \in rpcPending' : p \in rpcPending /\ p[2] # k
        /\ \A p \in rpcPending : p[2] # k => p \in rpcPending'
    BY <2>2, <2>3
  <2> QED BY <2>1, <2>2, <2>4, StopsWaiting
<1>4. ASSUME NEW k \in RpcCallers, Backoff(k) PROVE RpcIInv'
  <2>1. /\ rpcPc[k] = "backoff" /\ rpcPc' = [rpcPc EXCEPT ![k] = "send"] /\ attempt[k] < MaxAttempts
        /\ UNCHANGED <<nextId, rpcPending, attempt, rpcId, executed, up, down, serving>>
    BY <1>0, <1>4 DEF Backoff, RpcGoto, AttemptsLeft
  <2>2. \A p \in rpcPending : p[2] # k
    BY <1>c, <2>1
  <2> QED BY <2>1, <2>2, StopsWaiting
<1>5. CASE Announce
  <2> DEFINE e == [kind |-> "failsafeMode"]
  <2>1. /\ down' = Append(down, e)
        /\ UNCHANGED <<nextId, rpcPending, rpcPc, attempt, rpcId, executed, up, serving>>
    BY <1>5 DEF Announce
  <2>2. e \in Response \cup Event /\ e.kind = "failsafeMode"
    BY DEF Event
  <2>3. down' \in Seq(Response \cup Event)
    BY <1>a, <2>1, <2>2
  <2>4. \A i \in 1..Len(down') : (i \in 1..Len(down) /\ down'[i] = down[i]) \/ down'[i] = e
    BY <1>a, <2>1
  <2> QED BY <1>b, <2>1, <2>2, <2>3, <2>4, OnlyMessages
<1>6. ASSUME NEW kind \in {"result", "error"}, serving # NoMessage,
             serving' = NoMessage, up' \in {up, << >>},
             UNCHANGED <<nextId, rpcPending, rpcPc, attempt, rpcId, executed>>,
             \/ down' = down
             \/ down' = Append(down, [kind |-> kind, id |-> serving.id, call |-> serving.call])
      PROVE  RpcIInv'
  <2> DEFINE m == [kind |-> kind, id |-> serving.id, call |-> serving.call]
  <2>1. serving \in Request /\ Owned(serving) /\ Ran(serving)
    BY <1>0, <1>6 DEF RTypes, MessagesOwned
  <2>2. m \in Response \cup Event
    BY <2>1 DEF Request, Response
  <2>3. Owned(m) /\ Ran(m)
    BY <2>1 DEF Owned, Ran
  <2>4. down' \in Seq(Response \cup Event)
    BY <1>a, <1>6, <2>2
  <2>5. \A i \in 1..Len(down') : (i \in 1..Len(down) /\ down'[i] = down[i]) \/ down'[i] = m
    BY <1>a, <1>6, <2>2
  <2>6. \A i \in 1..Len(down') : down'[i].kind # "failsafeMode" => Owned(down'[i]) /\ Ran(down'[i])
    BY <1>b, <2>3, <2>5
  <2> QED BY <1>6, <2>4, <2>6, OnlyMessages
<1>7. ASSUME NEW how \in {"result", "error"}, Respond(how) PROVE RpcIInv'
  BY <1>6, <1>7 DEF Respond
<1>8. CASE HandlerPanics
  BY <1>6, <1>8 DEF HandlerPanics
<1>9. CASE CloseRpc
  <2>1. /\ up' = << >> /\ down' = << >>
        /\ UNCHANGED <<nextId, rpcPending, rpcPc, attempt, rpcId, executed, serving>>
    BY <1>9 DEF CloseRpc
  <2>2. down' \in Seq(Response \cup Event) /\ 1..Len(down') = {}
    BY <2>1
  <2> QED BY <2>1, <2>2, OnlyMessages
<1>10. CASE UNCHANGED rpcVars
  BY <1>a, <1>b, <1>10, OnlyMessages DEF rpcVars
<1> QED BY <1>1, <1>2, <1>3, <1>4, <1>5, <1>7, <1>8, <1>9, <1>10, TakenKeeps, ReceivedKeeps
        DEF RpcNext, RpcTask

\* RpcInv holds in every state, for any calls, attempts, panics and either build: an id in the
\* client's table belongs to the attempt its call is waiting for, and the device runs a call at
\* most once for each attempt and at least once before it returns.
THEOREM RpcInvariant == RpcSpec => []RpcInv
<1>1. RpcIInv => RpcInv
  <2> SUFFICES ASSUME RpcIInv PROVE RpcInv
    OBVIOUS
  <2>0. RTypes /\ AttemptsLeft /\ TableExact /\ IdsDistinct /\ MessagesOwned /\ RunsCounted
    BY DEF RpcIInv
  <2>1. ASSUME NEW p \in rpcPending
        PROVE  p[2] \in RpcCallers /\ p = <<rpcId[p[2]], p[2]>> /\ rpcPc[p[2]] = "wait" /\ p[1] \in 1..nextId
    <3>1. p[2] \in RpcCallers /\ p = <<p[1], p[2]>>
      BY <2>0 DEF RTypes
    <3>2. p[1] = rpcId[p[2]] /\ rpcPc[p[2]] = "wait"
      BY <2>0 DEF TableExact
    <3> QED BY <2>0, <3>1, <3>2 DEF IdsDistinct
  <2>2. PendingIsLatest
    <3>1. ASSUME NEW k \in RpcCallers, rpcPc[k] = "wait" PROVE <<rpcId[k], k>> \in rpcPending
      BY <2>0, <3>1 DEF TableExact
    <3> QED BY <2>1, <3>1 DEF PendingIsLatest
  <2>3. RpcTypeOK
    <3>1. rpcPending \subseteq (1..nextId) \X RpcCallers
      BY <2>1
    <3>2. attempt \in [RpcCallers -> 0..MaxAttempts]
      <4>1. ASSUME NEW k \in RpcCallers PROVE attempt[k] \in 0..MaxAttempts
        <5>1. attempt[k] \in Nat
          BY <2>0 DEF RTypes
        <5>2. attempt[k] <= MaxAttempts
          BY <2>0 DEF AttemptsLeft
        <5> QED BY <5>1, <5>2, RpcAssumption
      <4> QED BY <2>0, <4>1 DEF RTypes
    <3> QED BY <2>0, <3>1, <3>2 DEF RTypes, RpcTypeOK
  <2>4. RunsAtMostAttempts
    <3> SUFFICES ASSUME NEW k \in RpcCallers
                 PROVE  executed[k] <= attempt[k] /\ (rpcPc[k] = "returned" => executed[k] >= 1)
      BY DEF RunsAtMostAttempts
    <3>1. Cardinality(Queued(k)) \in Nat
      BY <2>0, QueuedFinite DEF RTypes
    <3>2. executed[k] \in Nat /\ attempt[k] \in Nat /\ executed[k] + Cardinality(Queued(k)) <= attempt[k]
      BY <2>0 DEF RTypes, RunsCounted
    <3>3. executed[k] <= attempt[k]
      BY <3>1, <3>2
    <3> QED BY <2>0, <3>3 DEF MessagesOwned
  <2> QED BY <2>2, <2>3, <2>4 DEF RpcInv
<1> QED BY <1>1, RpcInitInv, RpcNextInv, PTL DEF RpcSpec

\* The channel implements RemoteCall: a call returns the answer to its own request, once, or an
\* error, although attempts time out and are answered while a later one waits.
THEOREM RpcImplements == RpcSpec => RpcRemote!RemoteSafety
<1>1. RpcInit => RpcRemote!RemoteInit
  BY DEF RpcInit, RpcRemote!RemoteInit, RpcPhase
<1>2. RpcIInv /\ [RpcNext]_rpcVars => [RpcRemote!RemoteNext]_RpcRemote!remoteVars
  <2> SUFFICES ASSUME RpcIInv, [RpcNext]_rpcVars
               PROVE  RpcRemote!RemoteNext \/ UNCHANGED RpcRemote!remoteVars
    OBVIOUS
  <2>0. rpcPc \in [RpcCallers -> RpcEnded \cup {"send", "wait", "backoff"}]
    BY DEF RpcIInv, RTypes
  <2>1. CASE UNCHANGED <<rpcPc, rpcGot>>
    BY <2>1 DEF RpcRemote!remoteVars
  <2>2. ASSUME NEW k \in RpcCallers, rpcPc[k] = "new", UNCHANGED rpcGot,
               rpcPc' = [rpcPc EXCEPT ![k] = "send"]
        PROVE  RpcRemote!Call(k)
    BY <2>0, <2>2 DEF RpcRemote!Call, RpcPhase
  <2>3. ASSUME NEW k \in RpcCallers, rpcPc[k] \in {"new", "send", "wait", "backoff"}, UNCHANGED rpcGot,
               NEW pc \in {"blocked", "failed"}, rpcPc' = [rpcPc EXCEPT ![k] = pc]
        PROVE  RpcRemote!Fail(k)
    BY <2>0, <2>3 DEF RpcRemote!Fail, RpcPhase
  <2>4. ASSUME NEW k \in RpcCallers, rpcPc[k] \in {"send", "wait", "backoff"}, UNCHANGED rpcGot,
               NEW pc \in {"send", "wait", "backoff"}, rpcPc' = [rpcPc EXCEPT ![k] = pc]
        PROVE  UNCHANGED RpcRemote!remoteVars
    BY <2>0, <2>4 DEF RpcRemote!remoteVars, RpcPhase
  <2>5. ASSUME NEW k \in RpcCallers, CallRpc(k) PROVE RpcRemote!Call(k) \/ RpcRemote!Fail(k)
    BY <2>2, <2>3, <2>5 DEF CallRpc, RpcGoto
  <2>6. ASSUME NEW k \in RpcCallers, RpcTask(k)
        PROVE  RpcRemote!Fail(k) \/ UNCHANGED RpcRemote!remoteVars
    <3>1. /\ rpcPc[k] \in {"send", "wait", "backoff"} /\ UNCHANGED rpcGot
          /\ \E pc \in {"send", "wait", "backoff", "failed"} : rpcPc' = [rpcPc EXCEPT ![k] = pc]
      BY <2>6 DEF RpcTask, SendAttempt, TimeoutAttempt, Backoff, AttemptFails, RpcGoto
    <3> QED BY <2>3, <2>4, <3>1
  <2>7. CASE ReceiveMessage
    <3>1. CASE UNCHANGED rpcPc /\ rpcGot' = [j \in RpcCallers |-> rpcGot[j]]
      BY <3>1 DEF RpcRemote!remoteVars
    <3>2. ASSUME NEW k \in RpcCallers, NEW m \in Response, rpcPc[k] = "wait", m.call = k,
                 rpcPc' = [rpcPc EXCEPT ![k] = "returned"],
                 rpcGot' = [j \in RpcCallers |-> IF j = k THEN m ELSE rpcGot[j]]
          PROVE  RpcRemote!Answer(k)
      <4>1. m # NoMessage
        BY DEF Response, NoMessage
      <4> QED BY <2>0, <3>2, <4>1 DEF RpcRemote!Answer, RpcPhase
    <3> QED BY <2>7, <3>1, <3>2, ReceiveReturns DEF RpcRemote!RemoteNext
  <2>8. CASE Announce \/ TakeRequest \/ HandlerPanics \/ CloseRpc \/ UNCHANGED rpcVars
    BY <2>1, <2>8 DEF Announce, TakeRequest, HandlerPanics, CloseRpc, rpcVars
  <2>9. CASE \E how \in {"result", "error"} : Respond(how)
    BY <2>1, <2>9 DEF Respond
  <2> QED BY <2>5, <2>6, <2>7, <2>8, <2>9 DEF RpcNext, RpcRemote!RemoteNext
<1> QED BY <1>1, <1>2, RpcInitInv, RpcNextInv, PTL DEF RpcSpec, RpcRemote!RemoteSafety

-----------------------------------------------------------------------------
(* The cloud *)

CloudSpec == CloudInit /\ [][CloudNext]_cloudVars

CloudPcs == CloudEnded \cup {"exchange", "verify", "delete", "saveToken", "saveIdentity", "finish", "saveUrl"}

CloudTypes ==
  /\ CloudTypeOK
  /\ cloudPc \in [CloudReqs -> CloudPcs]
  /\ cloudArg \in [CloudReqs -> Clouds \cup {"none"}]

\* Until setCloudState forces one, the loop finds a state it acts on whenever it has looked or is
\* about to look: a request may store Disconnected or NotConfigured over it at any time.
LoopActs ==
  ("forced" \notin cloudUpsets /\ loopPc \in {"look", "act"}) => cloudState \in {"notConfigured", "disconnected"}

\* Requests that never overlapped: one at a time is under way, and between its two saves the token
\* is already the one it gives the device.
OneRegistration ==
  cloudUpsets \cap {"overlap", "saveFailed"} = {} =>
    /\ \A r, s \in CloudActive : r = s
    /\ \A r \in CloudReqs : cloudPc[r] = "saveIdentity" => cloudToken = IF Registering(r) THEN r ELSE "none"
    /\ (\A r \in CloudReqs : cloudPc[r] # "saveIdentity") => cloudToken = cloudIdentity

CloudIInv == CloudTypes /\ LoopActs /\ OneRegistration /\ SenderIsOpen

\* The loop's own steps.
LEMMA CloudLoopStep ==
  ASSUME CloudIInv, LoopTask \/ SocketCloses \/ SocketErrs
  PROVE  CloudIInv'
<1> USE DEF CloudIInv, LoopOnly, LoopGoto, cloudCfgVars
<1>1. UNCHANGED <<cloudToken, cloudIdentity, cloudUrl, cloudPc, cloudKind, cloudArg, cloudFaults>>
  BY DEF LoopTask, LoopLook, LoopNotConfigured, LoopDisconnected, ConnectToCloud, HandshakeSucceeds,
     HandshakeFails, ClearSender, LeaveCloud, SocketCloses, SocketErrs
<1>2. cloudUpsets' = cloudUpsets \/ (loopPc = "open" /\ cloudUpsets' = cloudUpsets \cup {"streamError"})
  BY DEF LoopTask, LoopLook, LoopNotConfigured, LoopDisconnected, ConnectToCloud, HandshakeSucceeds,
     HandshakeFails, ClearSender, LeaveCloud, SocketCloses, SocketErrs
<1>3. CloudTypes'
  BY <1>1 DEF CloudTypes, CloudTypeOK, CloudStates, LoopTask, LoopLook, LoopNotConfigured, LoopDisconnected,
     ConnectToCloud, HandshakeSucceeds, HandshakeFails, ClearSender, LeaveCloud, SocketCloses, SocketErrs
<1>4. LoopActs'
  BY <1>2 DEF LoopActs, CloudTypes, CloudTypeOK, LoopTask, LoopLook, LoopNotConfigured, LoopDisconnected,
     ConnectToCloud, HandshakeSucceeds, HandshakeFails, ClearSender, LeaveCloud, SocketCloses, SocketErrs
<1>5. OneRegistration'
  BY <1>1, <1>2 DEF OneRegistration, CloudActive, Registering
<1>6. SenderIsOpen'
  BY <1>2 DEF SenderIsOpen, LoopTask, LoopLook, LoopNotConfigured, LoopDisconnected, ConnectToCloud,
     HandshakeSucceeds, HandshakeFails, ClearSender, LeaveCloud, SocketCloses, SocketErrs
<1> QED BY <1>3, <1>4, <1>5, <1>6

\* A request only ever stores a state the loop acts on, and leaves the loop's variables alone.
LEMMA CloudRequestKeepsLoop ==
  ASSUME CloudIInv, UNCHANGED cloudLoopVars, cloudUpsets \subseteq cloudUpsets',
         cloudState' \in {cloudState, "disconnected", "notConfigured"} \/ "forced" \in cloudUpsets'
  PROVE  LoopActs' /\ SenderIsOpen'
<1>1. LoopActs'
  BY DEF CloudIInv, LoopActs, cloudLoopVars
<1>2. SenderIsOpen'
  BY DEF CloudIInv, SenderIsOpen, cloudLoopVars
<1> QED BY <1>1, <1>2
\* A request starts: unless another one is under way, which is an overlap, it is the only one.
LEMMA CloudStartStep ==
  ASSUME CloudIInv, NEW r \in CloudReqs, NEW kind, NEW arg \in Clouds \cup {"none"}, CloudStart(r, kind, arg),
         NEW pc \in CloudPcs \ {"saveIdentity"}, CloudGoto(r, pc),
         cloudState' \in {cloudState, "disconnected"}
  PROVE  CloudIInv'
<1> USE DEF CloudIInv, CloudStart, CloudGoto, cloudCfgVars
<1>1. LoopActs' /\ SenderIsOpen'
  BY CloudRequestKeepsLoop
<1>2. CloudTypes'
  <2>1. cloudPc' \in [CloudReqs -> CloudPcs] /\ cloudArg' \in [CloudReqs -> Clouds \cup {"none"}]
    BY DEF CloudTypes
  <2>2. cloudState' \in CloudStates
    BY DEF CloudTypes, CloudTypeOK, CloudStates
  <2> QED BY <2>1, <2>2 DEF CloudTypes, CloudTypeOK, cloudLoopVars
<1>3. OneRegistration'
  <2> SUFFICES ASSUME cloudUpsets' \cap {"overlap", "saveFailed"} = {}
               PROVE  /\ \A q, s \in CloudActive' : q = s
                      /\ \A q \in CloudReqs : cloudPc'[q] # "saveIdentity"
                      /\ cloudToken' = cloudIdentity'
    BY DEF OneRegistration
  <2>1. CloudActive = {} /\ cloudUpsets \cap {"overlap", "saveFailed"} = {}
    OBVIOUS
  <2>2. \A q \in CloudReqs : cloudPc'[q] = IF q = r THEN pc ELSE cloudPc[q]
    BY DEF CloudTypes
  <2>3. \A q \in CloudReqs : cloudPc[q] # "saveIdentity"
    BY <2>1 DEF CloudActive, CloudEnded
  <2>4. \A q \in CloudActive' : q = r
    BY <2>1, <2>2 DEF CloudActive
  <2> QED BY <2>1, <2>2, <2>3, <2>4 DEF OneRegistration
<1> QED BY <1>1, <1>2, <1>3

\* A request that is under way goes on or ends; what it does to token and identity is said.
LEMMA CloudGoesOn ==
  ASSUME CloudIInv, NEW r \in CloudReqs, cloudPc[r] \notin CloudEnded, NEW pc \in CloudPcs, CloudGoto(r, pc),
         UNCHANGED <<cloudKind, cloudArg, cloudLoopVars>>,
         cloudUpsets' \in {cloudUpsets, cloudUpsets \cup {"saveFailed"}},
         cloudState' \in {cloudState, "disconnected", "notConfigured"},
         {cloudToken', cloudIdentity'} \subseteq CloudReqs \cup {"none"},
         cloudUrl' \in Clouds \cup {"none"}, cloudFaults' \in 0..MaxCloudFaults,
         \/ "saveFailed" \in cloudUpsets'
         \/ /\ cloudPc[r] # "saveIdentity" /\ pc # "saveIdentity"
            /\ UNCHANGED <<cloudToken, cloudIdentity>>
         \/ /\ pc = "saveIdentity" /\ cloudToken' = IF Registering(r) THEN r ELSE "none"
         \/ /\ cloudPc[r] = "saveIdentity" /\ pc # "saveIdentity"
            /\ cloudToken' = cloudToken /\ cloudIdentity' = IF Registering(r) THEN r ELSE "none"
  PROVE  CloudIInv'
<1> USE DEF CloudIInv, CloudGoto
<1>1. LoopActs' /\ SenderIsOpen'
  BY CloudRequestKeepsLoop
<1>2. \A q \in CloudReqs : cloudPc'[q] = IF q = r THEN pc ELSE cloudPc[q]
  BY DEF CloudTypes
<1>3. CloudTypes'
  <2>1. cloudPc' \in [CloudReqs -> CloudPcs]
    BY DEF CloudTypes
  <2>2. cloudState' \in CloudStates
    BY DEF CloudTypes, CloudTypeOK, CloudStates
  <2> QED BY <2>1, <2>2 DEF CloudTypes, CloudTypeOK, cloudLoopVars
<1>4. OneRegistration'
  <2> SUFFICES ASSUME cloudUpsets' \cap {"overlap", "saveFailed"} = {}
               PROVE  /\ \A q, s \in CloudActive' : q = s
                      /\ \A q \in CloudReqs :
                           cloudPc'[q] = "saveIdentity" => cloudToken' = IF Registering(q)' THEN q ELSE "none"
                      /\ (\A q \in CloudReqs : cloudPc'[q] # "saveIdentity") => cloudToken' = cloudIdentity'
    BY DEF OneRegistration
  <2>1. cloudUpsets \cap {"overlap", "saveFailed"} = {}
    OBVIOUS
  <2>2. \A q \in CloudReqs : cloudPc[q] \notin CloudEnded => q = r
    BY <2>1 DEF OneRegistration, CloudActive
  <2>3. \A q \in CloudActive' : q = r
    BY <1>2, <2>2 DEF CloudActive
  <2>4. \A q \in CloudReqs : q # r => cloudPc[q] # "saveIdentity" /\ cloudPc'[q] # "saveIdentity"
    BY <1>2, <2>2 DEF CloudEnded
  <2>5. cloudPc'[r] = pc /\ (Registering(r)' <=> Registering(r))
    BY <1>2 DEF Registering
  <2>6. CASE /\ cloudPc[r] # "saveIdentity" /\ pc # "saveIdentity"
             /\ UNCHANGED <<cloudToken, cloudIdentity>>
    BY <2>1, <2>3, <2>4, <2>5, <2>6 DEF OneRegistration
  <2>7. CASE pc = "saveIdentity" /\ cloudToken' = IF Registering(r) THEN r ELSE "none"
    BY <2>3, <2>4, <2>5, <2>7
  <2>8. CASE /\ cloudPc[r] = "saveIdentity" /\ pc # "saveIdentity"
             /\ cloudToken' = cloudToken /\ cloudIdentity' = IF Registering(r) THEN r ELSE "none"
    BY <2>1, <2>3, <2>4, <2>5, <2>8 DEF OneRegistration
  <2> QED BY <2>6, <2>7, <2>8
<1> QED BY <1>1, <1>3, <1>4

LEMMA CloudRequestStep ==
  ASSUME CloudIInv, NEW r \in CloudReqs,
         \/ \E u \in Clouds \cup {"none"} : StartRegister(r, u) \/ StartSetUrl(r, u)
         \/ StartDeregister(r) \/ \E s \in CloudStates : ForceState(r, s)
         \/ CloudAnswers(r) \/ SaveToken(r) \/ SaveIdentity(r) \/ FinishCloud(r) \/ SaveUrl(r)
  PROVE  CloudIInv'
<1> USE DEF CloudPcs, CloudEnded
<1>0. /\ cloudUrl \in Clouds \cup {"none"} /\ {cloudToken, cloudIdentity} \subseteq CloudReqs \cup {"none"}
      /\ cloudArg[r] \in Clouds \cup {"none"} /\ cloudFaults \in 0..MaxCloudFaults
  BY DEF CloudIInv, CloudTypes, CloudTypeOK
<1>1. ASSUME NEW u \in Clouds \cup {"none"}, StartRegister(r, u) PROVE CloudIInv'
  <2> DEFINE url == IF cloudUrl # "none" THEN cloudUrl ELSE u
             pc == IF url = "none" THEN "failed" ELSE "exchange"
  <2>1. url \in Clouds \cup {"none"} /\ pc \in CloudPcs \ {"saveIdentity"}
    BY <1>0
  <2>2. CloudStart(r, "register", url) /\ CloudGoto(r, pc) /\ cloudState' = cloudState
    BY <1>1 DEF StartRegister
  <2> HIDE DEF url, pc
  <2> QED BY <2>1, <2>2, CloudStartStep
<1>2. ASSUME NEW u \in Clouds \cup {"none"}, StartSetUrl(r, u) PROVE CloudIInv'
  BY <1>2, CloudStartStep DEF StartSetUrl
<1>3. CASE StartDeregister(r)
  <2> DEFINE pc == IF Registered THEN "delete" ELSE "failed"
  <2>1. pc \in CloudPcs \ {"saveIdentity"}
    OBVIOUS
  <2>2. CloudStart(r, "deregister", cloudUrl) /\ CloudGoto(r, pc) /\ cloudState' = cloudState
    BY <1>3 DEF StartDeregister
  <2> HIDE DEF pc
  <2> QED BY <1>0, <2>1, <2>2, CloudStartStep
<1>4. ASSUME NEW s \in CloudStates, ForceState(r, s) PROVE CloudIInv'
  <2>1. LoopActs' /\ SenderIsOpen'
    BY <1>4, CloudRequestKeepsLoop DEF ForceState
  <2>2. CloudTypes'
    BY <1>4 DEF CloudIInv, CloudTypes, CloudTypeOK, ForceState, CloudGoto, cloudCfgVars, cloudLoopVars
  <2>3. OneRegistration'
    <3>1. \A q \in CloudReqs : cloudPc'[q] = IF q = r THEN "done" ELSE cloudPc[q]
      BY <1>4 DEF ForceState, CloudGoto, CloudIInv, CloudTypes
    <3>2. cloudPc[r] = "new" /\ cloudUpsets' = cloudUpsets \cup {"forced"}
          /\ UNCHANGED <<cloudToken, cloudIdentity, cloudKind>>
      BY <1>4 DEF ForceState, cloudCfgVars
    <3>3. CloudActive' = CloudActive
      BY <3>1, <3>2 DEF CloudActive
    <3> QED BY <3>1, <3>2, <3>3 DEF CloudIInv, OneRegistration, Registering
  <2> QED BY <2>1, <2>2, <2>3 DEF CloudIInv
<1>5. CASE CloudAnswers(r)
  <2>1. PICK pc \in {"verify", "saveToken", "failed"} : CloudGoto(r, pc)
    BY <1>5 DEF CloudAnswers
  <2>2. cloudPc[r] \in {"exchange", "verify", "delete"}
    BY <1>5 DEF CloudAnswers
  <2> QED BY <1>0, <1>5, <2>1, <2>2, CloudGoesOn DEF CloudAnswers, cloudCfgVars
<1>6. CASE SaveToken(r)
  <2>1. PICK pc \in {"saveIdentity", "failed"} :
          /\ CloudGoto(r, pc) /\ cloudFaults' \in 0..MaxCloudFaults
          /\ IF pc = "failed" THEN cloudUpsets' = cloudUpsets \cup {"saveFailed"} ELSE cloudUpsets' = cloudUpsets
    BY <1>0, <1>6, CloudAssumption DEF SaveToken, SaveStep
  <2>2. cloudPc[r] = "saveToken" /\ UNCHANGED <<cloudLoopVars, cloudKind, cloudArg, cloudState, cloudIdentity>>
    BY <1>6 DEF SaveToken, SaveStep
  <2>3. cloudToken' = (IF Registering(r) THEN r ELSE "none") /\ cloudUrl' \in Clouds \cup {"none"}
    BY <1>0, <1>6 DEF SaveToken
  <2> QED BY <1>0, <2>1, <2>2, <2>3, CloudGoesOn
<1>7. CASE SaveIdentity(r)
  <2>1. PICK pc \in {"finish", "failed"} :
          /\ CloudGoto(r, pc) /\ cloudFaults' \in 0..MaxCloudFaults
          /\ IF pc = "failed" THEN cloudUpsets' = cloudUpsets \cup {"saveFailed"} ELSE cloudUpsets' = cloudUpsets
    BY <1>0, <1>7, CloudAssumption DEF SaveIdentity, SaveStep
  <2>2. /\ cloudPc[r] = "saveIdentity"
        /\ UNCHANGED <<cloudLoopVars, cloudKind, cloudArg, cloudState, cloudToken, cloudUrl>>
    BY <1>7 DEF SaveIdentity, SaveStep
  <2>3. cloudIdentity' = (IF Registering(r) THEN r ELSE "none")
    BY <1>7 DEF SaveIdentity
  <2> QED BY <1>0, <2>1, <2>2, <2>3, CloudGoesOn
<1>8. CASE FinishCloud(r)
  BY <1>0, <1>8, CloudGoesOn DEF FinishCloud, cloudCfgVars
<1>9. CASE SaveUrl(r)
  <2>1. PICK pc \in {"done", "failed"} :
          /\ CloudGoto(r, pc) /\ cloudFaults' \in 0..MaxCloudFaults
          /\ cloudUpsets' \in {cloudUpsets, cloudUpsets \cup {"saveFailed"}}
    BY <1>0, <1>9, CloudAssumption DEF SaveUrl, SaveStep
  <2>2. /\ cloudPc[r] = "saveUrl" /\ cloudUrl' = cloudArg[r]
        /\ UNCHANGED <<cloudLoopVars, cloudKind, cloudArg, cloudState, cloudToken, cloudIdentity>>
    BY <1>9 DEF SaveUrl, SaveStep
  <2> QED BY <1>0, <2>1, <2>2, CloudGoesOn
<1> QED BY <1>1, <1>2, <1>3, <1>4, <1>5, <1>6, <1>7, <1>8, <1>9

\* The loop is never parked in a state it only sleeps in, registrations that do not overlap are whole,
\* and a sender is there only while the socket is: for any number of requests that interleave with
\* the loop's unsynchronised loads and stores of the state.
THEOREM CloudInvHolds == CloudSpec => []CloudInv
<1>1. CloudInit => CloudIInv
  BY CloudAssumption DEF CloudInit, CloudIInv, CloudTypes, CloudTypeOK, CloudStates, CloudPcs, CloudEnded,
     LoopActs, OneRegistration, SenderIsOpen, CloudActive
<1>2. CloudIInv /\ [CloudNext]_cloudVars => CloudIInv'
  <2> SUFFICES ASSUME CloudIInv, [CloudNext]_cloudVars PROVE CloudIInv'
    OBVIOUS
  <2>1. CASE UNCHANGED cloudVars
    BY <2>1 DEF cloudVars, CloudIInv, CloudTypes, CloudTypeOK, LoopActs, OneRegistration, SenderIsOpen,
       CloudActive, Registering
  <2> QED BY <2>1, CloudLoopStep, CloudRequestStep DEF CloudNext
<1>3. CloudIInv => CloudInv
  <2> SUFFICES ASSUME CloudIInv PROVE CloudInv
    OBVIOUS
  <2>1. LoopNeverParked
    BY DEF CloudIInv, LoopActs, LoopNeverParked
  <2>2. RegistrationIsWhole
    BY DEF CloudIInv, OneRegistration, RegistrationIsWhole, CloudActive, CloudEnded
  <2> QED BY <2>1, <2>2 DEF CloudIInv, CloudTypes, CloudInv
<1> QED BY <1>1, <1>2, <1>3, PTL DEF CloudSpec

-----------------------------------------------------------------------------
(* The disk bridge *)

DiskSpec == DiskInit /\ [][DiskNext]_diskVars

ImageBytes == 0..(DiskSize - 1)
Ranges == {q \in (0..DiskSize) \X (0..DiskSize) : q[1] <= q[2]}

DiskTypes ==
  /\ DiskTypeOK
  /\ asked \in [DiskChannels -> Seq(Ranges)]
  /\ timedOut \in BOOLEAN
  /\ read \in [off : 0..DiskSize, end : 0..DiskSize,
               pc : {"idle", "send", "wait", "ok", "failed", "refused"},
               via : {"none"} \cup DiskChannels, data : Seq(ImageBytes)]

\* A read that has asked, or is about to, asks for some bytes, on a channel.
AsksForBytes == read.pc \in {"send", "wait"} => read.via \in DiskChannels /\ read.off < read.end

\* What has come in is the beginning of the range that is read, what is on the wire goes on from
\* there, and together they are no more than the range; nothing of it is there before it is answered.
AnswerSoFar(off, end, buf, w, q) ==
  /\ \A i \in 1..Len(buf) : buf[i] = off + i - 1
  /\ \A i \in 1..Len(w) : w[i] = off + Len(buf) + i - 1
  /\ Len(buf) + Len(w) <= end - off
  /\ q = <<>> \/ (q = << <<off, end>> >> /\ buf = <<>> /\ w = <<>>)

\* While no read has given up, every answer on its way is the answer to the read that waits.
AnswersAreOwn ==
  ~timedOut =>
    /\ \A c \in DiskChannels : read.pc # "wait" \/ c # read.via => asked[c] = <<>> /\ wire[c] = <<>>
    /\ read.pc = "send" => diskBuf = <<>>
    /\ read.pc = "wait" => AnswerSoFar(read.off, read.end, diskBuf, wire[read.via], asked[read.via])

DiskIInv == DiskTypes /\ WaitingIsInFlight /\ AsksForBytes /\ AnswersAreOwn /\ ReadsWholeRange /\ ReadsOwnRange

\* The bytes of a range are as many as the range is long, and bytes of the image.
LEMMA BytesOfRange ==
  ASSUME NEW q \in Ranges
  PROVE  /\ Bytes(q[1], q[2]) \in Seq(ImageBytes)
         /\ Len(Bytes(q[1], q[2])) = q[2] - q[1]
         /\ \A i \in 1..(q[2] - q[1]) : Bytes(q[1], q[2])[i] = q[1] + i - 1
<1>1. q[1] \in Nat /\ q[2] \in Nat /\ q[1] <= q[2] /\ q[2] <= DiskSize /\ DiskSize \in Nat
  BY DiskAssumption DEF Ranges
<1>2. \A i \in 1..(q[2] - q[1]) : q[1] + i - 1 \in ImageBytes
  BY <1>1 DEF ImageBytes
<1>3. q[2] - q[1] \in Nat
  BY <1>1
<1> QED BY <1>2, <1>3 DEF Bytes

\* A range that is clamped lies in the image.
LEMMA ClampedIsRange ==
  ASSUME NEW off \in 0..DiskSize, NEW len \in 1..DiskSize
  PROVE  ClampedEnd(off, len) \in 0..DiskSize /\ off <= ClampedEnd(off, len)
BY DiskAssumption DEF ClampedEnd

\* A piece of a sequence.
LEMMA PieceOfSeq ==
  ASSUME NEW S, NEW s \in Seq(S), NEW m \in Nat, NEW n \in Nat, m >= 1, n <= Len(s), m <= n + 1
  PROVE  /\ SubSeq(s, m, n) \in Seq(S)
         /\ Len(SubSeq(s, m, n)) = n - m + 1
         /\ \A i \in 1..(n - m + 1) : SubSeq(s, m, n)[i] = s[m + i - 1]
OBVIOUS

\* The channels open and close.
LEMMA DiskChannelStep ==
  ASSUME DiskIInv, NEW c \in DiskChannels, OpenDisk(c) \/ LoseDisk(c) \/ CloseDisk(c)
  PROVE  DiskIInv'
<1> USE DEF DiskIInv
<1>1. UNCHANGED <<inFlight, diskBuf, read, reads, timedOut>>
  BY DEF OpenDisk, LoseDisk, CloseDisk
<1>2. /\ asked' \in [DiskChannels -> Seq(Ranges)] /\ wire' \in [DiskChannels -> Seq(ImageBytes)]
      /\ \A d \in DiskChannels : /\ asked'[d] = asked[d] \/ asked'[d] = <<>>
                                 /\ wire'[d] = wire[d] \/ wire'[d] = <<>>
                                 /\ wire'[d] = <<>> \/ asked'[d] = asked[d]
  <2>1. CASE LoseDisk(c)
    BY <2>1 DEF LoseDisk, DiskTypes, DiskTypeOK, ImageBytes
  <2>2. CASE UNCHANGED <<asked, wire>>
    BY <2>2 DEF DiskTypes, DiskTypeOK, ImageBytes
  <2> QED BY <2>1, <2>2 DEF OpenDisk, CloseDisk
<1>3. chan' \in [DiskChannels -> {"new", "open", "closing", "closed"}] /\ diskSender' \in {"none"} \cup DiskChannels
  BY DEF OpenDisk, LoseDisk, CloseDisk, DiskTypes, DiskTypeOK
<1>4. DiskTypes'
  BY <1>1, <1>2, <1>3 DEF DiskTypes, DiskTypeOK, ImageBytes
<1>5. AnswersAreOwn'
  <2> SUFFICES ASSUME ~timedOut
               PROVE  /\ \A d \in DiskChannels : read.pc # "wait" \/ d # read.via => asked'[d] = <<>> /\ wire'[d] = <<>>
                      /\ read.pc = "send" => diskBuf = <<>>
                      /\ read.pc = "wait" => AnswerSoFar(read.off, read.end, diskBuf, wire'[read.via], asked'[read.via])
    BY <1>1 DEF AnswersAreOwn
  <2>1. \A d \in DiskChannels : read.pc # "wait" \/ d # read.via => asked'[d] = <<>> /\ wire'[d] = <<>>
    BY <1>2 DEF AnswersAreOwn
  <2>2. ASSUME read.pc = "wait"
        PROVE  AnswerSoFar(read.off, read.end, diskBuf, wire'[read.via], asked'[read.via])
    <3>1. read.via \in DiskChannels /\ read.off \in 0..DiskSize /\ read.end \in 0..DiskSize
          /\ diskBuf \in Seq(ImageBytes) /\ wire[read.via] \in Seq(ImageBytes)
      BY <2>2 DEF AsksForBytes, DiskTypes, DiskTypeOK, ImageBytes
    <3>2. AnswerSoFar(read.off, read.end, diskBuf, wire[read.via], asked[read.via])
      BY <2>2 DEF AnswersAreOwn
    <3>3. CASE wire'[read.via] = wire[read.via]
      BY <1>2, <3>1, <3>2, <3>3 DEF AnswerSoFar
    <3>4. CASE wire'[read.via] = <<>>
      <4>1. Len(wire'[read.via]) = 0 /\ Len(diskBuf) \in Nat /\ Len(wire[read.via]) \in Nat
        BY <3>1, <3>4
      <4>2. Len(diskBuf) + Len(wire'[read.via]) <= read.end - read.off
        BY <3>1, <3>2, <4>1, DiskAssumption DEF AnswerSoFar
      <4> QED BY <1>2, <3>1, <3>2, <3>4, <4>1, <4>2 DEF AnswerSoFar
    <3> QED BY <1>2, <3>1, <3>3, <3>4
  <2> QED BY <2>1, <2>2 DEF AnswersAreOwn
<1> QED BY <1>1, <1>4, <1>5 DEF WaitingIsInFlight, AsksForBytes, ReadsWholeRange, ReadsOwnRange

\* A read starts with an empty buffer, and while no read has given up nothing is on its way then.
LEMMA DiskStartStep ==
  ASSUME DiskIInv, NEW off \in 0..DiskSize, NEW len \in 1..DiskSize, StartRead(off, len)
  PROVE  DiskIInv'
<1> USE DEF DiskIInv
<1> DEFINE end == ClampedEnd(off, len)
<1>1. end \in 0..DiskSize /\ off <= end
  BY ClampedIsRange
<1>2. UNCHANGED <<diskSender, chan, asked, wire, timedOut>> /\ read.pc \notin {"send", "wait"}
  BY DEF StartRead
<1>3. PICK pc \in {"ok", "failed", "refused", "send"}, via \in {"none"} \cup DiskChannels :
        /\ read' = [off |-> off, end |-> end, pc |-> pc, via |-> via, data |-> <<>>]
        /\ pc = "send" => inFlight' = TRUE /\ diskBuf' = <<>> /\ via \in DiskChannels /\ end # off
        /\ pc # "send" => UNCHANGED <<inFlight, diskBuf>>
        /\ pc = "ok" => end = off
  BY DEF StartRead, DiskTypes, DiskTypeOK
<1>4. reads' \in 0..MaxReads
  BY DiskAssumption DEF StartRead, DiskTypes, DiskTypeOK
<1>5. DiskTypes'
  <2>0. <<>> \in Seq(0..(DiskSize - 1))
    OBVIOUS
  <2>1. diskBuf' \in Seq(0..(DiskSize - 1)) /\ inFlight' \in BOOLEAN
    <3>1. CASE pc = "send"
      BY <1>3, <2>0, <3>1
    <3>2. CASE pc # "send"
      BY <1>3, <3>2 DEF DiskTypes, DiskTypeOK
    <3> QED BY <3>1, <3>2
  <2>2. read'.pc \in {"idle", "send", "wait", "ok", "failed", "refused"}
    BY <1>3
  <2> HIDE DEF end
  <2>3. read' \in [off : 0..DiskSize, end : 0..DiskSize,
               pc : {"idle", "send", "wait", "ok", "failed", "refused"},
               via : {"none"} \cup DiskChannels, data : Seq(ImageBytes)]
    BY <1>1, <1>3
  <2> QED BY <1>2, <1>4, <2>1, <2>2, <2>3 DEF DiskTypes, DiskTypeOK
<1> HIDE DEF end
<1>6. AsksForBytes' /\ WaitingIsInFlight'
  BY <1>1, <1>3, DiskAssumption DEF AsksForBytes, WaitingIsInFlight
<1>7. AnswersAreOwn'
  BY <1>2, <1>3 DEF AnswersAreOwn
<1>8. ReadsWholeRange' /\ ReadsOwnRange'
  BY <1>1, <1>3, DiskAssumption DEF ReadsWholeRange, ReadsOwnRange
<1> QED BY <1>5, <1>6, <1>7, <1>8

LEMMA DiskSendStep ==
  ASSUME DiskIInv, SendRead
  PROVE  DiskIInv'
<1> USE DEF DiskIInv
<1>0. /\ read.pc = "send" /\ UNCHANGED <<diskSender, inFlight, diskBuf, chan, wire, reads, timedOut>>
      /\ read.via \in DiskChannels /\ read.off < read.end /\ inFlight
      /\ read.off \in 0..DiskSize /\ read.end \in 0..DiskSize
  BY DEF SendRead, AsksForBytes, WaitingIsInFlight, DiskTypes
<1>1. PICK pc \in {"wait", "failed"} :
        /\ read' = [read EXCEPT !.pc = pc]
        /\ pc = "wait" => asked' = [asked EXCEPT ![read.via] = Append(@, <<read.off, read.end>>)]
        /\ pc = "failed" => asked' = asked
  BY DEF SendRead
<1>2. /\ read'.pc = pc /\ read'.off = read.off /\ read'.end = read.end /\ read'.via = read.via
      /\ read' \in [off : 0..DiskSize, end : 0..DiskSize,
               pc : {"idle", "send", "wait", "ok", "failed", "refused"},
               via : {"none"} \cup DiskChannels, data : Seq(ImageBytes)]
  BY <1>1 DEF DiskTypes
<1>3. asked' \in [DiskChannels -> Seq(Ranges)]
  <2>1. <<read.off, read.end>> \in Ranges
    BY <1>0, DiskAssumption DEF Ranges
  <2>2. asked \in [DiskChannels -> Seq(Ranges)] /\ asked[read.via] \in Seq(Ranges)
    BY <1>0 DEF DiskTypes
  <2>3. Append(asked[read.via], <<read.off, read.end>>) \in Seq(Ranges)
    BY <2>1, <2>2, AppendProperties
  <2> QED BY <1>0, <1>1, <2>2, <2>3
<1>4. DiskTypes'
  BY <1>0, <1>2, <1>3 DEF DiskTypes, DiskTypeOK
<1>5. AnswersAreOwn'
  <2> SUFFICES ASSUME ~timedOut PROVE AnswersAreOwn'
    BY <1>0 DEF AnswersAreOwn
  <2>1. /\ diskBuf' = <<>> /\ \A c \in DiskChannels : asked[c] = <<>> /\ wire'[c] = <<>>
    BY <1>0 DEF AnswersAreOwn
  <2>2. CASE pc = "failed"
    BY <1>1, <1>2, <2>1, <2>2 DEF AnswersAreOwn
  <2>3. CASE pc = "wait"
    <3>0. Append(<<>>, <<read.off, read.end>>) = << <<read.off, read.end>> >>
      OBVIOUS
    <3>1. asked'[read.via] = << <<read.off, read.end>> >>
      <4>1. asked'[read.via] = Append(asked[read.via], <<read.off, read.end>>) /\ asked[read.via] = <<>>
        BY <1>0, <1>1, <2>1, <2>3 DEF DiskTypes
      <4> QED BY <3>0, <4>1
    <3>2. \A c \in DiskChannels \ {read.via} : asked'[c] = <<>>
      BY <1>0, <1>1, <2>1, <2>3 DEF DiskTypes
    <3>3. AnswerSoFar(read.off, read.end, diskBuf', wire'[read.via], asked'[read.via])
      BY <1>0, <2>1, <3>1, DiskAssumption DEF AnswerSoFar
    <3> QED BY <1>2, <2>1, <2>3, <3>2, <3>3 DEF AnswersAreOwn
  <2> QED BY <2>2, <2>3
<1> QED BY <1>0, <1>2, <1>4, <1>5 DEF WaitingIsInFlight, AsksForBytes, ReadsWholeRange, ReadsOwnRange

LEMMA DiskAnswerStep ==
  ASSUME DiskIInv, NEW c \in DiskChannels, BrowserAnswers(c)
  PROVE  DiskIInv'
<1> USE DEF DiskIInv
<1> DEFINE q == Head(asked[c])
<1>0. /\ UNCHANGED <<diskSender, inFlight, diskBuf, chan, read, reads, timedOut>> /\ asked[c] # <<>>
      /\ wire' = [wire EXCEPT ![c] = @ \o Bytes(q[1], q[2])] /\ asked' = [asked EXCEPT ![c] = Tail(@)]
  BY DEF BrowserAnswers
<1>1. asked[c] \in Seq(Ranges) /\ wire[c] \in Seq(ImageBytes)
  BY DEF DiskTypes, DiskTypeOK, ImageBytes
<1>2. q \in Ranges
  BY <1>0, <1>1
<1> HIDE DEF q
<1>3. /\ Bytes(q[1], q[2]) \in Seq(ImageBytes) /\ Len(Bytes(q[1], q[2])) = q[2] - q[1]
      /\ \A i \in 1..(q[2] - q[1]) : Bytes(q[1], q[2])[i] = q[1] + i - 1
  BY <1>2, BytesOfRange
<1>4. wire[c] \o Bytes(q[1], q[2]) \in Seq(ImageBytes) /\ Tail(asked[c]) \in Seq(Ranges)
  BY <1>0, <1>1, <1>3
<1>5. wire' \in [DiskChannels -> Seq(ImageBytes)] /\ asked' \in [DiskChannels -> Seq(Ranges)]
  BY <1>0, <1>4 DEF DiskTypes, DiskTypeOK, ImageBytes
<1>6. DiskTypes'
  BY <1>0, <1>5 DEF DiskTypes, DiskTypeOK, ImageBytes
<1>7. AnswersAreOwn'
  <2> SUFFICES ASSUME ~timedOut PROVE AnswersAreOwn'
    BY <1>0 DEF AnswersAreOwn
  <2>1. read.pc = "wait" /\ c = read.via
    BY <1>0 DEF AnswersAreOwn
  <2>2. AnswerSoFar(read.off, read.end, diskBuf, wire[c], asked[c])
    BY <2>1 DEF AnswersAreOwn
  <2>3. asked[c] = << <<read.off, read.end>> >> /\ diskBuf = <<>> /\ wire[c] = <<>>
    BY <1>0, <2>2 DEF AnswerSoFar
  <2>4. q[1] = read.off /\ q[2] = read.end /\ Tail(asked[c]) = <<>>
    BY <2>3 DEF q
  <2>5. asked'[c] = <<>> /\ wire'[c] = Bytes(q[1], q[2])
    <3>1. wire[c] \o Bytes(q[1], q[2]) = Bytes(q[1], q[2])
      BY <1>3, <2>3, ConcatEmptySeq
    <3> QED BY <1>0, <2>4, <3>1 DEF DiskTypes, DiskTypeOK
  <2>6. AnswerSoFar(read.off, read.end, diskBuf, wire'[c], asked'[c])
    BY <1>2, <1>3, <2>3, <2>4, <2>5, DiskAssumption DEF AnswerSoFar, Ranges
  <2>7. \A d \in DiskChannels \ {c} : asked'[d] = asked[d] /\ wire'[d] = wire[d]
    BY <1>0 DEF DiskTypes, DiskTypeOK
  <2> QED BY <1>0, <2>1, <2>6, <2>7 DEF AnswersAreOwn
<1> QED BY <1>0, <1>6, <1>7 DEF WaitingIsInFlight, AsksForBytes, ReadsWholeRange, ReadsOwnRange

\* A message moves the first n bytes of the wire to the end of the buffer.
LEMMA DiskMessageStep ==
  ASSUME DiskIInv, NEW c \in DiskChannels, NEW n \in Nat, n >= 1, DiskMessage(c, n)
  PROVE  DiskIInv'
<1> USE DEF DiskIInv
<1> DEFINE w == wire[c]
           first == SubSeq(w, 1, n)
           rest == SubSeq(w, n + 1, Len(w))
<1>0. /\ UNCHANGED <<diskSender, inFlight, chan, asked, read, reads, timedOut>> /\ n <= Len(w)
      /\ diskBuf' = diskBuf \o first /\ wire' = [wire EXCEPT ![c] = rest]
  BY DEF DiskMessage
<1>1. w \in Seq(ImageBytes) /\ diskBuf \in Seq(ImageBytes) /\ Len(w) \in Nat /\ Len(diskBuf) \in Nat
  BY DEF DiskTypes, DiskTypeOK, ImageBytes
<1>2. first \in Seq(ImageBytes) /\ Len(first) = n /\ \A i \in 1..n : first[i] = w[i]
  BY <1>0, <1>1, PieceOfSeq
<1>3. rest \in Seq(ImageBytes) /\ Len(rest) = Len(w) - n /\ \A i \in 1..(Len(w) - n) : rest[i] = w[n + i]
  BY <1>0, <1>1, PieceOfSeq
<1> HIDE DEF first, rest
<1>4. /\ diskBuf' \in Seq(ImageBytes) /\ Len(diskBuf') = Len(diskBuf) + n
      /\ \A i \in 1..Len(diskBuf) : diskBuf'[i] = diskBuf[i]
      /\ \A i \in (Len(diskBuf) + 1)..(Len(diskBuf) + n) : diskBuf'[i] = first[i - Len(diskBuf)]
  <2>1. /\ diskBuf \o first \in Seq(ImageBytes) /\ Len(diskBuf \o first) = Len(diskBuf) + Len(first)
        /\ \A i \in 1..(Len(diskBuf) + Len(first)) :
             (diskBuf \o first)[i] = IF i <= Len(diskBuf) THEN diskBuf[i] ELSE first[i - Len(diskBuf)]
    BY <1>1, <1>2, ConcatProperties
  <2> QED BY <1>0, <1>1, <1>2, <2>1
<1>5. wire' \in [DiskChannels -> Seq(ImageBytes)] /\ wire'[c] = rest
      /\ \A d \in DiskChannels \ {c} : wire'[d] = wire[d]
  BY <1>0, <1>3 DEF DiskTypes, DiskTypeOK, ImageBytes
<1>6. DiskTypes'
  BY <1>0, <1>4, <1>5 DEF DiskTypes, DiskTypeOK, ImageBytes
<1>7. AnswersAreOwn'
  <2> SUFFICES ASSUME ~timedOut PROVE AnswersAreOwn'
    BY <1>0 DEF AnswersAreOwn
  <2>1. read.pc = "wait" /\ c = read.via
    <3>1. w # <<>>
      BY <1>0, <1>1
    <3> QED BY <3>1 DEF AnswersAreOwn
  <2>2. AnswerSoFar(read.off, read.end, diskBuf, w, asked[c])
    BY <2>1 DEF AnswersAreOwn
  <2>3. asked[c] = <<>>
    BY <1>0, <1>1, <2>2 DEF AnswerSoFar
  <2>4. read.off \in Nat /\ read.end \in Nat
    BY DEF DiskTypes
  <2>5. \A i \in 1..Len(diskBuf') : diskBuf'[i] = read.off + i - 1
    <3> SUFFICES ASSUME NEW i \in 1..Len(diskBuf') PROVE diskBuf'[i] = read.off + i - 1
      OBVIOUS
    <3>1. CASE i <= Len(diskBuf)
      BY <1>1, <1>4, <2>2, <3>1 DEF AnswerSoFar
    <3>2. CASE i > Len(diskBuf)
      <4>1. i - Len(diskBuf) \in 1..n /\ i - Len(diskBuf) \in 1..Len(w)
        BY <1>0, <1>1, <1>4, <3>2
      <4>2. diskBuf'[i] = w[i - Len(diskBuf)]
        <5>1. i \in (Len(diskBuf) + 1)..(Len(diskBuf) + n)
          BY <1>1, <1>4, <3>2
        <5> QED BY <1>2, <1>4, <4>1, <5>1
      <4>3. w[i - Len(diskBuf)] = read.off + Len(diskBuf) + (i - Len(diskBuf)) - 1
        BY <2>2, <4>1 DEF AnswerSoFar
      <4> QED BY <1>1, <2>4, <4>2, <4>3
    <3> QED BY <1>1, <3>1, <3>2
  <2>6. \A i \in 1..Len(wire'[c]) : wire'[c][i] = read.off + Len(diskBuf') + i - 1
    <3> SUFFICES ASSUME NEW i \in 1..(Len(w) - n) PROVE rest[i] = read.off + (Len(diskBuf) + n) + i - 1
      BY <1>3, <1>4, <1>5
    <3>1. n + i \in 1..Len(w) /\ rest[i] = w[n + i]
      BY <1>0, <1>1, <1>3
    <3>2. w[n + i] = read.off + Len(diskBuf) + (n + i) - 1
      BY <2>2, <3>1 DEF AnswerSoFar
    <3> QED BY <1>1, <2>4, <3>1, <3>2
  <2>7. Len(diskBuf') + Len(wire'[c]) <= read.end - read.off
    BY <1>1, <1>3, <1>4, <1>5, <2>2, <2>4 DEF AnswerSoFar
  <2>8. AnswerSoFar(read.off, read.end, diskBuf', wire'[c], asked'[c])
    BY <1>0, <2>3, <2>5, <2>6, <2>7 DEF AnswerSoFar
  <2> QED BY <1>0, <1>5, <2>1, <2>8 DEF AnswersAreOwn
<1> QED BY <1>0, <1>6, <1>7 DEF WaitingIsInFlight, AsksForBytes, ReadsWholeRange, ReadsOwnRange

\* The read takes its part of the buffer: while no read gave up that is its range, and the whole answer.
LEMMA DiskFinishStep ==
  ASSUME DiskIInv, FinishRead
  PROVE  DiskIInv'
<1> USE DEF DiskIInv
<1> DEFINE need == read.end - read.off
           data == SubSeq(diskBuf, 1, need)
           rest == SubSeq(diskBuf, need + 1, Len(diskBuf))
<1>0. /\ UNCHANGED <<diskSender, chan, asked, wire, reads, timedOut>> /\ inFlight' = FALSE
      /\ read.pc = "wait" /\ need <= Len(diskBuf)
      /\ diskBuf' = rest /\ read' = [read EXCEPT !.pc = "ok", !.data = data]
  BY DEF FinishRead
<1>1. /\ diskBuf \in Seq(ImageBytes) /\ Len(diskBuf) \in Nat /\ read.off \in 0..DiskSize /\ read.end \in 0..DiskSize
      /\ read.via \in DiskChannels /\ read.off < read.end /\ need \in Nat /\ need >= 1
  <2>1. diskBuf \in Seq(ImageBytes) /\ Len(diskBuf) \in Nat
    BY DEF DiskTypes, DiskTypeOK, ImageBytes
  <2>2. read.off \in 0..DiskSize /\ read.end \in 0..DiskSize
    BY DEF DiskTypes
  <2>3. read.via \in DiskChannels /\ read.off < read.end
    BY <1>0 DEF AsksForBytes
  <2> QED BY <2>1, <2>2, <2>3, DiskAssumption
<1>2. data \in Seq(ImageBytes) /\ Len(data) = need /\ \A i \in 1..need : data[i] = diskBuf[i]
  BY <1>0, <1>1, PieceOfSeq
<1>3. rest \in Seq(ImageBytes) /\ Len(rest) = Len(diskBuf) - need
  BY <1>0, <1>1, PieceOfSeq
<1> HIDE DEF data, rest
<1>4. /\ read'.pc = "ok" /\ read'.data = data /\ read'.off = read.off /\ read'.end = read.end
      /\ read' \in [off : 0..DiskSize, end : 0..DiskSize,
               pc : {"idle", "send", "wait", "ok", "failed", "refused"},
               via : {"none"} \cup DiskChannels, data : Seq(ImageBytes)]
  BY <1>0, <1>2 DEF DiskTypes
<1>5. DiskTypes'
  BY <1>0, <1>3, <1>4 DEF DiskTypes, DiskTypeOK, ImageBytes
<1>6. ReadsWholeRange'
  BY <1>2, <1>4 DEF ReadsWholeRange
<1>7. AnswersAreOwn' /\ ReadsOwnRange'
  <2> SUFFICES ASSUME ~timedOut PROVE AnswersAreOwn' /\ ReadsOwnRange'
    BY <1>0 DEF AnswersAreOwn, ReadsOwnRange
  <2>1. AnswerSoFar(read.off, read.end, diskBuf, wire[read.via], asked[read.via])
    BY <1>0 DEF AnswersAreOwn
  <2>2. wire[read.via] \in Seq(ImageBytes) /\ Len(wire[read.via]) \in Nat
    BY <1>1 DEF DiskTypes, DiskTypeOK, ImageBytes
  <2>3. Len(wire[read.via]) = 0 /\ asked[read.via] = <<>>
    BY <1>0, <1>1, <2>1, <2>2 DEF AnswerSoFar
  <2>4. wire[read.via] = <<>>
    BY <2>2, <2>3
  <2>5. AnswersAreOwn'
    BY <1>0, <1>4, <2>3, <2>4 DEF AnswersAreOwn
  <2>6. data = Bytes(read.off, read.end)
    <3>1. \A i \in 1..need : data[i] = read.off + i - 1
      <4> SUFFICES ASSUME NEW i \in 1..need PROVE data[i] = read.off + i - 1
        OBVIOUS
      <4>1. i \in 1..Len(diskBuf)
        BY <1>0, <1>1
      <4> QED BY <1>2, <2>1, <4>1 DEF AnswerSoFar
    <3>2. data = [i \in 1..need |-> data[i]]
      BY <1>2
    <3> QED BY <3>1, <3>2 DEF Bytes
  <2> QED BY <1>4, <2>5, <2>6 DEF ReadsOwnRange
<1> QED BY <1>4, <1>5, <1>6, <1>7 DEF WaitingIsInFlight, AsksForBytes

LEMMA DiskTimeoutStep ==
  ASSUME DiskIInv, TimeoutRead
  PROVE  DiskIInv'
<1> USE DEF DiskIInv
<1>1. /\ UNCHANGED <<diskSender, diskBuf, chan, asked, wire, reads>> /\ inFlight' = FALSE /\ timedOut' = TRUE
      /\ read' = [read EXCEPT !.pc = "failed"]
  BY DEF TimeoutRead
<1>2. /\ read'.pc = "failed"
      /\ read' \in [off : 0..DiskSize, end : 0..DiskSize,
               pc : {"idle", "send", "wait", "ok", "failed", "refused"},
               via : {"none"} \cup DiskChannels, data : Seq(ImageBytes)]
  BY <1>1 DEF DiskTypes
<1>3. DiskTypes'
  BY <1>1, <1>2 DEF DiskTypes, DiskTypeOK
<1> QED BY <1>1, <1>2, <1>3 DEF WaitingIsInFlight, AsksForBytes, AnswersAreOwn, ReadsWholeRange, ReadsOwnRange

\* A read returns as many bytes as its range has, and until one has timed out exactly the bytes of
\* its range: for any image, any number of channels that come and go, any ranges and any way of
\* cutting the answers into messages.
THEOREM DiskInvHolds == DiskSpec => []DiskInv
<1>1. DiskInit => DiskIInv
  <2> SUFFICES ASSUME DiskInit PROVE DiskIInv
    OBVIOUS
  <2>1. <<>> \in Seq(ImageBytes) /\ <<>> \in Seq(Ranges) /\ <<>> \in Seq(0..(DiskSize - 1)) /\ Len(<<>>) = 0
    OBVIOUS
  <2>2. DiskTypes
    <3>1. NoRead \in [off : 0..DiskSize, end : 0..DiskSize,
               pc : {"idle", "send", "wait", "ok", "failed", "refused"},
               via : {"none"} \cup DiskChannels, data : Seq(ImageBytes)]
      BY <2>1, DiskAssumption DEF NoRead
    <3>2. DiskTypeOK
      <4>1. wire \in [DiskChannels -> Seq(0..(DiskSize - 1))] /\ diskBuf \in Seq(0..(DiskSize - 1))
        BY <2>1 DEF DiskInit
      <4>2. inFlight \in BOOLEAN
        BY Zenon DEF DiskInit
      <4>4. read.pc = "idle"
        BY DEF DiskInit, NoRead
      <4>5. reads \in 0..MaxReads
        BY DiskAssumption DEF DiskInit
      <4>3. chan \in [DiskChannels -> {"new", "open", "closing", "closed"}] /\ diskSender = "none"
        BY DEF DiskInit
      <4> QED BY <4>1, <4>2, <4>3, <4>4, <4>5 DEF DiskTypeOK
    <3> QED BY <2>1, <3>1, <3>2 DEF DiskInit, DiskTypes
  <2> QED BY <2>1, <2>2 DEF DiskInit, NoRead, DiskIInv, WaitingIsInFlight, AsksForBytes, AnswersAreOwn,
       ReadsWholeRange, ReadsOwnRange
<1>2. DiskIInv /\ [DiskNext]_diskVars => DiskIInv'
  <2> SUFFICES ASSUME DiskIInv, [DiskNext]_diskVars PROVE DiskIInv'
    OBVIOUS
  <2>1. CASE UNCHANGED diskVars
    BY <2>1 DEF diskVars, DiskIInv, DiskTypes, DiskTypeOK, WaitingIsInFlight, AsksForBytes, AnswersAreOwn,
       ReadsWholeRange, ReadsOwnRange
  <2>2. ASSUME NEW c \in DiskChannels, NEW n \in 1..(MaxReads * DiskSize), DiskMessage(c, n) PROVE DiskIInv'
    BY <2>2, DiskMessageStep
  <2>3. CASE \E c \in DiskChannels : OpenDisk(c) \/ LoseDisk(c) \/ CloseDisk(c) \/ BrowserAnswers(c)
    BY <2>3, DiskChannelStep, DiskAnswerStep
  <2>4. CASE \E off \in 0..DiskSize, len \in 1..DiskSize : StartRead(off, len)
    BY <2>4, DiskStartStep
  <2>5. CASE DiskStep
    BY <2>5, DiskSendStep, DiskFinishStep, DiskTimeoutStep DEF DiskStep
  <2> QED BY <2>1, <2>2, <2>3, <2>4, <2>5 DEF DiskNext
<1>3. DiskIInv => DiskInv
  BY DEF DiskIInv, DiskTypes, DiskInv
<1> QED BY <1>1, <1>2, <1>3, PTL DEF DiskSpec

-----------------------------------------------------------------------------
(* MQTT *)

MqttSpec == MqttInit /\ [][MqttNext]_mqttVars

\* Places of a request that may still make a manager.
BeforeMaking == {"new", "clean", "save", "stopStatus", "take", "close", "create"}
MayMake == {r \in Requests : mqttPc[r] \in BeforeMaking}
MqttPcs == BeforeMaking \cup {"store", "startStatus", "spawnStatus", "done", "failed"}

MqttTypes ==
  /\ MqttTypeOK
  /\ mqttPc \in [Requests -> MqttPcs]
  /\ told \in [1..MaxManagers -> BOOLEAN]
  /\ own \in [Requests -> 0..MaxManagers]
  /\ mqttOverlap \in BOOLEAN

\* A request makes one manager at most, so that there is room for one of each.
RoomForManagers == managers + Cardinality(MayMake) <= MaxManagers

\* Managers are numbered as they are made; only those have a loop, and only one that was told ends.
ManagersMade ==
  \A m \in 1..MaxManagers : /\ m <= managers => evLoop[m] # "none"
                            /\ m > managers => ~told[m]
                            /\ evLoop[m] = "ended" => told[m]

\* A manager in the cell, or about to be stored in it, was not told to stop; and those about to be
\* stored differ from each other and from the one in the cell.
StoredUntold ==
  /\ mqttCell # 0 => mqttCell <= managers /\ ~told[mqttCell]
  /\ \A r \in Requests : mqttPc[r] = "store" =>
       /\ own[r] \in 1..managers /\ own[r] # mqttCell /\ ~told[own[r]]
       /\ \A s \in Requests : mqttPc[s] = "store" /\ own[s] = own[r] => s = r

\* Requests that never overlapped find the status task STATUS_TASK holds to be the only one, and
\* the manager in the cell, or the one they are about to store there, the only one not told to stop.
OneAtATime ==
  ~mqttOverlap =>
    /\ \A r, s \in MqttActive : r = s
    /\ statusTasks \subseteq {statusHandle}
    /\ \A r \in Requests : /\ mqttPc[r] = "spawnStatus" => statusTasks = {}
                           /\ mqttPc[r] \in {"close", "create", "store"} => mqttCell = 0
    /\ \A m \in 1..managers :
         told[m] \/ m = mqttCell \/ \E r \in Requests : mqttPc[r] = "store" /\ own[r] = m

MqttIInv == MqttTypes /\ RoomForManagers /\ ManagersMade /\ StoredUntold /\ OneAtATime

\* The requests are finitely many.
LEMMA FinitelyMany ==
  IsFiniteSet(Requests) /\ MaxManagers \in Nat
BY MqttAssumption, FS_AddElement, FS_CardinalityType DEF Requests, MaxManagers

\* A set with one element at most.
LEMMA AtMostOne ==
  ASSUME NEW S, \A x, y \in S : x = y
  PROVE  Cardinality(S) <= 1
<1>1. CASE S = {}
  BY <1>1, FS_EmptySet
<1>2. ASSUME NEW x \in S PROVE Cardinality(S) <= 1
  <2>1. S = {x}
    OBVIOUS
  <2> QED BY <2>1, FS_Singleton
<1> QED BY <1>1, <1>2

\* There is still room when no manager is made and no request comes to be about to.
LEMMA RoomStays ==
  ASSUME MqttIInv, managers' = managers, MayMake' \subseteq MayMake
  PROVE  RoomForManagers'
<1>1. IsFiniteSet(MayMake)
  BY FinitelyMany, FS_Subset DEF MayMake
<1>2. /\ Cardinality(MayMake') <= Cardinality(MayMake) /\ Cardinality(MayMake') \in Nat
      /\ Cardinality(MayMake) \in Nat
  BY <1>1, FS_Subset, FS_CardinalityType
<1>3. managers \in Nat
  BY FinitelyMany DEF MqttIInv, MqttTypes, MqttTypeOK
<1> QED BY <1>2, <1>3, FinitelyMany DEF MqttIInv, RoomForManagers, MaxManagers

\* The event loops and status tasks: none is made, and a loop ends only when it was told to.
LEMMA MqttLoopStep ==
  ASSUME MqttIInv, NEW m \in 1..MaxManagers, evLoop[m] # "none",
         NEW l \in {"poll", "up", "greet", "lost", "ended"}, l = "ended" => told[m],
         evLoop' = [evLoop EXCEPT ![m] = l], queue' \in [1..MaxManagers -> 0..QueueCap],
         mqttLock' \in {"free", "loop"} \cup Requests,
         UNCHANGED <<mqttCell, managers, told, statusVars, perRequest>>
  PROVE  MqttIInv'
<1> USE DEF MqttIInv, perRequest, statusVars
<1>1. \A n \in 1..MaxManagers : evLoop'[n] = IF n = m THEN l ELSE evLoop[n]
  BY DEF MqttTypes, MqttTypeOK
<1>2. MqttTypes'
  <2>1. evLoop' \in [1..MaxManagers -> {"none", "poll", "up", "greet", "lost", "ended"}]
    BY DEF MqttTypes, MqttTypeOK
  <2> QED BY <2>1 DEF MqttTypes, MqttTypeOK
<1>3. RoomForManagers'
  BY RoomStays DEF MayMake
<1>4. ManagersMade'
  BY <1>1 DEF ManagersMade
<1>5. StoredUntold' /\ OneAtATime'
  BY DEF StoredUntold, OneAtATime, MqttActive
<1> QED BY <1>2, <1>3, <1>4, <1>5

LEMMA MqttLoopSteps ==
  ASSUME MqttIInv, NEW m \in 1..MaxManagers,
         LoopConnects(m) \/ LoopFails(m) \/ LoopSends(m) \/ LoopEnds(m) \/ LoopHandles(m)
  PROVE  MqttIInv'
<1>1. PICK l \in {"poll", "up", "greet", "lost", "ended"} :
        evLoop' = [evLoop EXCEPT ![m] = l] /\ (l = "ended" => told[m])
  <2>1. CASE LoopSends(m)
    <3>1. evLoop[m] = "poll" /\ evLoop' = [evLoop EXCEPT ![m] = "poll"]
      BY <2>1 DEF LoopSends, MqttIInv, MqttTypes, MqttTypeOK
    <3> QED BY <3>1
  <2> QED BY <2>1 DEF LoopConnects, LoopFails, LoopEnds, LoopHandles, HandleConnAck, SubscribeCommands, HandleLost
<1>2. evLoop[m] # "none"
  BY DEF LoopConnects, LoopFails, LoopSends, LoopEnds, LoopHandles, HandleConnAck, SubscribeCommands, HandleLost
<1>3. /\ mqttLock' \in {"free", "loop"} \cup Requests
      /\ UNCHANGED <<mqttCell, managers, told, statusVars, perRequest>>
  BY DEF LoopConnects, LoopFails, LoopSends, LoopEnds, LoopHandles, HandleConnAck, SubscribeCommands, HandleLost,
     MqttIInv, MqttTypes, MqttTypeOK
<1>4. queue' \in [1..MaxManagers -> 0..QueueCap]
  BY MqttAssumption DEF LoopConnects, LoopFails, LoopSends, LoopEnds, LoopHandles, HandleConnAck,
     SubscribeCommands, HandleLost, Publish, MqttIInv, MqttTypes, MqttTypeOK
<1> QED BY <1>1, <1>2, <1>3, <1>4, MqttLoopStep

LEMMA MqttStatusEnds ==
  ASSUME MqttIInv, NEW t \in Requests, StatusTaskEnds(t)
  PROVE  MqttIInv'
<1> USE DEF MqttIInv, perRequest, perManager, StatusTaskEnds
<1>1. MqttTypes'
  BY DEF MqttTypes, MqttTypeOK
<1>2. RoomForManagers'
  BY RoomStays DEF MayMake
<1>3. ManagersMade' /\ StoredUntold'
  BY DEF ManagersMade, StoredUntold
<1>4. OneAtATime'
  BY DEF OneAtATime, MqttActive
<1> QED BY <1>1, <1>2, <1>3, <1>4

\* A request that neither makes, stores nor closes a manager.
LEMMA MqttRequestGoes ==
  ASSUME MqttIInv, NEW r \in Requests, NEW pc \in MqttPcs, MqttGoto(r, pc), mqttPc[r] # "store", pc # "store",
         pc \in BeforeMaking => mqttPc[r] \in BeforeMaking,
         UNCHANGED <<mqttCell, managers, evLoop, told, own>>,
         queue' \in [1..MaxManagers -> 0..QueueCap], mqttLock' \in {"free", "loop"} \cup Requests,
         mqttOverlap' \in BOOLEAN,
         ~mqttOverlap' => ~mqttOverlap /\ (mqttPc[r] \notin MqttEnded \/ MqttActive = {}),
         statusTasks' \subseteq Requests, statusHandle' \in Requests \cup {"none"},
         ~mqttOverlap => statusTasks' \subseteq {statusHandle'},
         ~mqttOverlap => (pc = "spawnStatus" => statusTasks' = {}),
         ~mqttOverlap => (pc \in {"close", "create"} => mqttCell = 0)
  PROVE  MqttIInv'
<1> USE DEF MqttIInv, MqttGoto
<1>1. \A s \in Requests : mqttPc'[s] = IF s = r THEN pc ELSE mqttPc[s]
  BY DEF MqttTypes
<1>2. MqttTypes'
  <2>1. mqttPc' \in [Requests -> MqttPcs]
    BY DEF MqttTypes
  <2> QED BY <2>1 DEF MqttTypes, MqttTypeOK
<1>3. RoomForManagers'
  BY <1>1, RoomStays DEF MayMake
<1>4. ManagersMade'
  BY DEF ManagersMade
<1>5. StoredUntold'
  BY <1>1 DEF StoredUntold
<1>6. OneAtATime'
  <2> SUFFICES ASSUME ~mqttOverlap' PROVE OneAtATime'
    BY DEF OneAtATime
  <2>1. \A s \in Requests : s # r => mqttPc[s] \in MqttEnded
    BY DEF OneAtATime, MqttActive
  <2>2. \A s \in MqttActive' : s = r
    BY <1>1, <2>1 DEF MqttActive
  <2>3. \A s \in Requests : s # r => mqttPc'[s] \notin {"spawnStatus", "close", "create", "store"}
    BY <1>1, <2>1 DEF MqttEnded
  <2>4. \A s \in Requests : /\ mqttPc'[s] = "spawnStatus" => statusTasks' = {}
                            /\ mqttPc'[s] \in {"close", "create", "store"} => mqttCell' = 0
    BY <1>1, <2>3
  <2>5. \A m \in 1..managers' : told'[m] \/ m = mqttCell' \/ \E s \in Requests : mqttPc'[s] = "store" /\ own'[s] = m
    BY <1>1 DEF OneAtATime
  <2> QED BY <2>2, <2>4, <2>5 DEF OneAtATime
<1> QED BY <1>2, <1>3, <1>4, <1>5, <1>6

\* A manager is taken out of the cell and told to stop, or a request that finds none goes on.
LEMMA MqttTakeStep ==
  ASSUME MqttIInv, NEW r \in Requests, TakeManager(r)
  PROVE  MqttIInv'
<1>0. /\ UNCHANGED <<managers, evLoop, online, connected, queue, statusVars, wants, mqttOverlap>>
      /\ mqttPc[r] = "take"
  BY DEF TakeManager
<1>1. CASE mqttCell = 0
  <2>1. PICK pc \in {"create", "done"} : MqttGoto(r, pc) /\ UNCHANGED <<mqttCell, mqttLock, own, told>>
    BY <1>1 DEF TakeManager, Restarting
  <2>2. /\ statusTasks' \subseteq Requests /\ statusHandle' \in Requests \cup {"none"}
        /\ queue' \in [1..MaxManagers -> 0..QueueCap] /\ mqttLock' \in {"free", "loop"} \cup Requests
        /\ mqttOverlap' \in BOOLEAN
    BY <1>0, <2>1 DEF MqttIInv, MqttTypes, MqttTypeOK, statusVars
  <2>3. ~mqttOverlap => statusTasks' \subseteq {statusHandle'}
    BY <1>0 DEF MqttIInv, OneAtATime, statusVars
  <2> QED BY <1>0, <1>1, <2>1, <2>2, <2>3, MqttRequestGoes DEF MqttPcs, BeforeMaking, MqttEnded
<1>2. CASE mqttCell # 0
  <2> USE DEF MqttIInv
  <2>0. /\ own' = [own EXCEPT ![r] = mqttCell] /\ mqttCell' = 0 /\ mqttLock' = r
        /\ told' = [told EXCEPT ![mqttCell] = TRUE] /\ mqttPc' = [mqttPc EXCEPT ![r] = "close"]
    BY <1>2 DEF TakeManager, MqttGoto
  <2>1. mqttCell \in 1..MaxManagers
    BY <1>2, FinitelyMany DEF MqttTypes, MqttTypeOK
  <2>2. /\ \A s \in Requests : mqttPc'[s] = IF s = r THEN "close" ELSE mqttPc[s]
        /\ \A s \in Requests : own'[s] = IF s = r THEN mqttCell ELSE own[s]
        /\ \A m \in 1..MaxManagers : told'[m] = IF m = mqttCell THEN TRUE ELSE told[m]
    BY <2>0 DEF MqttTypes
  <2>3. MqttTypes'
    <3>1. mqttPc' \in [Requests -> MqttPcs] /\ own' \in [Requests -> 0..MaxManagers]
      BY <2>0, <2>1 DEF MqttTypes, MqttPcs, BeforeMaking
    <3>2. told' \in [1..MaxManagers -> BOOLEAN]
      BY <2>0 DEF MqttTypes
    <3>3. mqttCell' \in 0..MaxManagers /\ mqttLock' \in {"free", "loop"} \cup Requests
      BY <2>0, FinitelyMany
    <3> QED BY <1>0, <3>1, <3>2, <3>3 DEF MqttTypes, MqttTypeOK, statusVars
  <2>4. RoomForManagers'
    BY <1>0, <2>2, RoomStays DEF MayMake, BeforeMaking
  <2>5. ManagersMade'
    <3> SUFFICES ASSUME NEW m \in 1..MaxManagers
                 PROVE  /\ m <= managers => evLoop[m] # "none"
                        /\ m > managers => ~told'[m]
                        /\ evLoop[m] = "ended" => told'[m]
      BY <1>0 DEF ManagersMade
    <3>1. m > managers => m # mqttCell
      BY <1>2, <2>1 DEF StoredUntold, MqttTypes, MqttTypeOK
    <3> QED BY <2>2, <3>1 DEF ManagersMade
  <2>6. StoredUntold'
    <3>1. \A s \in Requests : mqttPc'[s] = "store" => s # r /\ mqttPc[s] = "store" /\ own'[s] = own[s]
      BY <2>2
    <3>2. \A s \in Requests : mqttPc[s] = "store" =>
            own[s] \in 1..managers /\ own[s] # mqttCell /\ ~told[own[s]] /\ own[s] \in 1..MaxManagers /\ own[s] # 0
      BY FinitelyMany DEF StoredUntold, MqttTypes, MqttTypeOK
    <3>3. \A s \in Requests : mqttPc[s] = "store" => ~told'[own[s]]
      BY <2>2, <3>2
    <3> QED BY <1>0, <2>0, <3>1, <3>2, <3>3 DEF StoredUntold
  <2>7. OneAtATime'
    <3> SUFFICES ASSUME ~mqttOverlap PROVE OneAtATime'
      BY <1>0 DEF OneAtATime
    <3>1. \A s \in Requests : s # r => mqttPc[s] \in MqttEnded
      BY <1>0 DEF OneAtATime, MqttActive, MqttEnded
    <3>2. \A s \in MqttActive' : s = r
      BY <2>2, <3>1 DEF MqttActive
    <3>3. \A s \in Requests : mqttPc'[s] # "spawnStatus" /\ mqttPc[s] # "store"
      BY <1>0, <2>2, <3>1 DEF MqttEnded
    <3>4. \A m \in 1..managers : told'[m]
      <4> SUFFICES ASSUME NEW m \in 1..managers PROVE told'[m]
        OBVIOUS
      <4>1. m \in 1..MaxManagers
        BY FinitelyMany DEF MqttTypes, MqttTypeOK
      <4>2. told[m] \/ m = mqttCell
        BY <3>3 DEF OneAtATime
      <4> QED BY <2>2, <4>1, <4>2
    <3> QED BY <1>0, <2>0, <3>2, <3>3, <3>4 DEF OneAtATime, statusVars
  <2> QED BY <2>3, <2>4, <2>5, <2>6, <2>7
<1> QED BY <1>1, <1>2

\* A manager is made: it is the next one, there is room for it, and nobody has told it to stop.
LEMMA MqttCreateStep ==
  ASSUME MqttIInv, NEW r \in Requests, CreateManager(r)
  PROVE  MqttIInv'
<1> USE DEF MqttIInv
<1> DEFINE new == managers + 1
<1>0. /\ UNCHANGED <<mqttCell, mqttLock, told, queue, statusVars, mqttOverlap>>
      /\ mqttPc[r] = "create" /\ managers' = new
      /\ own' = [own EXCEPT ![r] = new] /\ evLoop' = [evLoop EXCEPT ![new] = "poll"]
      /\ mqttPc' = [mqttPc EXCEPT ![r] = "store"]
  BY DEF CreateManager, MqttGoto
<1>1. managers \in Nat /\ new \in 1..MaxManagers /\ RoomForManagers'
  <2>1. IsFiniteSet(MayMake) /\ r \in MayMake
    BY <1>0, FinitelyMany, FS_Subset DEF MayMake, BeforeMaking
  <2>2. MayMake' = MayMake \ {r}
    BY <1>0 DEF MayMake, BeforeMaking, MqttTypes
  <2>3. Cardinality(MayMake') = Cardinality(MayMake) - 1 /\ Cardinality(MayMake') \in Nat
        /\ Cardinality(MayMake) \in Nat
    BY <2>1, <2>2, FS_RemoveElement, FS_CardinalityType
  <2>4. managers \in Nat
    BY FinitelyMany DEF MqttTypes, MqttTypeOK
  <2>5. new + Cardinality(MayMake') <= MaxManagers
    BY <2>3, <2>4, FinitelyMany DEF RoomForManagers
  <2>6. RoomForManagers'
    BY <1>0, <2>5 DEF RoomForManagers, MaxManagers
  <2> QED BY <2>3, <2>4, <2>5, <2>6, FinitelyMany
<1>2. /\ \A s \in Requests : mqttPc'[s] = IF s = r THEN "store" ELSE mqttPc[s]
      /\ \A s \in Requests : own'[s] = IF s = r THEN new ELSE own[s]
      /\ \A m \in 1..MaxManagers : evLoop'[m] = IF m = new THEN "poll" ELSE evLoop[m]
  BY <1>0 DEF MqttTypes, MqttTypeOK
<1>3. ~told[new] /\ mqttCell # new
  BY <1>1 DEF ManagersMade, StoredUntold
<1>4. MqttTypes'
  <2>1. mqttPc' \in [Requests -> MqttPcs] /\ own' \in [Requests -> 0..MaxManagers]
        /\ evLoop' \in [1..MaxManagers -> {"none", "poll", "up", "greet", "lost", "ended"}]
    BY <1>0, <1>1 DEF MqttTypes, MqttTypeOK, MqttPcs
  <2>2. managers' \in 0..MaxManagers
    BY <1>0, <1>1
  <2> QED BY <1>0, <2>1, <2>2 DEF MqttTypes, MqttTypeOK, statusVars
<1>5. ManagersMade'
  BY <1>0, <1>1, <1>2 DEF ManagersMade
<1>6. StoredUntold'
  <2>1. mqttCell' # 0 => mqttCell' <= managers' /\ ~told'[mqttCell']
    BY <1>0, <1>1 DEF StoredUntold, MqttTypes, MqttTypeOK
  <2>2. \A s \in Requests : s # r /\ mqttPc'[s] = "store" => own[s] \in 1..managers /\ own'[s] = own[s] /\ own[s] # new
    BY <1>0, <1>1, <1>2 DEF StoredUntold
  <2>3. ASSUME NEW s \in Requests, mqttPc'[s] = "store"
        PROVE  /\ own'[s] \in 1..managers' /\ own'[s] # mqttCell' /\ ~told'[own'[s]]
               /\ \A t \in Requests : mqttPc'[t] = "store" /\ own'[t] = own'[s] => t = s
    <3>1. CASE s = r
      BY <1>0, <1>1, <1>2, <1>3, <2>2, <3>1
    <3>2. CASE s # r
      BY <1>0, <1>1, <1>2, <2>2, <2>3, <3>2 DEF StoredUntold
    <3> QED BY <3>1, <3>2
  <2> QED BY <2>1, <2>3 DEF StoredUntold
<1>7. OneAtATime'
  <2> SUFFICES ASSUME ~mqttOverlap PROVE OneAtATime'
    BY <1>0 DEF OneAtATime
  <2>1. \A s \in Requests : s # r => mqttPc[s] \in MqttEnded
    BY <1>0 DEF OneAtATime, MqttActive, MqttEnded
  <2>2. \A s \in MqttActive' : s = r
    BY <1>2, <2>1 DEF MqttActive
  <2>3. \A s \in Requests : mqttPc'[s] # "spawnStatus" /\ mqttPc[s] # "store"
    BY <1>0, <1>2, <2>1 DEF MqttEnded
  <2>4. mqttCell' = 0
    BY <1>0 DEF OneAtATime
  <2>5. \A m \in 1..managers : told[m]
    BY <1>0, <2>3, <2>4 DEF OneAtATime
  <2>6. \A m \in 1..managers' : told'[m] \/ (m = new /\ mqttPc'[r] = "store" /\ own'[r] = m)
    BY <1>0, <1>1, <1>2, <2>5
  <2> QED BY <1>0, <2>2, <2>3, <2>4, <2>6 DEF OneAtATime, statusVars
<1> QED BY <1>1, <1>4, <1>5, <1>6, <1>7

LEMMA MqttStoreStep ==
  ASSUME MqttIInv, NEW r \in Requests, StoreManager(r)
  PROVE  MqttIInv'
<1> USE DEF MqttIInv
<1>0. /\ UNCHANGED <<mqttLock, managers, evLoop, told, queue, statusVars, own, mqttOverlap>>
      /\ mqttPc[r] = "store" /\ mqttCell' = own[r] /\ mqttPc' = [mqttPc EXCEPT ![r] = "startStatus"]
  BY DEF StoreManager, MqttGoto, perManager
<1>1. \A s \in Requests : mqttPc'[s] = IF s = r THEN "startStatus" ELSE mqttPc[s]
  BY <1>0 DEF MqttTypes
<1>2. own[r] \in 1..managers /\ ~told[own[r]] /\ managers \in Nat
  BY <1>0, FinitelyMany DEF StoredUntold, MqttTypes, MqttTypeOK
<1>3. MqttTypes'
  <2>1. mqttPc' \in [Requests -> MqttPcs]
    BY <1>0 DEF MqttTypes, MqttPcs
  <2>2. mqttCell' \in 0..MaxManagers
    BY <1>0 DEF MqttTypes
  <2> QED BY <1>0, <2>1, <2>2 DEF MqttTypes, MqttTypeOK, statusVars
<1>4. RoomForManagers'
  BY <1>0, <1>1, RoomStays DEF MayMake, BeforeMaking
<1>5. ManagersMade'
  BY <1>0 DEF ManagersMade
<1>6. StoredUntold'
  BY <1>0, <1>1, <1>2 DEF StoredUntold
<1>7. OneAtATime'
  <2> SUFFICES ASSUME ~mqttOverlap PROVE OneAtATime'
    BY <1>0 DEF OneAtATime
  <2>1. \A s \in Requests : s # r => mqttPc[s] \in MqttEnded
    BY <1>0 DEF OneAtATime, MqttActive, MqttEnded
  <2>2. \A s \in MqttActive' : s = r
    BY <1>1, <2>1 DEF MqttActive
  <2>3. \A s \in Requests : mqttPc'[s] \notin {"spawnStatus", "close", "create", "store"}
    BY <1>1, <2>1 DEF MqttEnded
  <2>4. \A m \in 1..managers : told[m] \/ m = own[r]
    <3>1. mqttCell = 0 /\ \A s \in Requests : mqttPc[s] = "store" => s = r
      BY <1>0, <2>1 DEF OneAtATime, MqttEnded
    <3>2. \A m \in 1..managers : m # 0
      BY <1>2
    <3> QED BY <3>1, <3>2 DEF OneAtATime
  <2> QED BY <1>0, <2>2, <2>3, <2>4 DEF OneAtATime, statusVars
<1> QED BY <1>3, <1>4, <1>5, <1>6, <1>7

\* The other steps of a request.
LEMMA MqttRequestStep ==
  ASSUME MqttIInv, NEW r \in Requests,
         CleanTopics(r) \/ SaveSettings(r) \/ StopStatus(r) \/ Disconnect(r) \/ SpawnStatus(r)
         \/ \E e, d \in BOOLEAN : SetSettings(r, e, d)
  PROVE  MqttIInv'
<1> USE DEF MqttPcs, BeforeMaking, MqttEnded
<1>0. /\ statusTasks \subseteq Requests /\ statusHandle \in Requests \cup {"none"}
      /\ queue \in [1..MaxManagers -> 0..QueueCap] /\ mqttLock \in {"free", "loop"} \cup Requests
      /\ mqttOverlap \in BOOLEAN
      /\ ~mqttOverlap => statusTasks \subseteq {statusHandle}
  BY DEF MqttIInv, MqttTypes, MqttTypeOK, OneAtATime
<1>1. CASE CleanTopics(r)
  <2>1. queue' \in [1..MaxManagers -> 0..QueueCap]
    BY <1>0, <1>1, MqttAssumption DEF CleanTopics, Publish
  <2> QED BY <1>0, <1>1, <2>1, MqttRequestGoes DEF CleanTopics, statusVars
<1>2. CASE SaveSettings(r)
  <2>1. PICK pc \in {"stopStatus", "failed"} : MqttGoto(r, pc)
    BY <1>2 DEF SaveSettings
  <2> QED BY <1>0, <1>2, <2>1, MqttRequestGoes DEF SaveSettings, statusVars, perManager
<1>3. CASE StopStatus(r)
  <2>1. PICK pc \in {"take", "spawnStatus"} : MqttGoto(r, pc) /\ (pc = "take" => mqttPc[r] = "stopStatus")
    BY <1>3 DEF StopStatus
  <2>2. ~mqttOverlap => statusTasks' = {}
    BY <1>0, <1>3 DEF StopStatus
  <2>3. /\ statusTasks' \subseteq Requests /\ statusHandle' = "none" /\ mqttPc[r] \in {"stopStatus", "startStatus"}
        /\ UNCHANGED <<mqttCell, mqttLock, managers, evLoop, told, queue, own, mqttOverlap>>
    BY <1>0, <1>3 DEF StopStatus, perManager
  <2> QED BY <1>0, <2>1, <2>2, <2>3, MqttRequestGoes
<1>4. CASE Disconnect(r)
  <2>1. PICK pc \in {"create", "done"} : MqttGoto(r, pc)
    BY <1>4 DEF Disconnect, Restarting
  <2>2. /\ mqttPc[r] = "close" /\ mqttLock' = "free"
        /\ UNCHANGED <<mqttCell, managers, evLoop, told, queue, statusTasks, statusHandle, own, mqttOverlap>>
    BY <1>4 DEF Disconnect, statusVars
  <2>3. ~mqttOverlap => mqttCell = 0
    BY <2>2 DEF MqttIInv, OneAtATime
  <2> QED BY <1>0, <2>1, <2>2, <2>3, MqttRequestGoes
<1>5. CASE SpawnStatus(r)
  <2>1. ~mqttOverlap => statusTasks' \subseteq {statusHandle'}
    BY <1>5 DEF SpawnStatus, MqttIInv, OneAtATime
  <2> QED BY <1>0, <1>5, <2>1, MqttRequestGoes DEF SpawnStatus, perManager
<1>6. ASSUME NEW e \in BOOLEAN, NEW d \in BOOLEAN, SetSettings(r, e, d) PROVE MqttIInv'
  <2>1. PICK pc \in {"clean", "save"} : MqttGoto(r, pc)
    BY <1>6 DEF SetSettings
  <2>2. /\ mqttPc[r] = "new" /\ mqttOverlap' \in BOOLEAN /\ (~mqttOverlap' => ~mqttOverlap /\ MqttActive = {})
        /\ UNCHANGED <<mqttCell, mqttLock, managers, evLoop, told, queue, statusTasks, statusHandle, own>>
    BY <1>0, <1>6 DEF SetSettings, perManager, statusVars
  <2> QED BY <1>0, <2>1, <2>2, MqttRequestGoes
<1> QED BY <1>1, <1>2, <1>3, <1>4, <1>5, <1>6

\* The manager in the cell is live in whatever order restarts and connections come, and requests
\* that do not overlap leave one status task and one manager that runs: for any number of requests.
THEOREM MqttInvHolds == MqttSpec => []MqttInv
<1>1. MqttInit => MqttIInv
  <2> SUFFICES ASSUME MqttInit PROVE MqttIInv
    OBVIOUS
  <2>1. MqttTypes
    <3>1. mqttPc \in [Requests -> MqttPcs] /\ own \in [Requests -> 0..MaxManagers]
      BY FinitelyMany DEF MqttInit, MqttPcs, BeforeMaking
    <3>4. mqttOverlap \in BOOLEAN
      BY Zenon DEF MqttInit
    <3>2. told \in [1..MaxManagers -> BOOLEAN]
      BY DEF MqttInit
    <3>3. MqttTypeOK
      <4>1. mqttCell \in 0..MaxManagers /\ managers \in 0..MaxManagers /\ mqttLock = "free"
        BY FinitelyMany DEF MqttInit
      <4>2. evLoop \in [1..MaxManagers -> {"none", "poll", "up", "greet", "lost", "ended"}]
        BY DEF MqttInit
      <4>3. queue \in [1..MaxManagers -> 0..QueueCap] /\ statusTasks = {} /\ statusHandle = "none"
        BY MqttAssumption DEF MqttInit
      <4> QED BY <4>1, <4>2, <4>3 DEF MqttTypeOK
    <3> QED BY <3>1, <3>2, <3>3, <3>4 DEF MqttTypes
  <2>2. RoomForManagers
    <3>1. MayMake = Requests
      BY DEF MqttInit, MayMake, BeforeMaking
    <3> QED BY <3>1, FinitelyMany DEF MqttInit, RoomForManagers, MaxManagers
  <2>3. ManagersMade
    <3>1. \A m \in 1..MaxManagers : evLoop[m] = "none" /\ ~told[m] /\ ~(m <= managers)
      BY FinitelyMany DEF MqttInit
    <3> QED BY <3>1 DEF ManagersMade
  <2>4. StoredUntold /\ OneAtATime
    <3>1. \A r \in Requests : mqttPc[r] = "new" \/ (r = "boot" /\ mqttPc[r] = "create")
      BY DEF MqttInit
    <3> QED BY <3>1 DEF MqttInit, StoredUntold, OneAtATime, MqttActive, MqttEnded
  <2> QED BY <2>1, <2>2, <2>3, <2>4 DEF MqttIInv
<1>2. MqttIInv /\ [MqttNext]_mqttVars => MqttIInv'
  <2> SUFFICES ASSUME MqttIInv, [MqttNext]_mqttVars PROVE MqttIInv'
    OBVIOUS
  <2>1. CASE UNCHANGED mqttVars
    BY <2>1 DEF mqttVars, MqttIInv, MqttTypes, MqttTypeOK, RoomForManagers, MayMake, ManagersMade, StoredUntold,
       OneAtATime, MqttActive
  <2>2. CASE MqttNext
    BY <2>2, MqttLoopSteps, MqttStatusEnds, MqttTakeStep, MqttCreateStep, MqttStoreStep, MqttRequestStep
       DEF MqttNext, RequestStep
  <2> QED BY <2>1, <2>2
<1>3. MqttIInv => MqttInv
  <2> SUFFICES ASSUME MqttIInv PROVE MqttInv
    OBVIOUS
  <2> USE DEF MqttIInv
  <2>1. StoredIsLive
    <3>1. mqttCell # 0 => mqttCell \in 1..MaxManagers
      BY FinitelyMany DEF MqttTypes, MqttTypeOK
    <3> QED BY <3>1 DEF StoredIsLive, StoredUntold, ManagersMade
  <2>2. OneOfEach
    <3> DEFINE running == {m \in 1..managers : evLoop[m] # "ended" /\ ~told[m]}
    <3> SUFFICES ASSUME ~mqttOverlap PROVE Cardinality(statusTasks) <= 1 /\ Cardinality(running) <= 1
      BY DEF OneOfEach
    <3>1. \A x, y \in statusTasks : x = y
      BY DEF OneAtATime
    <3>2. \A x, y \in running : x = y
      <4>1. \A r, s \in Requests : mqttPc[r] = "store" /\ mqttPc[s] = "store" => r = s
        BY DEF OneAtATime, MqttActive, MqttEnded
      <4>2. \A r \in Requests : mqttPc[r] = "store" => \A m \in 1..managers : m # mqttCell
        BY FinitelyMany DEF OneAtATime, MqttTypes, MqttTypeOK
      <4> QED BY <4>1, <4>2 DEF OneAtATime
    <3> HIDE DEF running
    <3> QED BY <3>1, <3>2, AtMostOne
  <2> QED BY <2>1, <2>2 DEF MqttTypes, MqttInv
<1> QED BY <1>1, <1>2, <1>3, PTL DEF MqttSpec

=============================================================================
