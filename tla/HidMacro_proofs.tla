--------------------------- MODULE HidMacro_proofs --------------------------
(***************************************************************************)
(* Proofs about the macro lane, for any number of macros, cancel requests  *)
(* and data channels and for any reports.  The inductive invariant adds to *)
(* the properties two facts they rest on: a macro inside the lane is the   *)
(* head of the lane's queue, and no captured epoch lies in the future.     *)
(***************************************************************************)
EXTENDS HidMacro, SequenceTheorems, TLAPS

\* A macro between taking MACRO_LANE and dropping the guard is its holder.
HolderAtHead == \A m \in Macros : macroPc[m] \in Critical => Holds(m)

\* CANCEL_ALL_EPOCH only grows: what a macro or a request captured is not in the future.
EpochsInPast ==
    /\ \A m \in Macros : epochs[m].all <= cancelAllEpoch
    /\ \A c \in Cancellers : cancelEpoch[c] <= cancelAllEpoch

\* running_macro holds the token of the macro that is typing.
TokenIsTypists ==
    \A m \in Macros : (running = m) <=> (macroPc[m] \in Typing \cup {"published"})

IInv == TypeOK /\ HolderAtHead /\ EpochsInPast /\ TokenIsTypists /\ NoMacroMissesCancel /\ CancelIsFinal

-----------------------------------------------------------------------------
\* Appending to the lane's queue leaves the holder in place.
LEMMA AppendKeepsHead ==
    ASSUME NEW S, NEW s \in Seq(S), NEW x \in S
    PROVE  /\ Append(s, x) \in Seq(S)
           /\ s # <<>> => Append(s, x) # <<>> /\ Head(Append(s, x)) = Head(s)
  BY SMT

\* Every step keeps every variable in its type; the lane is never popped when empty.
LEMMA TypeStep == TypeOK /\ HolderAtHead /\ [Next]_vars => TypeOK'
<1> SUFFICES ASSUME TypeOK, HolderAtHead, [Next]_vars PROVE TypeOK'
  OBVIOUS
<1> USE DEF TypeOK, Typing, Critical, User
<1>a. ASSUME NEW p, Holds(p) PROVE Tail(lane) \in Seq(Macros \cup Cancellers)
  BY <1>a DEF Holds
<1>1. ASSUME NEW m \in Macros, NEW ch \in Channels \cup {None}, StartMacro(m, ch) PROVE TypeOK'
  BY <1>1 DEF StartMacro, Goto, cancelVars, chanVars
<1>2. ASSUME NEW m \in Macros, JoinLane(m) PROVE TypeOK'
  <2>1. lane' \in Seq(Macros \cup Cancellers)
    BY <1>2, AppendKeepsHead DEF JoinLane
  <2> QED BY <1>2, <2>1 DEF JoinLane, Goto, cancelVars, chanVars
<1>3. ASSUME NEW m \in Macros, EnterLane(m) PROVE TypeOK'
  <2>1. Tail(lane) \in Seq(Macros \cup Cancellers)
    BY <1>3, <1>a DEF EnterLane
  <2> QED BY <1>3, <2>1 DEF EnterLane, Goto, Leave, cancelVars, chanVars
<1>4. ASSUME NEW m \in Macros, PublishToken(m) PROVE TypeOK'
  BY <1>4 DEF PublishToken, Goto, cancelVars, chanVars
<1>5. ASSUME NEW m \in Macros, Recheck(m) PROVE TypeOK'
  <2>1. Tail(lane) \in Seq(Macros \cup Cancellers)
    BY <1>5, <1>a DEF Recheck, HolderAtHead
  <2> QED BY <1>5, <2>1 DEF Recheck, Goto, Leave, cancelVars, chanVars
<1>6. ASSUME NEW m \in Macros, SendBegin(m) PROVE TypeOK'
  BY <1>6 DEF SendBegin, Goto, cancelVars, chanVars
<1>7. ASSUME NEW m \in Macros, RunStep(m) PROVE TypeOK'
  <2>1. keysDown' \in {keysDown, m, None}
    BY <1>7, Zenon DEF RunStep
  <2>2. PICK pc \in {"typed", "aborted", "delay"} : macroPc' = [macroPc EXCEPT ![m] = pc]
    BY <1>7 DEF RunStep, Goto
  <2>3. UNCHANGED <<lane, epochs, origin, stepIx, outcome, running, tokenCancelled, cancelVars, chanVars>>
    BY <1>7 DEF RunStep
  <2>4. keysDown' \in Macros \cup {User, None}
    BY <2>1, Zenon
  <2>5. macroPc' \in [Macros -> {"idle", "spawned", "waiting", "done"} \cup Critical]
    BY <2>2
  <2> QED BY <2>3, <2>4, <2>5 DEF cancelVars, chanVars
<1>8. ASSUME NEW m \in Macros, DelayElapsed(m) PROVE TypeOK'
  <2>1. stepIx' \in [Macros -> Nat]
    BY <1>8 DEF DelayElapsed
  <2>2. macroPc' \in [Macros -> {"idle", "spawned", "waiting", "done"} \cup Critical]
    BY <1>8 DEF DelayElapsed, Goto
  <2> QED BY <1>8, <2>1, <2>2 DEF DelayElapsed, cancelVars, chanVars
<1>9. ASSUME NEW m \in Macros, DelayCancelled(m) PROVE TypeOK'
  BY <1>9 DEF DelayCancelled, Goto, cancelVars, chanVars
<1>10. ASSUME NEW m \in Macros, EndMacro(m) PROVE TypeOK'
  <2>1. Tail(lane) \in Seq(Macros \cup Cancellers)
    BY <1>10, <1>a DEF EndMacro, HolderAtHead
  <2> QED BY <1>10, <2>1 DEF EndMacro, Goto, Leave, cancelVars, chanVars
<1>11. ASSUME NEW c \in Cancellers, BumpEpoch(c) PROVE TypeOK'
  BY <1>11 DEF BumpEpoch, taskVars, chanVars
<1>12. ASSUME NEW c \in Cancellers, CancelToken(c) PROVE TypeOK'
  BY <1>12 DEF CancelToken, taskVars, chanVars
<1>13. ASSUME NEW c \in Cancellers, AwaitLane(c) PROVE TypeOK'
  <2>1. lane' \in Seq(Macros \cup Cancellers)
    BY <1>13, AppendKeepsHead DEF AwaitLane
  <2> QED BY <1>13, <2>1 DEF AwaitLane, taskVars, chanVars
<1>14. ASSUME NEW c \in Cancellers, ReturnToCaller(c) PROVE TypeOK'
  <2>1. Tail(lane) \in Seq(Macros \cup Cancellers)
    BY <1>14, <1>a DEF ReturnToCaller
  <2> QED BY <1>14, <2>1 DEF ReturnToCaller, taskVars, chanVars
<1>15. ASSUME NEW ch \in Channels, OpenChannel(ch) PROVE TypeOK'
  BY <1>15 DEF OpenChannel, taskVars, cancelVars
<1>16. ASSUME NEW ch \in Channels, CloseChannel(ch) PROVE TypeOK'
  BY <1>16 DEF CloseChannel, taskVars, cancelVars
<1>17. ASSUME NEW owner \in {User, None}, UserReport(owner) PROVE TypeOK'
  BY <1>17 DEF UserReport, taskVars, cancelVars, chanVars
<1>18. CASE UNCHANGED vars
  BY <1>18 DEF vars, taskVars, cancelVars, chanVars
<1> QED
  BY <1>1, <1>2, <1>3, <1>4, <1>5, <1>6, <1>7, <1>8, <1>9, <1>10, <1>11, <1>12, <1>13, <1>14,
     <1>15, <1>16, <1>17, <1>18 DEF Next, MacroTask, CancelTask

\* Two macros inside the lane would both be its holder; a canceller that holds it excludes
\* every macro.
LEMMA OneHolder ==
    ASSUME HolderAtHead, NEW p, Holds(p), NEW m \in Macros, macroPc[m] \in Critical
    PROVE  m = p
  BY DEF HolderAtHead, Holds

\* The invariant is preserved by every step of a macro task.
LEMMA MacroStep ==
    ASSUME IInv, TypeOK', NEW m \in Macros,
           MacroTask(m) \/ \E ch \in Channels \cup {None} : StartMacro(m, ch)
    PROVE  HolderAtHead' /\ EpochsInPast' /\ TokenIsTypists' /\ NoMacroMissesCancel' /\ CancelIsFinal'
<1> USE DEF IInv, TypeOK, Typing, Critical
<1> USE NoneAssumption
<1>1. ASSUME NEW ch \in Channels \cup {None}, StartMacro(m, ch)
      PROVE  HolderAtHead' /\ EpochsInPast' /\ TokenIsTypists' /\ NoMacroMissesCancel' /\ CancelIsFinal'
  <2> USE <1>1 DEF StartMacro, Goto, cancelVars, chanVars
  <2>1. HolderAtHead'
    BY AppendKeepsHead, OneHolder DEF HolderAtHead, Holds
  <2>2. EpochsInPast'
    BY DEF EpochsInPast
  <2>3. TokenIsTypists'
    BY OneHolder DEF TokenIsTypists, HolderAtHead
  <2>4. NoMacroMissesCancel'
    BY DEF NoMacroMissesCancel, EpochsInPast
  <2>5. CancelIsFinal'
    BY DEF CancelIsFinal, EpochsInPast
  <2> QED BY <2>1, <2>2, <2>3, <2>4, <2>5
<1>2. CASE JoinLane(m)
  <2> USE <1>2 DEF JoinLane, Goto, cancelVars, chanVars
  <2>1. HolderAtHead'
    BY AppendKeepsHead, OneHolder DEF HolderAtHead, Holds
  <2>2. EpochsInPast'
    BY DEF EpochsInPast
  <2>3. TokenIsTypists'
    BY OneHolder DEF TokenIsTypists, HolderAtHead
  <2>4. NoMacroMissesCancel'
    BY DEF NoMacroMissesCancel, EpochsInPast
  <2>5. CancelIsFinal'
    BY DEF CancelIsFinal, EpochsInPast
  <2> QED BY <2>1, <2>2, <2>3, <2>4, <2>5
<1>3. CASE EnterLane(m)
  <2> USE <1>3 DEF EnterLane, Goto, cancelVars, chanVars, Leave, Cancelled
  <2>1. HolderAtHead'
    BY AppendKeepsHead, OneHolder DEF HolderAtHead, Holds
  <2>2. EpochsInPast'
    BY DEF EpochsInPast
  <2>3. TokenIsTypists'
    <3>1. running' = running /\ running # m
      BY DEF TokenIsTypists
    <3>2. macroPc'[m] \notin Typing \cup {"published"} /\ \A n \in Macros \ {m} : macroPc'[n] = macroPc[n]
      OBVIOUS
    <3> QED BY <3>1, <3>2 DEF TokenIsTypists
  <2>4. NoMacroMissesCancel'
    <3> SUFFICES ASSUME NEW n \in Macros, macroPc'[n] \in Typing
                 PROVE  /\ \A c \in Cancellers :
                              cancelPc'[c] \in {"queueing", "waiting", "returned"}
                                /\ epochs'[n].all < cancelEpoch'[c]
                              => tokenCancelled'[n]
                        /\ origin'[n] # None /\ epochs'[n].channel # channelEpoch' => tokenCancelled'[n]
      BY DEF NoMacroMissesCancel
    <3>1. n # m /\ macroPc[n] \in Typing
      OBVIOUS
    <3> QED BY <3>1 DEF NoMacroMissesCancel
  <2>5. CancelIsFinal'
    BY DEF CancelIsFinal, EpochsInPast
  <2> QED BY <2>1, <2>2, <2>3, <2>4, <2>5
<1>4. CASE PublishToken(m)
  <2> USE <1>4 DEF PublishToken, Goto, cancelVars, chanVars
  <2>1. HolderAtHead'
    BY AppendKeepsHead, OneHolder DEF HolderAtHead, Holds
  <2>2. EpochsInPast'
    BY DEF EpochsInPast
  <2>3. TokenIsTypists'
    BY OneHolder DEF TokenIsTypists, HolderAtHead
  <2>4. NoMacroMissesCancel'
    BY DEF NoMacroMissesCancel, EpochsInPast
  <2>5. CancelIsFinal'
    BY DEF CancelIsFinal, EpochsInPast
  <2> QED BY <2>1, <2>2, <2>3, <2>4, <2>5
<1>5. CASE Recheck(m)
  <2> USE <1>5 DEF Recheck, Goto, cancelVars, chanVars, Leave, Cancelled
  <2>1. HolderAtHead'
    BY AppendKeepsHead, OneHolder DEF HolderAtHead, Holds
  <2>2. EpochsInPast'
    BY DEF EpochsInPast
  <2>3. TokenIsTypists'
    BY OneHolder DEF TokenIsTypists, HolderAtHead
  <2>4. NoMacroMissesCancel'
    <3> SUFFICES ASSUME NEW n \in Macros, macroPc'[n] \in Typing
                 PROVE  /\ \A c \in Cancellers :
                              cancelPc'[c] \in {"queueing", "waiting", "returned"}
                                /\ epochs'[n].all < cancelEpoch'[c]
                              => tokenCancelled'[n]
                        /\ origin'[n] # None /\ epochs'[n].channel # channelEpoch' => tokenCancelled'[n]
      BY DEF NoMacroMissesCancel
    <3>1. CASE n # m
      <4>1. macroPc[n] \in Typing
        BY <3>1
      <4> QED BY <4>1 DEF NoMacroMissesCancel
    <3>2. CASE n = m
      <4>1. ~Cancelled(m)
        BY <3>2
      <4>2. ~(origin[m] # None /\ epochs[m].channel # channelEpoch)
        BY <4>1
      <4>3. \A c \in Cancellers : ~(epochs[m].all < cancelEpoch[c])
        BY <4>1 DEF EpochsInPast
      <4> QED BY <3>2, <4>2, <4>3
    <3> QED BY <3>1, <3>2
  <2>5. CancelIsFinal'
    BY DEF CancelIsFinal, EpochsInPast
  <2> QED BY <2>1, <2>2, <2>3, <2>4, <2>5
<1>6. CASE SendBegin(m)
  <2> USE <1>6 DEF SendBegin, Goto, cancelVars, chanVars
  <2>1. HolderAtHead'
    BY AppendKeepsHead, OneHolder DEF HolderAtHead, Holds
  <2>2. EpochsInPast'
    BY DEF EpochsInPast
  <2>3. TokenIsTypists'
    BY OneHolder DEF TokenIsTypists, HolderAtHead
  <2>4. NoMacroMissesCancel'
    <3> SUFFICES ASSUME NEW n \in Macros, macroPc'[n] \in Typing
                 PROVE  /\ \A c \in Cancellers :
                              cancelPc'[c] \in {"queueing", "waiting", "returned"}
                                /\ epochs'[n].all < cancelEpoch'[c]
                              => tokenCancelled'[n]
                        /\ origin'[n] # None /\ epochs'[n].channel # channelEpoch' => tokenCancelled'[n]
      BY DEF NoMacroMissesCancel
    <3>1. macroPc[n] \in Typing
      OBVIOUS
    <3> QED BY <3>1 DEF NoMacroMissesCancel
  <2>5. CancelIsFinal'
    BY DEF CancelIsFinal, EpochsInPast
  <2> QED BY <2>1, <2>2, <2>3, <2>4, <2>5
<1>7. CASE RunStep(m)
  <2> USE <1>7 DEF RunStep, Goto, cancelVars, chanVars
  <2>1. HolderAtHead'
    BY AppendKeepsHead, OneHolder DEF HolderAtHead, Holds
  <2>2. EpochsInPast'
    BY DEF EpochsInPast
  <2>3. TokenIsTypists'
    BY OneHolder DEF TokenIsTypists, HolderAtHead
  <2>4. NoMacroMissesCancel'
    <3> SUFFICES ASSUME NEW n \in Macros, macroPc'[n] \in Typing
                 PROVE  /\ \A c \in Cancellers :
                              cancelPc'[c] \in {"queueing", "waiting", "returned"}
                                /\ epochs'[n].all < cancelEpoch'[c]
                              => tokenCancelled'[n]
                        /\ origin'[n] # None /\ epochs'[n].channel # channelEpoch' => tokenCancelled'[n]
      BY DEF NoMacroMissesCancel
    <3>1. macroPc[n] \in Typing
      OBVIOUS
    <3> QED BY <3>1 DEF NoMacroMissesCancel
  <2>5. CancelIsFinal'
    BY DEF CancelIsFinal, EpochsInPast
  <2> QED BY <2>1, <2>2, <2>3, <2>4, <2>5
<1>8. CASE DelayElapsed(m)
  <2> USE <1>8 DEF DelayElapsed, Goto, cancelVars, chanVars
  <2>1. HolderAtHead'
    BY AppendKeepsHead, OneHolder DEF HolderAtHead, Holds
  <2>2. EpochsInPast'
    BY DEF EpochsInPast
  <2>3. TokenIsTypists'
    BY OneHolder DEF TokenIsTypists, HolderAtHead
  <2>4. NoMacroMissesCancel'
    BY DEF NoMacroMissesCancel, EpochsInPast
  <2>5. CancelIsFinal'
    BY DEF CancelIsFinal, EpochsInPast
  <2> QED BY <2>1, <2>2, <2>3, <2>4, <2>5
<1>9. CASE DelayCancelled(m)
  <2> USE <1>9 DEF DelayCancelled, Goto, cancelVars, chanVars
  <2>1. HolderAtHead'
    BY AppendKeepsHead, OneHolder DEF HolderAtHead, Holds
  <2>2. EpochsInPast'
    BY DEF EpochsInPast
  <2>3. TokenIsTypists'
    BY OneHolder DEF TokenIsTypists, HolderAtHead
  <2>4. NoMacroMissesCancel'
    BY DEF NoMacroMissesCancel, EpochsInPast
  <2>5. CancelIsFinal'
    BY DEF CancelIsFinal, EpochsInPast
  <2> QED BY <2>1, <2>2, <2>3, <2>4, <2>5
<1>10. CASE EndMacro(m)
  <2> USE <1>10 DEF EndMacro, Goto, cancelVars, chanVars, Leave
  <2>1. HolderAtHead'
    BY AppendKeepsHead, OneHolder DEF HolderAtHead, Holds
  <2>2. EpochsInPast'
    BY DEF EpochsInPast
  <2>3. TokenIsTypists'
    BY OneHolder DEF TokenIsTypists, HolderAtHead
  <2>4. NoMacroMissesCancel'
    BY DEF NoMacroMissesCancel, EpochsInPast
  <2>5. CancelIsFinal'
    BY DEF CancelIsFinal, EpochsInPast
  <2> QED BY <2>1, <2>2, <2>3, <2>4, <2>5
<1> QED
  BY <1>1, <1>2, <1>3, <1>4, <1>5, <1>6, <1>7, <1>8, <1>9, <1>10 DEF MacroTask

\* The invariant is preserved by every step of a cancel request.
LEMMA CancelStep ==
    ASSUME IInv, TypeOK', NEW c \in Cancellers, BumpEpoch(c) \/ CancelTask(c)
    PROVE  HolderAtHead' /\ EpochsInPast' /\ TokenIsTypists' /\ NoMacroMissesCancel' /\ CancelIsFinal'
<1> USE DEF IInv, TypeOK, Typing, Critical
<1> USE NoneAssumption, ActorsAssumption
<1>1. CASE BumpEpoch(c)
  <2> USE <1>1 DEF BumpEpoch, taskVars, chanVars
  <2>1. HolderAtHead'
    BY AppendKeepsHead, OneHolder DEF HolderAtHead, Holds
  <2>2. EpochsInPast'
    BY DEF EpochsInPast
  <2>3. TokenIsTypists'
    BY DEF TokenIsTypists
  <2>4. NoMacroMissesCancel'
    BY DEF NoMacroMissesCancel, EpochsInPast, TokenIsTypists
  <2>5. CancelIsFinal'
    BY OneHolder DEF CancelIsFinal, EpochsInPast
  <2> QED BY <2>1, <2>2, <2>3, <2>4, <2>5
<1>2. CASE CancelToken(c)
  <2> USE <1>2 DEF CancelToken, taskVars, chanVars
  <2>1. HolderAtHead'
    BY AppendKeepsHead, OneHolder DEF HolderAtHead, Holds
  <2>2. EpochsInPast'
    BY DEF EpochsInPast
  <2>3. TokenIsTypists'
    BY DEF TokenIsTypists
  <2>4. NoMacroMissesCancel'
    BY DEF NoMacroMissesCancel, EpochsInPast, TokenIsTypists
  <2>5. CancelIsFinal'
    BY OneHolder DEF CancelIsFinal, EpochsInPast
  <2> QED BY <2>1, <2>2, <2>3, <2>4, <2>5
<1>3. CASE AwaitLane(c)
  <2> USE <1>3 DEF AwaitLane, taskVars, chanVars
  <2>1. HolderAtHead'
    BY AppendKeepsHead, OneHolder DEF HolderAtHead, Holds
  <2>2. EpochsInPast'
    BY DEF EpochsInPast
  <2>3. TokenIsTypists'
    BY DEF TokenIsTypists
  <2>4. NoMacroMissesCancel'
    BY DEF NoMacroMissesCancel, EpochsInPast, TokenIsTypists
  <2>5. CancelIsFinal'
    BY OneHolder DEF CancelIsFinal, EpochsInPast
  <2> QED BY <2>1, <2>2, <2>3, <2>4, <2>5
<1>4. CASE ReturnToCaller(c)
  <2> USE <1>4 DEF ReturnToCaller, taskVars, chanVars
  <2>1. HolderAtHead'
    BY AppendKeepsHead, OneHolder DEF HolderAtHead, Holds
  <2>2. EpochsInPast'
    BY DEF EpochsInPast
  <2>3. TokenIsTypists'
    BY DEF TokenIsTypists
  <2>4. NoMacroMissesCancel'
    BY DEF NoMacroMissesCancel, EpochsInPast, TokenIsTypists
  <2>5. CancelIsFinal'
    BY OneHolder DEF CancelIsFinal, EpochsInPast
  <2> QED BY <2>1, <2>2, <2>3, <2>4, <2>5
<1> QED BY <1>1, <1>2, <1>3, <1>4 DEF CancelTask

\* The invariant is preserved when a data channel opens or closes and by input from the
\* browser.
LEMMA ChannelStep ==
    ASSUME IInv, TypeOK',
           \/ \E ch \in Channels : OpenChannel(ch) \/ CloseChannel(ch)
           \/ \E owner \in {User, None} : UserReport(owner)
    PROVE  HolderAtHead' /\ EpochsInPast' /\ TokenIsTypists' /\ NoMacroMissesCancel' /\ CancelIsFinal'
<1> USE DEF IInv, TypeOK, Typing, Critical
<1> USE NoneAssumption
<1>1. ASSUME NEW ch \in Channels, OpenChannel(ch)
      PROVE  HolderAtHead' /\ EpochsInPast' /\ TokenIsTypists' /\ NoMacroMissesCancel' /\ CancelIsFinal'
  <2> USE <1>1 DEF OpenChannel, taskVars, cancelVars, chanVars
  <2>1. HolderAtHead'
    BY DEF HolderAtHead, Holds
  <2>2. EpochsInPast'
    BY DEF EpochsInPast
  <2>3. TokenIsTypists'
    BY DEF TokenIsTypists
  <2>4. NoMacroMissesCancel'
    BY DEF NoMacroMissesCancel, TokenIsTypists
  <2>5. CancelIsFinal'
    BY DEF CancelIsFinal
  <2> QED BY <2>1, <2>2, <2>3, <2>4, <2>5
<1>2. ASSUME NEW ch \in Channels, CloseChannel(ch)
      PROVE  HolderAtHead' /\ EpochsInPast' /\ TokenIsTypists' /\ NoMacroMissesCancel' /\ CancelIsFinal'
  <2> USE <1>2 DEF CloseChannel, taskVars, cancelVars, chanVars
  <2>1. HolderAtHead'
    BY DEF HolderAtHead, Holds
  <2>2. EpochsInPast'
    BY DEF EpochsInPast
  <2>3. TokenIsTypists'
    BY DEF TokenIsTypists
  <2>4. NoMacroMissesCancel'
    BY DEF NoMacroMissesCancel, TokenIsTypists
  <2>5. CancelIsFinal'
    BY DEF CancelIsFinal
  <2> QED BY <2>1, <2>2, <2>3, <2>4, <2>5
<1>3. ASSUME NEW owner \in {User, None}, UserReport(owner)
      PROVE  HolderAtHead' /\ EpochsInPast' /\ TokenIsTypists' /\ NoMacroMissesCancel' /\ CancelIsFinal'
  <2> USE <1>3 DEF UserReport, taskVars, cancelVars, chanVars
  <2>1. HolderAtHead'
    BY DEF HolderAtHead, Holds
  <2>2. EpochsInPast'
    BY DEF EpochsInPast
  <2>3. TokenIsTypists'
    BY DEF TokenIsTypists
  <2>4. NoMacroMissesCancel'
    BY DEF NoMacroMissesCancel, TokenIsTypists
  <2>5. CancelIsFinal'
    BY DEF CancelIsFinal
  <2> QED BY <2>1, <2>2, <2>3, <2>4, <2>5
<1> QED BY <1>1, <1>2, <1>3

\* The inductive invariant holds in every reachable state.
LEMMA Invariance == Spec => []IInv
<1>1. Init => IInv
  BY NoneAssumption DEF Init, IInv, TypeOK, HolderAtHead, EpochsInPast, TokenIsTypists,
     NoMacroMissesCancel, CancelIsFinal, Typing, Critical, User
<1>2. IInv /\ [Next]_vars => IInv'
  <2> SUFFICES ASSUME IInv, [Next]_vars PROVE IInv'
    OBVIOUS
  <2>1. TypeOK'
    BY TypeStep DEF IInv
  <2>2. CASE \E m \in Macros : MacroTask(m) \/ \E ch \in Channels \cup {None} : StartMacro(m, ch)
    BY <2>1, <2>2, MacroStep DEF IInv
  <2>3. CASE \E c \in Cancellers : BumpEpoch(c) \/ CancelTask(c)
    BY <2>1, <2>3, CancelStep DEF IInv
  <2>4. CASE \/ \E ch \in Channels : OpenChannel(ch) \/ CloseChannel(ch)
             \/ \E owner \in {User, None} : UserReport(owner)
    BY <2>1, <2>4, ChannelStep DEF IInv
  <2>5. CASE UNCHANGED vars
    BY <2>1, <2>5 DEF IInv, HolderAtHead, EpochsInPast, TokenIsTypists, NoMacroMissesCancel,
       CancelIsFinal, Holds, vars, taskVars, cancelVars, chanVars
  <2> QED BY <2>2, <2>3, <2>4, <2>5 DEF Next
<1> QED BY <1>1, <1>2, PTL DEF Spec

\* Every variable of the macro lane keeps its type, whatever the interleaving.
THEOREM TypeCorrect == Spec => []TypeOK
  BY Invariance, PTL DEF IInv

\* One macro types at a time, and running_macro holds that macro's token.
THEOREM LaneExclusive == Spec => []RunningIsTheTypist
<1>1. IInv => RunningIsTheTypist
  <2> SUFFICES ASSUME IInv PROVE RunningIsTheTypist
    OBVIOUS
  <2>1. ASSUME NEW m \in Macros, NEW n \in Macros, macroPc[m] \in Critical, macroPc[n] \in Critical
        PROVE  m = n
    BY <2>1 DEF IInv, HolderAtHead, Holds
  <2> QED BY <2>1 DEF IInv, TokenIsTypists, RunningIsTheTypist
<1> QED BY <1>1, Invariance, PTL

\* No cancel request and no channel close is missed by the macro it should stop.
THEOREM CancelReachesTypist == Spec => []NoMacroMissesCancel
  BY Invariance, PTL DEF IInv

\* Nothing asked for before a cancel is typed after cancel_macro has returned.
THEOREM CancelFinality == Spec => []CancelIsFinal
  BY Invariance, PTL DEF IInv

\* The step that closes a channel is that channel's CloseChannel.
LEMMA OnlyCloseCloses ==
    ASSUME [Next]_vars, NEW ch \in Channels, chanState[ch] = "open", chanState'[ch] = "closed", TypeOK
    PROVE  \E d \in Channels : CloseChannel(d)
<1> USE DEF TypeOK
<1>1. chanState' # chanState
  OBVIOUS
<1>2. ASSUME NEW d \in Channels, OpenChannel(d) PROVE FALSE
  BY <1>2 DEF OpenChannel
<1>3. ASSUME NEW m \in Macros, MacroTask(m) PROVE FALSE
  BY <1>1, <1>3 DEF MacroTask, JoinLane, EnterLane, PublishToken, Recheck, SendBegin, RunStep,
     DelayElapsed, DelayCancelled, EndMacro, chanVars
<1>4. ASSUME NEW m \in Macros, NEW d \in Channels \cup {None}, StartMacro(m, d) PROVE FALSE
  BY <1>1, <1>4 DEF StartMacro, chanVars
<1>5. ASSUME NEW c \in Cancellers, BumpEpoch(c) \/ CancelTask(c) PROVE FALSE
  BY <1>1, <1>5 DEF BumpEpoch, CancelTask, CancelToken, AwaitLane, ReturnToCaller, chanVars
<1>6. ASSUME NEW owner \in {User, None}, UserReport(owner) PROVE FALSE
  BY <1>1, <1>6 DEF UserReport, chanVars
<1>7. ~UNCHANGED vars
  BY <1>1 DEF vars, chanVars
<1> QED BY <1>2, <1>3, <1>4, <1>5, <1>6, <1>7 DEF Next

\* The close of a data channel leaves the token and the epochs of every RPC macro alone.
THEOREM CloseSparesRpcMacrosHolds == Spec => CloseSparesRpcMacros
<1>1. ASSUME TypeOK, [Next]_vars,
             NEW ch \in Channels, NEW m \in Macros,
             chanState[ch] = "open", chanState'[ch] = "closed", origin[m] = None
      PROVE  tokenCancelled'[m] = tokenCancelled[m] /\ Cancelled(m)' = Cancelled(m)
  <2>1. PICK d \in Channels : CloseChannel(d)
    BY <1>1, OnlyCloseCloses
  <2>2. tokenCancelled'[m] = tokenCancelled[m]
    BY <1>1, <2>1 DEF CloseChannel, TypeOK
  <2>3. Cancelled(m)' = Cancelled(m)
    BY <1>1, <2>1 DEF CloseChannel, Cancelled, taskVars, cancelVars
  <2> QED BY <2>2, <2>3
<1>2. TypeOK /\ [Next]_vars =>
        [\A ch \in Channels, m \in Macros :
           chanState[ch] = "open" /\ chanState'[ch] = "closed" /\ origin[m] = None
           => tokenCancelled'[m] = tokenCancelled[m] /\ Cancelled(m)' = Cancelled(m)]_vars
  BY <1>1
<1> QED BY <1>2, TypeCorrect, PTL DEF Spec, CloseSparesRpcMacros
-----------------------------------------------------------------------------
(* The lane implements TypingService *)

Phases      == [m \in Macros |-> PhaseOf(macroPc[m], outcome[m])]
Typed       == [m \in Macros |-> stepIx[m] - 1]
FromBrowser == [m \in Macros |-> origin[m] # None]
Stopped     == {m \in Started : Cancelled(m) \/ tokenCancelled[m]}
Requests    == [c \in Cancellers |-> RequestOf(cancelPc[c])]
Covers      == [c \in Cancellers |-> {m \in Started : epochs[m].all < cancelEpoch[c]}]

\* A token is cancelled only once there is a task that may look at it, and a macro ends early only
\* with a cancelled token or a failing HID.
TokensInUse ==
    \A m \in Macros : /\ macroPc[m] = "idle" => ~tokenCancelled[m]
                      /\ macroPc[m] = "aborted" => tokenCancelled[m] \/ HidErrors
                      /\ epochs[m].channel <= channelEpoch

\* The step a macro is at is one of its own, or the end.
StepsInRange ==
    \A m \in Macros : /\ stepIx[m] \in 1..(Len(Reports[m]) + 1)
                      /\ macroPc[m] = "delay" => stepIx[m] <= Len(Reports[m])
                      /\ macroPc[m] = "typed" => stepIx[m] = Len(Reports[m]) + 1

ServiceInv == TokensInUse /\ StepsInRange

\* The number of steps of a macro.
LEMMA StepCounts == \A m \in Macros : Len(Reports[m]) \in Nat
  BY ReportsAssumption

\* Before anything happens, no macro has a token or a step behind it.
LEMMA ServiceInvInit == Init => ServiceInv
<1> SUFFICES ASSUME Init PROVE ServiceInv
  OBVIOUS
<1>1. TokensInUse
  <2>1. \A m \in Macros : macroPc[m] = "idle" /\ tokenCancelled[m] = FALSE
    BY DEF Init
  <2>2. \A m \in Macros : epochs[m].channel <= channelEpoch
    <3>1. TAKE m \in Macros
    <3>2. epochs[m] = [all |-> 0, channel |-> 0] /\ channelEpoch = 0
      BY DEF Init
    <3> QED BY <3>2
  <2> QED BY <2>1, <2>2 DEF TokensInUse
<1>2. StepsInRange
  <2>1. \A m \in Macros : macroPc[m] = "idle" /\ stepIx[m] = 1
    BY DEF Init
  <2>2. \A m \in Macros : stepIx[m] \in 1..(Len(Reports[m]) + 1) /\ macroPc[m] \notin {"delay", "typed"}
    <3>1. TAKE m \in Macros
    <3>2. Len(Reports[m]) \in Nat /\ stepIx[m] = 1 /\ macroPc[m] = "idle"
      BY <2>1, StepCounts
    <3> QED BY <3>2
  <2> QED BY <2>2 DEF StepsInRange
<1> QED BY <1>1, <1>2 DEF ServiceInv

\* A step of a macro task.
LEMMA ServiceInvTask ==
    ASSUME IInv, ServiceInv, NEW m \in Macros,
           MacroTask(m) \/ \E ch \in Channels \cup {None} : StartMacro(m, ch)
    PROVE  ServiceInv'
<1>0. TypeOK /\ TokensInUse /\ StepsInRange
  BY DEF IInv, ServiceInv
<1> USE StepCounts DEF TypeOK, Typing, Critical
<1>1. ASSUME NEW ch \in Channels \cup {None}, StartMacro(m, ch) PROVE ServiceInv'
  <2>1. TokensInUse'
    BY <1>0, <1>1 DEF TokensInUse, StartMacro, Goto, cancelVars, chanVars
  <2>2. StepsInRange'
    BY <1>0, <1>1 DEF StepsInRange, StartMacro, Goto
  <2> QED BY <2>1, <2>2 DEF ServiceInv
<1>2. CASE JoinLane(m) \/ EnterLane(m) \/ PublishToken(m) \/ Recheck(m) \/ EndMacro(m)
  <2>1. /\ macroPc[m] # "idle" /\ UNCHANGED <<epochs, stepIx, tokenCancelled, channelEpoch>>
        /\ \E pc \in {"waiting", "checked", "published", "begin", "done"} : macroPc' = [macroPc EXCEPT ![m] = pc]
    BY <1>2 DEF JoinLane, EnterLane, PublishToken, Recheck, EndMacro, Leave, Goto, cancelVars, chanVars
  <2>2. TokensInUse' /\ StepsInRange'
    BY <1>0, <2>1 DEF TokensInUse, StepsInRange
  <2> QED BY <2>2 DEF ServiceInv
<1>3. CASE SendBegin(m)
  <2>1. /\ UNCHANGED <<epochs, stepIx, tokenCancelled, channelEpoch>>
        /\ \E pc \in {"step", "aborted"} : macroPc' = [macroPc EXCEPT ![m] = pc] /\ (pc = "aborted" => HidErrors)
    BY <1>3 DEF SendBegin, Goto, cancelVars, chanVars
  <2>2. TokensInUse' /\ StepsInRange'
    BY <1>0, <2>1 DEF TokensInUse, StepsInRange
  <2> QED BY <2>2 DEF ServiceInv
<1>4. CASE RunStep(m)
  <2>1. /\ UNCHANGED <<epochs, stepIx, tokenCancelled, channelEpoch>> /\ macroPc[m] = "step"
        /\ \E pc \in {"typed", "delay", "aborted"} :
             /\ macroPc' = [macroPc EXCEPT ![m] = pc] /\ (pc = "aborted" => HidErrors \/ tokenCancelled[m])
             /\ pc = "typed" => stepIx[m] > Len(Reports[m])
             /\ pc = "delay" => stepIx[m] <= Len(Reports[m])
    BY <1>4 DEF RunStep, Goto, cancelVars, chanVars
  <2>2. TokensInUse'
    BY <1>0, <2>1 DEF TokensInUse
  <2>3. StepsInRange'
    BY <1>0, <2>1 DEF StepsInRange
  <2> QED BY <2>2, <2>3 DEF ServiceInv
<1>5. CASE DelayElapsed(m)
  <2>1. TokensInUse'
    BY <1>0, <1>5 DEF TokensInUse, DelayElapsed, Goto, cancelVars, chanVars
  <2>2. StepsInRange'
    <3>1. /\ macroPc[m] = "delay" /\ macroPc' = [macroPc EXCEPT ![m] = "step"]
          /\ stepIx' = [stepIx EXCEPT ![m] = stepIx[m] + 1]
      BY <1>5 DEF DelayElapsed, Goto
    <3>2. ASSUME NEW n \in Macros
          PROVE  /\ stepIx'[n] \in 1..(Len(Reports[n]) + 1)
                 /\ macroPc'[n] = "delay" => stepIx'[n] <= Len(Reports[n])
                 /\ macroPc'[n] = "typed" => stepIx'[n] = Len(Reports[n]) + 1
      <4>1. CASE n = m
        <5>1. stepIx'[m] = stepIx[m] + 1 /\ macroPc'[m] = "step"
          BY <1>0, <3>1
        <5>2. stepIx[m] \in 1..(Len(Reports[m]) + 1) /\ stepIx[m] <= Len(Reports[m]) /\ Len(Reports[m]) \in Nat
          BY <1>0, <3>1 DEF StepsInRange
        <5> QED BY <4>1, <5>1, <5>2
      <4>2. CASE n # m
        BY <1>0, <3>1, <4>2 DEF StepsInRange
      <4> QED BY <4>1, <4>2
    <3> QED BY <3>2 DEF StepsInRange
  <2> QED BY <2>1, <2>2 DEF ServiceInv
<1>6. CASE DelayCancelled(m)
  <2>1. TokensInUse'
    BY <1>0, <1>6 DEF TokensInUse, DelayCancelled, Goto, cancelVars, chanVars
  <2>2. StepsInRange'
    BY <1>0, <1>6 DEF StepsInRange, DelayCancelled, Goto
  <2> QED BY <2>1, <2>2 DEF ServiceInv
<1> QED BY <1>1, <1>2, <1>3, <1>4, <1>5, <1>6 DEF MacroTask

\* A step of anybody else.
LEMMA ServiceInvOthers ==
    ASSUME IInv, ServiceInv,
           \/ \E c \in Cancellers : BumpEpoch(c) \/ CancelTask(c)
           \/ \E ch \in Channels : OpenChannel(ch) \/ CloseChannel(ch)
           \/ \E owner \in {User, None} : UserReport(owner)
           \/ UNCHANGED vars
    PROVE  ServiceInv'
<1>0. TypeOK /\ TokenIsTypists /\ TokensInUse /\ StepsInRange
  BY DEF IInv, ServiceInv
<1>1. UNCHANGED <<macroPc, epochs, stepIx>>
  BY DEF BumpEpoch, CancelTask, CancelToken, AwaitLane, ReturnToCaller, OpenChannel, CloseChannel, UserReport,
     vars, taskVars
<1>2. channelEpoch' \in {channelEpoch, channelEpoch + 1}
  BY DEF BumpEpoch, CancelTask, CancelToken, AwaitLane, ReturnToCaller, OpenChannel, CloseChannel, UserReport,
     vars, chanVars
<1>3. \A m \in Macros : tokenCancelled'[m] = tokenCancelled[m] \/ (tokenCancelled'[m] /\ m = running)
  <2>1. CASE tokenCancelled' = tokenCancelled
    BY <2>1
  <2>2. CASE tokenCancelled' # tokenCancelled
    <3>1. \/ tokenCancelled' = [m \in Macros |-> tokenCancelled[m] \/ m = running]
          \/ tokenCancelled' = [m \in Macros |-> tokenCancelled[m] \/ (m = running /\ origin[m] # None)]
      BY <2>2 DEF BumpEpoch, CancelTask, CancelToken, AwaitLane, ReturnToCaller, OpenChannel, CloseChannel,
         UserReport, vars
    <3>2. tokenCancelled \in [Macros -> BOOLEAN]
      BY <1>0 DEF TypeOK
    <3> QED BY <3>1, <3>2
  <2> QED BY <2>1, <2>2
<1>4. TokensInUse'
  <2> SUFFICES ASSUME NEW m \in Macros
               PROVE  /\ macroPc'[m] = "idle" => ~tokenCancelled'[m]
                      /\ macroPc'[m] = "aborted" => tokenCancelled'[m] \/ HidErrors
                      /\ epochs'[m].channel <= channelEpoch'
    BY DEF TokensInUse
  <2>1. running = m => macroPc[m] # "idle"
    BY <1>0 DEF TokenIsTypists, Typing
  <2>2. epochs[m].channel \in Nat /\ channelEpoch \in Nat
    BY <1>0 DEF TypeOK
  <2>3. epochs'[m].channel <= channelEpoch'
    BY <1>0, <1>1, <1>2, <2>2 DEF TokensInUse
  <2> QED BY <1>0, <1>1, <1>3, <2>1, <2>3 DEF TokensInUse
<1>5. StepsInRange'
  BY <1>0, <1>1 DEF StepsInRange
<1> QED BY <1>4, <1>5 DEF ServiceInv

\* Both invariants together.
LEMMA ServiceInvHolds == Spec => [](IInv /\ ServiceInv)
<1>1. IInv /\ ServiceInv /\ [Next]_vars => ServiceInv'
  BY ServiceInvTask, ServiceInvOthers DEF Next
<1> QED BY <1>1, ServiceInvInit, Invariance, PTL DEF Spec

\* The phase of a macro at each of its control points.
LEMMA PhaseIs ==
    \A pc, result :
      /\ pc = "idle" => PhaseOf(pc, result) = "new"
      /\ pc \in {"spawned", "waiting", "checked"} => PhaseOf(pc, result) = "queued"
      /\ pc \in {"published"} \cup Typing => PhaseOf(pc, result) = "typing"
      /\ pc = "done" => PhaseOf(pc, result) = result
  BY Zenon DEF PhaseOf, Typing

\* A step of one task that has started: nothing but its own phase is to be seen of it.
LEMMA TaskMoves ==
    ASSUME TypeOK, NEW m \in Macros, NEW pc, pc # "idle", macroPc[m] # "idle",
           macroPc' = [macroPc EXCEPT ![m] = pc], \A n \in Macros \ {m} : outcome'[n] = outcome[n],
           UNCHANGED <<epochs, origin, tokenCancelled, cancelPc, cancelEpoch, cancelAllEpoch, channelEpoch>>
    PROVE  /\ Phases' = [Phases EXCEPT ![m] = PhaseOf(pc, outcome'[m])]
           /\ UNCHANGED <<FromBrowser, Stopped, Requests, Covers>>
<1>1. macroPc'[m] = pc /\ \A n \in Macros \ {m} : macroPc'[n] = macroPc[n]
  BY DEF TypeOK
<1>2. Started' = Started
  BY <1>1 DEF Started
<1>3. Stopped' = Stopped /\ Covers' = Covers
  BY <1>2 DEF Stopped, Covers, Cancelled
<1>4. FromBrowser' = FromBrowser /\ Requests' = Requests
  BY DEF FromBrowser, Requests
<1>5. Phases' = [Phases EXCEPT ![m] = PhaseOf(pc, outcome'[m])]
  <2>1. \A n \in Macros : PhaseOf(macroPc'[n], outcome'[n])
                            = IF n = m THEN PhaseOf(pc, outcome'[m]) ELSE PhaseOf(macroPc[n], outcome[n])
    BY <1>1
  <2>2. Phases' = [n \in Macros |-> PhaseOf(macroPc'[n], outcome'[n])]
    BY DEF Phases
  <2>3. [Phases EXCEPT ![m] = PhaseOf(pc, outcome'[m])]
          = [n \in Macros |-> IF n = m THEN PhaseOf(pc, outcome'[m]) ELSE PhaseOf(macroPc[n], outcome[n])]
    BY Zenon DEF Phases
  <2> QED BY <2>1, <2>2, <2>3, Zenon
<1> QED BY <1>3, <1>4, <1>5

\* A macro is submitted: nothing is known of it yet, and no request covers it.
LEMMA SubmitImplements ==
    ASSUME IInv, IInv', ServiceInv, NEW m \in Macros, NEW ch \in Channels \cup {None}, StartMacro(m, ch)
    PROVE  Service!Submit(m, ch # None)
<1> USE DEF TypeOK
<1>0. TypeOK /\ TypeOK' /\ TokensInUse /\ EpochsInPast
  BY DEF IInv, ServiceInv
<1>1. /\ macroPc[m] = "idle" /\ macroPc' = [macroPc EXCEPT ![m] = "spawned"]
      /\ origin' = [origin EXCEPT ![m] = ch]
      /\ epochs' = [epochs EXCEPT ![m] = [all |-> cancelAllEpoch, channel |-> channelEpoch]]
      /\ UNCHANGED <<stepIx, outcome, tokenCancelled, cancelPc, cancelEpoch, cancelAllEpoch, channelEpoch>>
  BY DEF StartMacro, Goto, cancelVars, chanVars
<1>2. Started' = Started \cup {m} /\ m \notin Started
  <2>1. macroPc'[m] = "spawned" /\ \A n \in Macros \ {m} : macroPc'[n] = macroPc[n]
    BY <1>0, <1>1
  <2> QED BY <1>1, <2>1, Zenon DEF Started
<1>3. Stopped' = Stopped
  <2>1. ~Cancelled(m)'
    BY <1>0, <1>1 DEF Cancelled
  <2>2. ~tokenCancelled'[m]
    BY <1>0, <1>1 DEF TokensInUse
  <2>3. \A n \in Macros \ {m} : (Cancelled(n) \/ tokenCancelled[n])' <=> Cancelled(n) \/ tokenCancelled[n]
    BY <1>0, <1>1 DEF Cancelled
  <2>4. Started \subseteq Macros \ {m}
    BY <1>2 DEF Started
  <2> QED BY <1>2, <2>1, <2>2, <2>3, <2>4 DEF Stopped
<1>4. Covers' = Covers
  <2> SUFFICES ASSUME NEW c \in Cancellers
               PROVE  {n \in Started' : epochs'[n].all < cancelEpoch[c]}
                        = {n \in Started : epochs[n].all < cancelEpoch[c]}
    BY <1>1 DEF Covers
  <2>1. epochs'[m].all = cancelAllEpoch /\ cancelEpoch[c] <= cancelAllEpoch
    BY <1>0, <1>1 DEF EpochsInPast
  <2>2. ~(epochs'[m].all < cancelEpoch[c])
    BY <1>0, <2>1
  <2>3. \A n \in Started : epochs'[n] = epochs[n]
    BY <1>0, <1>1, <1>2 DEF Started
  <2> QED BY <1>2, <2>2, <2>3
<1>5. Phases[m] = "new" /\ Phases' = [Phases EXCEPT ![m] = "queued"]
  <2>1. Phases[m] = "new"
    BY <1>1, PhaseIs DEF Phases
  <2>2. PhaseOf("spawned", outcome[m]) = "queued"
    BY PhaseIs
  <2>3. macroPc'[m] = "spawned" /\ \A n \in Macros \ {m} : macroPc'[n] = macroPc[n]
    BY <1>0, <1>1
  <2>4. \A n \in Macros : PhaseOf(macroPc'[n], outcome'[n]) = IF n = m THEN "queued" ELSE Phases[n]
    BY <1>1, <2>2, <2>3 DEF Phases
  <2>5. Phases' = [n \in Macros |-> PhaseOf(macroPc'[n], outcome'[n])] /\ DOMAIN Phases = Macros
    BY DEF Phases
  <2>6. [Phases EXCEPT ![m] = "queued"] = [n \in Macros |-> IF n = m THEN "queued" ELSE Phases[n]]
    BY <2>5, Zenon
  <2> QED BY <2>1, <2>4, <2>5, <2>6, Zenon
<1>6. FromBrowser' = [FromBrowser EXCEPT ![m] = (ch # None)]
  BY <1>0, <1>1 DEF FromBrowser
<1>7. Typed' = Typed /\ Requests' = Requests
  BY <1>1 DEF Typed, Requests
<1> QED BY <1>3, <1>4, <1>5, <1>6, <1>7
      DEF Service!Submit, Phases, Typed, FromBrowser, Stopped, Requests, Covers

\* The variables that only other parties change.
Elsewhere == <<epochs, origin, tokenCancelled, cancelPc, cancelEpoch, cancelAllEpoch, channelEpoch>>

\* A step that leaves the phase and the count of its macro as they are is not to be seen.
LEMMA UnseenStep ==
    ASSUME TypeOK, NEW m \in Macros, NEW pc, macroPc' = [macroPc EXCEPT ![m] = pc], UNCHANGED <<stepIx, outcome>>,
           UNCHANGED Elsewhere,
           \/ macroPc[m] \in {"spawned", "waiting", "checked"} /\ pc \in {"spawned", "waiting", "checked"}
           \/ macroPc[m] \in {"published"} \cup Typing /\ pc \in {"published"} \cup Typing
    PROVE  UNCHANGED Service!serviceVars
<1>1. pc # "idle" /\ macroPc[m] # "idle"
  BY DEF Typing
<1>2. PhaseOf(pc, outcome[m]) = PhaseOf(macroPc[m], outcome[m])
  BY PhaseIs
<1>3. /\ Phases' = [Phases EXCEPT ![m] = PhaseOf(pc, outcome'[m])]
      /\ UNCHANGED <<FromBrowser, Stopped, Requests, Covers>>
  BY <1>1, TaskMoves DEF Elsewhere
<1>4. Phases[m] = PhaseOf(pc, outcome'[m]) /\ DOMAIN Phases = Macros
  BY <1>2 DEF Phases
<1>5. Phases' = Phases
  BY <1>3, <1>4, Zenon DEF Phases
<1>6. Typed' = Typed
  BY DEF Typed
<1> QED BY <1>3, <1>5, <1>6 DEF Service!serviceVars, Phases, Typed, FromBrowser, Stopped, Requests, Covers

\* A macro that is given up was reached by a cancel or a close, or the HID failed under it.
LEMMA DropImplements ==
    ASSUME TypeOK, NEW m \in Macros, macroPc[m] \in {"waiting", "published", "aborted"},
           macroPc' = [macroPc EXCEPT ![m] = "done"], outcome' = [outcome EXCEPT ![m] = "dropped"],
           UNCHANGED stepIx, UNCHANGED Elsewhere,
           Cancelled(m) \/ tokenCancelled[m] \/ (HidErrors /\ macroPc[m] = "aborted")
    PROVE  Service!Drop(m)
<1>1. outcome'[m] = "dropped" /\ \A n \in Macros \ {m} : outcome'[n] = outcome[n]
  BY DEF TypeOK
<1>2. PhaseOf("done", outcome'[m]) = "dropped"
  BY <1>1, PhaseIs
<1>3. /\ Phases' = [Phases EXCEPT ![m] = PhaseOf("done", outcome'[m])]
      /\ UNCHANGED <<FromBrowser, Stopped, Requests, Covers>>
  BY <1>1, TaskMoves DEF Elsewhere
<1>4. /\ Phases[m] \in {"queued", "typing"}
      /\ macroPc[m] = "aborted" => Phases[m] = "typing"
  BY PhaseIs DEF Phases, Typing
<1>5. m \in Stopped \/ (HidErrors /\ Phases[m] = "typing")
  BY <1>4 DEF Stopped, Started
<1>6. Typed' = Typed
  BY DEF Typed
<1> QED BY <1>2, <1>3, <1>4, <1>5, <1>6
      DEF Service!Drop, Phases, Typed, FromBrowser, Stopped, Requests, Covers

\* The token is published: nobody else types, and no returned request covers the macro.
LEMMA BeginImplements ==
    ASSUME IInv, NEW m \in Macros, PublishToken(m)
    PROVE  Service!Begin(m)
<1>0. TypeOK /\ HolderAtHead /\ CancelIsFinal
  BY DEF IInv
<1>1. /\ macroPc[m] = "checked" /\ macroPc' = [macroPc EXCEPT ![m] = "published"]
      /\ UNCHANGED <<stepIx, outcome>> /\ UNCHANGED Elsewhere
  BY DEF PublishToken, Goto, cancelVars, chanVars, Elsewhere
<1>2. PhaseOf("published", outcome'[m]) = "typing" /\ Phases[m] = "queued"
  BY <1>1, PhaseIs DEF Phases
<1>3. /\ Phases' = [Phases EXCEPT ![m] = PhaseOf("published", outcome'[m])]
      /\ UNCHANGED <<FromBrowser, Stopped, Requests, Covers>>
  BY <1>0, <1>1, TaskMoves DEF Elsewhere
<1>4. ASSUME NEW n \in Macros, Phases[n] = "typing" PROVE FALSE
  <2>1. PhaseOf(macroPc[n], outcome[n]) = "typing"
    BY <1>4 DEF Phases
  <2>2. outcome[n] # "typing" /\ macroPc[n] \in {"idle", "spawned", "waiting", "done"} \cup Critical
    BY <1>0 DEF TypeOK
  <2>3. macroPc[n] \in {"published"} \cup Typing
    BY <2>1, <2>2, PhaseIs DEF Critical
  <2>4. Holds(n) /\ Holds(m) /\ n # m
    BY <1>0, <1>1, <2>3 DEF HolderAtHead, Critical, Typing
  <2> QED BY <2>4 DEF Holds
<1>5. ASSUME NEW c \in Cancellers, Requests[c] = "returned" PROVE m \notin Covers[c]
  <2>1. cancelPc[c] = "returned"
    <3>1. RequestOf(cancelPc[c]) = "returned" /\ cancelPc[c] \in {"idle", "bumped", "queueing", "waiting", "returned"}
      BY <1>0, <1>5 DEF Requests, TypeOK
    <3> QED BY <3>1 DEF RequestOf
  <2>2. epochs[m].all >= cancelEpoch[c]
    BY <1>0, <1>1, <2>1 DEF CancelIsFinal, Critical
  <2>3. epochs[m].all \in Nat /\ cancelEpoch[c] \in Nat
    BY <1>0 DEF TypeOK
  <2> QED BY <2>2, <2>3 DEF Covers
<1>6. Typed' = Typed
  BY <1>1 DEF Typed
<1> QED BY <1>2, <1>3, <1>4, <1>5, <1>6
      DEF Service!Begin, Service!Typist, Phases, Typed, FromBrowser, Stopped, Requests, Covers

\* A step was held for its time.
LEMMA TypeStepImplements ==
    ASSUME IInv, ServiceInv, NEW m \in Macros, DelayElapsed(m)
    PROVE  Service!TypeStep(m)
<1>0. TypeOK /\ StepsInRange
  BY DEF IInv, ServiceInv
<1>1. /\ macroPc[m] = "delay" /\ macroPc' = [macroPc EXCEPT ![m] = "step"]
      /\ stepIx' = [stepIx EXCEPT ![m] = stepIx[m] + 1] /\ UNCHANGED outcome /\ UNCHANGED Elsewhere
  BY DEF DelayElapsed, Goto, cancelVars, chanVars, Elsewhere
<1>2. PhaseOf("step", outcome'[m]) = "typing" /\ Phases[m] = "typing"
  BY <1>1, PhaseIs DEF Phases, Typing
<1>3. /\ Phases' = [Phases EXCEPT ![m] = PhaseOf("step", outcome'[m])]
      /\ UNCHANGED <<FromBrowser, Stopped, Requests, Covers>>
  BY <1>0, <1>1, TaskMoves DEF Elsewhere
<1>4. Phases' = Phases
  BY <1>2, <1>3, Zenon DEF Phases
<1>5. stepIx[m] \in Nat /\ stepIx[m] <= Len(Reports[m]) /\ Len(Reports[m]) \in Nat
  BY <1>0, <1>1, StepCounts DEF StepsInRange, TypeOK
<1>6. Typed[m] < Len(Reports[m])
  BY <1>5 DEF Typed
<1>7. Typed' = [Typed EXCEPT ![m] = Typed[m] + 1]
  <2>1. \A n \in Macros : stepIx'[n] - 1 = IF n = m THEN (stepIx[m] - 1) + 1 ELSE stepIx[n] - 1
    BY <1>0, <1>1, <1>5 DEF TypeOK
  <2>2. Typed' = [n \in Macros |-> stepIx'[n] - 1]
    BY DEF Typed
  <2>3. Typed[m] = stepIx[m] - 1
    BY DEF Typed
  <2>4. [Typed EXCEPT ![m] = Typed[m] + 1] = [n \in Macros |-> IF n = m THEN Typed[m] + 1 ELSE stepIx[n] - 1]
    BY Zenon DEF Typed
  <2> QED BY <2>1, <2>2, <2>3, <2>4
<1> QED BY <1>2, <1>3, <1>4, <1>6, <1>7
      DEF Service!TypeStep, Phases, Typed, FromBrowser, Stopped, Requests, Covers

\* "completed" is told of a macro that has typed all its steps.
LEMMA EndImplements ==
    ASSUME IInv, ServiceInv, NEW m \in Macros, EndMacro(m)
    PROVE  Service!Complete(m) \/ Service!Drop(m)
<1>0. TypeOK /\ StepsInRange /\ TokensInUse
  BY DEF IInv, ServiceInv
<1>1. /\ macroPc[m] \in {"typed", "aborted"} /\ macroPc' = [macroPc EXCEPT ![m] = "done"]
      /\ outcome' = [outcome EXCEPT ![m] = IF macroPc[m] = "typed" THEN "completed" ELSE "dropped"]
      /\ UNCHANGED stepIx /\ UNCHANGED Elsewhere
  BY DEF EndMacro, Leave, Goto, cancelVars, chanVars, Elsewhere
<1>2. CASE macroPc[m] = "typed"
  <2>1. outcome'[m] = "completed" /\ \A n \in Macros \ {m} : outcome'[n] = outcome[n]
    BY <1>0, <1>1, <1>2 DEF TypeOK
  <2>2. PhaseOf("done", outcome'[m]) = "completed" /\ Phases[m] = "typing"
    BY <1>2, <2>1, PhaseIs DEF Phases, Typing
  <2>3. /\ Phases' = [Phases EXCEPT ![m] = PhaseOf("done", outcome'[m])]
        /\ UNCHANGED <<FromBrowser, Stopped, Requests, Covers>>
    BY <1>0, <1>1, <2>1, TaskMoves DEF Elsewhere
  <2>4. stepIx[m] = Len(Reports[m]) + 1 /\ Len(Reports[m]) \in Nat
    BY <1>0, <1>2, StepCounts DEF StepsInRange
  <2>5. Typed[m] = Len(Reports[m]) /\ Typed' = Typed
    BY <1>1, <2>4 DEF Typed
  <2>6. Service!Complete(m)
    BY <2>2, <2>3, <2>5 DEF Service!Complete, Phases, Typed, FromBrowser, Stopped, Requests, Covers
  <2> QED BY <2>6
<1>3. CASE macroPc[m] = "aborted"
  <2>1. tokenCancelled[m] \/ HidErrors
    BY <1>0, <1>3 DEF TokensInUse
  <2>2. outcome' = [outcome EXCEPT ![m] = "dropped"]
    BY <1>1, <1>3
  <2> QED BY <1>0, <1>1, <1>3, <2>1, <2>2, DropImplements
<1> QED BY <1>1, <1>2, <1>3

\* A step of a macro task.
LEMMA TaskImplements ==
    ASSUME IInv, ServiceInv, NEW m \in Macros, MacroTask(m)
    PROVE  Service!ServiceNext \/ UNCHANGED Service!serviceVars
<1>0. TypeOK
  BY DEF IInv
<1>1. CASE JoinLane(m)
  <2>1. /\ macroPc[m] = "spawned" /\ macroPc' = [macroPc EXCEPT ![m] = "waiting"]
        /\ UNCHANGED <<stepIx, outcome>> /\ UNCHANGED Elsewhere
    BY <1>1 DEF JoinLane, Goto, cancelVars, chanVars, Elsewhere
  <2> QED BY <1>0, <2>1, UnseenStep
<1>2. CASE EnterLane(m)
  <2>1. macroPc[m] = "waiting" /\ UNCHANGED stepIx /\ UNCHANGED Elsewhere
    BY <1>2 DEF EnterLane, cancelVars, chanVars, Elsewhere
  <2>2. CASE Cancelled(m)
    <3>1. macroPc' = [macroPc EXCEPT ![m] = "done"] /\ outcome' = [outcome EXCEPT ![m] = "dropped"]
      BY <1>2, <2>2 DEF EnterLane, Leave, Goto
    <3>2. Service!Drop(m)
      BY <1>0, <2>1, <2>2, <3>1, DropImplements
    <3> QED BY <3>2 DEF Service!ServiceNext
  <2>3. CASE ~Cancelled(m)
    <3>1. macroPc' = [macroPc EXCEPT ![m] = "checked"] /\ UNCHANGED outcome
      BY <1>2, <2>3 DEF EnterLane, Goto
    <3> QED BY <1>0, <2>1, <3>1, UnseenStep
  <2> QED BY <2>2, <2>3
<1>3. CASE PublishToken(m)
  BY <1>3, BeginImplements DEF Service!ServiceNext
<1>4. CASE Recheck(m)
  <2>1. macroPc[m] = "published" /\ UNCHANGED stepIx /\ UNCHANGED Elsewhere
    BY <1>4 DEF Recheck, cancelVars, chanVars, Elsewhere
  <2>2. CASE Cancelled(m)
    <3>1. macroPc' = [macroPc EXCEPT ![m] = "done"] /\ outcome' = [outcome EXCEPT ![m] = "dropped"]
      BY <1>4, <2>2 DEF Recheck, Leave, Goto
    <3>2. Service!Drop(m)
      BY <1>0, <2>1, <2>2, <3>1, DropImplements
    <3> QED BY <3>2 DEF Service!ServiceNext
  <2>3. CASE ~Cancelled(m)
    <3>1. macroPc' = [macroPc EXCEPT ![m] = "begin"] /\ UNCHANGED outcome
      BY <1>4, <2>3 DEF Recheck, Goto
    <3> QED BY <1>0, <2>1, <3>1, UnseenStep DEF Typing
  <2> QED BY <2>2, <2>3
<1>5. CASE SendBegin(m) \/ RunStep(m) \/ DelayCancelled(m)
  <2>1. macroPc[m] \in Typing /\ UNCHANGED <<stepIx, outcome>> /\ UNCHANGED Elsewhere
    BY <1>5 DEF SendBegin, RunStep, DelayCancelled, cancelVars, chanVars, Elsewhere, Typing
  <2>2. PICK pc \in {"step", "aborted", "typed", "delay"} : macroPc' = [macroPc EXCEPT ![m] = pc]
    BY <1>5 DEF SendBegin, RunStep, DelayCancelled, Goto
  <2> QED BY <1>0, <2>1, <2>2, UnseenStep DEF Typing
<1>6. CASE DelayElapsed(m)
  BY <1>6, TypeStepImplements DEF Service!ServiceNext
<1>7. CASE EndMacro(m)
  BY <1>7, EndImplements DEF Service!ServiceNext
<1> QED BY <1>1, <1>2, <1>3, <1>4, <1>5, <1>6, <1>7 DEF MacroTask

\* What was started, in the terms of the service.
LEMMA SubmittedIs == TypeOK => Service!Submitted = Started
<1> SUFFICES ASSUME TypeOK PROVE Service!Submitted = Started
  OBVIOUS
<1>1. ASSUME NEW m \in Macros PROVE PhaseOf(macroPc[m], outcome[m]) # "new" <=> macroPc[m] # "idle"
  <2>1. /\ macroPc[m] \in {"idle", "spawned", "waiting", "done"} \cup Critical
        /\ outcome[m] \in {"pending", "completed", "dropped"}
    BY DEF TypeOK
  <2> QED BY <2>1, PhaseIs DEF Critical
<1>2. Service!Submitted = {m \in Macros : PhaseOf(macroPc[m], outcome[m]) # "new"}
  BY DEF Service!Submitted
<1> QED BY <1>1, <1>2 DEF Started

\* A cancel request covers all that was started before it.
LEMMA AskImplements ==
    ASSUME IInv, NEW c \in Cancellers, BumpEpoch(c)
    PROVE  Service!Ask(c)
<1>0. TypeOK /\ EpochsInPast
  BY DEF IInv
<1>1. /\ cancelPc[c] = "idle" /\ cancelPc' = [cancelPc EXCEPT ![c] = "bumped"]
      /\ cancelAllEpoch' = cancelAllEpoch + 1
      /\ cancelEpoch' = [cancelEpoch EXCEPT ![c] = cancelAllEpoch + 1]
      /\ UNCHANGED <<macroPc, epochs, origin, stepIx, outcome, tokenCancelled, channelEpoch>>
  BY DEF BumpEpoch, taskVars, chanVars
<1>2. Started' = Started
  BY <1>1 DEF Started
<1>3. \A m \in Macros : epochs[m].all \in Nat /\ epochs[m].all <= cancelAllEpoch /\ cancelAllEpoch \in Nat
  BY <1>0 DEF TypeOK, EpochsInPast
<1>4. Stopped' = Started
  <2>1. \A m \in Macros : Cancelled(m)'
    BY <1>1, <1>3 DEF Cancelled
  <2> QED BY <1>2, <2>1 DEF Stopped, Started
<1>5. Covers' = [Covers EXCEPT ![c] = Started]
  <2>1. cancelEpoch'[c] = cancelAllEpoch + 1 /\ \A d \in Cancellers \ {c} : cancelEpoch'[d] = cancelEpoch[d]
    BY <1>0, <1>1 DEF TypeOK
  <2>2. \A m \in Macros : epochs'[m].all < cancelEpoch'[c]
    BY <1>1, <1>3, <2>1
  <2>3. {m \in Started' : epochs'[m].all < cancelEpoch'[c]} = Started
    BY <1>2, <2>2 DEF Started
  <2>4. ASSUME NEW d \in Cancellers \ {c}
        PROVE  {m \in Started' : epochs'[m].all < cancelEpoch'[d]} = {m \in Started : epochs[m].all < cancelEpoch[d]}
    BY <1>1, <1>2, <2>1
  <2>5. \A d \in Cancellers : {m \in Started' : epochs'[m].all < cancelEpoch'[d]}
                              = IF d = c THEN Started ELSE {m \in Started : epochs[m].all < cancelEpoch[d]}
    BY <2>3, <2>4
  <2>6. [Covers EXCEPT ![c] = Started]
          = [d \in Cancellers |-> IF d = c THEN Started ELSE {m \in Started : epochs[m].all < cancelEpoch[d]}]
    BY Zenon DEF Covers
  <2>7. Covers' = [d \in Cancellers |-> {m \in Started' : epochs'[m].all < cancelEpoch'[d]}]
    BY DEF Covers
  <2> QED BY <2>5, <2>6, <2>7, Zenon
<1>6. Requests[c] = "new" /\ Requests' = [Requests EXCEPT ![c] = "asked"]
  <2>1. RequestOf("idle") = "new" /\ RequestOf("bumped") = "asked"
    BY DEF RequestOf
  <2> QED BY <1>0, <1>1, <2>1 DEF Requests, TypeOK
<1>7. Phases' = Phases /\ Typed' = Typed /\ FromBrowser' = FromBrowser
  BY <1>1 DEF Phases, Typed, FromBrowser
<1>8. Service!Submitted = Started
  BY <1>0, SubmittedIs
<1> QED BY <1>4, <1>5, <1>6, <1>7, <1>8
      DEF Service!Ask, Phases, Typed, FromBrowser, Stopped, Requests, Covers

\* The token that a request finds is that of the macro that types.
LEMMA ReachImplements ==
    ASSUME IInv, NEW c \in Cancellers, CancelToken(c)
    PROVE  Service!Reach(c)
<1>0. TypeOK /\ TokenIsTypists
  BY DEF IInv
<1>1. /\ cancelPc[c] = "bumped" /\ cancelPc' = [cancelPc EXCEPT ![c] = "queueing"]
      /\ tokenCancelled' = [m \in Macros |-> tokenCancelled[m] \/ m = running]
      /\ UNCHANGED <<macroPc, epochs, origin, stepIx, outcome, channelEpoch, cancelEpoch, cancelAllEpoch>>
  BY DEF CancelToken, taskVars, chanVars
<1>2. ASSUME NEW m \in Macros PROVE PhaseOf(macroPc[m], outcome[m]) = "typing" <=> m = running
  <2>1. /\ macroPc[m] \in {"idle", "spawned", "waiting", "done"} \cup Critical
        /\ outcome[m] \in {"pending", "completed", "dropped"}
    BY <1>0 DEF TypeOK
  <2>2. PhaseOf(macroPc[m], outcome[m]) = "typing" <=> macroPc[m] \in {"published"} \cup Typing
    BY <2>1, PhaseIs DEF Critical
  <2> QED BY <1>0, <2>2 DEF TokenIsTypists
<1>3. Service!Typist = {m \in Macros : m = running}
  BY <1>2 DEF Service!Typist
<1>4. ASSUME NEW m \in Macros, m = running PROVE m \in Started
  BY <1>0, <1>4 DEF TokenIsTypists, Typing, Started
<1>5. Stopped' = Stopped \cup Service!Typist
  <2>1. Started' = Started /\ Started \subseteq Macros
    BY <1>1 DEF Started
  <2>2. \A m \in Macros : Cancelled(m)' <=> Cancelled(m)
    BY <1>1 DEF Cancelled
  <2>3. Stopped' = {m \in Started : Cancelled(m) \/ tokenCancelled[m] \/ m = running}
    BY <1>1, <2>1, <2>2 DEF Stopped
  <2> QED BY <1>3, <1>4, <2>1, <2>3 DEF Stopped
<1>6. Requests[c] = "asked" /\ Requests' = Requests
  <2>1. RequestOf("bumped") = "asked" /\ RequestOf("queueing") = "asked"
    BY DEF RequestOf
  <2>2. \A d \in Cancellers : RequestOf(cancelPc'[d]) = RequestOf(cancelPc[d])
    BY <1>0, <1>1, <2>1 DEF TypeOK
  <2> QED BY <1>1, <2>1, <2>2 DEF Requests
<1>7. Phases' = Phases /\ Typed' = Typed /\ FromBrowser' = FromBrowser /\ Covers' = Covers
  BY <1>1 DEF Phases, Typed, FromBrowser, Covers, Started
<1> QED BY <1>5, <1>6, <1>7 DEF Service!Reach, Phases, Typed, FromBrowser, Stopped, Requests, Covers

\* Whoever is given the lane knows that nobody types.
LEMMA ReturnImplements ==
    ASSUME IInv, NEW c \in Cancellers, ReturnToCaller(c)
    PROVE  Service!Return(c)
<1>0. TypeOK /\ HolderAtHead
  BY DEF IInv
<1>1. /\ cancelPc[c] = "waiting" /\ Holds(c) /\ cancelPc' = [cancelPc EXCEPT ![c] = "returned"]
      /\ UNCHANGED <<macroPc, epochs, origin, stepIx, outcome, tokenCancelled, channelEpoch, cancelEpoch,
                     cancelAllEpoch>>
  BY DEF ReturnToCaller, taskVars, chanVars
<1>2. ASSUME NEW m \in Macros PROVE PhaseOf(macroPc[m], outcome[m]) # "typing"
  <2>1. /\ macroPc[m] \in {"idle", "spawned", "waiting", "done"} \cup Critical
        /\ outcome[m] \in {"pending", "completed", "dropped"}
    BY <1>0 DEF TypeOK
  <2>2. macroPc[m] \notin Critical
    BY <1>0, <1>1, ActorsAssumption DEF HolderAtHead, Holds
  <2> QED BY <2>1, <2>2, PhaseIs DEF Critical
<1>3. Service!Typist = {}
  BY <1>2 DEF Service!Typist
<1>4. Requests[c] = "asked" /\ Requests' = [Requests EXCEPT ![c] = "returned"]
  <2>1. RequestOf("waiting") = "asked" /\ RequestOf("returned") = "returned"
    BY DEF RequestOf
  <2> QED BY <1>0, <1>1, <2>1 DEF Requests, TypeOK
<1>5. /\ Phases' = Phases /\ Typed' = Typed /\ FromBrowser' = FromBrowser
      /\ Covers' = Covers /\ Stopped' = Stopped
  BY <1>1 DEF Phases, Typed, FromBrowser, Covers, Stopped, Started, Cancelled
<1> QED BY <1>3, <1>4, <1>5 DEF Service!Return, Phases, Typed, FromBrowser, Stopped, Requests, Covers

\* The close of a channel reaches the macros of the browsers, whichever channel they came over, and no other.
LEMMA CloseImplements ==
    ASSUME IInv, ServiceInv, NEW ch \in Channels, CloseChannel(ch)
    PROVE  Service!BrowserLeaves
<1>0. TypeOK /\ TokenIsTypists /\ TokensInUse
  BY DEF IInv, ServiceInv
<1>1. /\ channelEpoch' = channelEpoch + 1
      /\ tokenCancelled' = [m \in Macros |-> tokenCancelled[m] \/ (m = running /\ origin[m] # None)]
      /\ UNCHANGED <<macroPc, epochs, origin, stepIx, outcome, cancelPc, cancelEpoch, cancelAllEpoch>>
  BY DEF CloseChannel, taskVars, cancelVars
<1>2. Started' = Started /\ Started \subseteq Macros
  BY <1>1 DEF Started
<1>3. ASSUME NEW m \in Macros
      PROVE  (Cancelled(m) \/ tokenCancelled[m])' <=> Cancelled(m) \/ tokenCancelled[m] \/ origin[m] # None
  <2>1. epochs[m].channel # channelEpoch'
    <3>1. epochs[m].channel \in Nat /\ channelEpoch \in Nat /\ epochs[m].channel <= channelEpoch
      BY <1>0 DEF TypeOK, TokensInUse
    <3> QED BY <1>1, <3>1
  <2>2. Cancelled(m)' <=> epochs[m].all # cancelAllEpoch \/ origin[m] # None
    BY <1>1, <2>1 DEF Cancelled
  <2>3. tokenCancelled'[m] <=> tokenCancelled[m] \/ (m = running /\ origin[m] # None)
    BY <1>1
  <2> QED BY <2>2, <2>3 DEF Cancelled
<1>4. Stopped' = Stopped \cup {m \in Started : FromBrowser[m]}
  <2>1. \A m \in Macros : FromBrowser[m] <=> origin[m] # None
    BY DEF FromBrowser
  <2>2. Stopped' = {m \in Started : Cancelled(m) \/ tokenCancelled[m] \/ origin[m] # None}
    BY <1>2, <1>3 DEF Stopped
  <2> QED BY <1>2, <2>1, <2>2 DEF Stopped
<1>5. /\ Phases' = Phases /\ Typed' = Typed /\ FromBrowser' = FromBrowser
      /\ Covers' = Covers /\ Requests' = Requests
  BY <1>1, <1>2 DEF Phases, Typed, FromBrowser, Covers, Requests
<1>6. Service!Submitted = Started
  BY <1>0, SubmittedIs
<1> QED BY <1>4, <1>5, <1>6 DEF Service!BrowserLeaves, Phases, Typed, FromBrowser, Stopped, Requests, Covers

\* What the service does not see: a place in the queue, a new channel, what a person types.
LEMMA UnseenByService ==
    ASSUME IInv, \/ \E c \in Cancellers : AwaitLane(c)
                 \/ \E ch \in Channels : OpenChannel(ch)
                 \/ \E owner \in {User, None} : UserReport(owner)
                 \/ UNCHANGED vars
    PROVE  UNCHANGED Service!serviceVars
<1>0. TypeOK
  BY DEF IInv
<1>1. UNCHANGED <<macroPc, epochs, origin, stepIx, outcome, tokenCancelled, cancelEpoch, cancelAllEpoch, channelEpoch>>
  BY DEF AwaitLane, OpenChannel, UserReport, vars, taskVars, cancelVars, chanVars
<1>2. /\ Phases' = Phases /\ Typed' = Typed /\ FromBrowser' = FromBrowser
      /\ Covers' = Covers /\ Stopped' = Stopped
  BY <1>1 DEF Phases, Typed, FromBrowser, Covers, Stopped, Started, Cancelled
<1>3. Requests' = Requests
  <2>1. CASE cancelPc' = cancelPc
    BY <2>1 DEF Requests
  <2>2. CASE cancelPc' # cancelPc
    <3>1. PICK c \in Cancellers : AwaitLane(c)
      BY <2>2 DEF OpenChannel, UserReport, vars, cancelVars
    <3>2. RequestOf("queueing") = RequestOf("waiting")
      BY DEF RequestOf
    <3>3. \A d \in Cancellers : RequestOf(cancelPc'[d]) = RequestOf(cancelPc[d])
      BY <1>0, <3>1, <3>2 DEF AwaitLane, TypeOK
    <3> QED BY <3>3 DEF Requests
  <2> QED BY <2>1, <2>2
<1> QED BY <1>2, <1>3 DEF Service!serviceVars, Phases, Typed, FromBrowser, Stopped, Requests, Covers

\* The lane implements TypingService, for any macros, requests, channels and failures: steps are typed in
\* order and unmixed, "completed" means all of them, "dropped" has a cause, a returned request is final.
THEOREM LaneImplements == Spec => LaneIsTypingService
<1>1. Init => Service!ServiceInit
  <2> SUFFICES ASSUME Init PROVE Service!ServiceInit
    OBVIOUS
  <2>1. \A m \in Macros : macroPc[m] = "idle" /\ stepIx[m] = 1 /\ origin[m] = None
    BY DEF Init
  <2>2. \A c \in Cancellers : cancelPc[c] = "idle"
    BY DEF Init
  <2>3. Phases = [m \in Macros |-> "new"]
    BY <2>1, PhaseIs DEF Phases
  <2>4. Typed = [m \in Macros |-> 0] /\ FromBrowser = [m \in Macros |-> FALSE]
    <3>1. Typed = [m \in Macros |-> 0]
      BY <2>1 DEF Typed
    <3>2. \A m \in Macros : (origin[m] # None) = FALSE
      BY <2>1
    <3>3. FromBrowser = [m \in Macros |-> FALSE]
      BY <3>2, Zenon DEF FromBrowser
    <3> QED BY <3>1, <3>3
  <2>5. Started = {}
    BY <2>1 DEF Started
  <2>6. Stopped = {} /\ Covers = [c \in Cancellers |-> {}]
    BY <2>5 DEF Stopped, Covers
  <2>7. Requests = [c \in Cancellers |-> "new"]
    BY <2>2 DEF Requests, RequestOf
  <2> QED BY <2>3, <2>4, <2>6, <2>7
        DEF Service!ServiceInit, Phases, Typed, FromBrowser, Stopped, Requests, Covers
<1>2. IInv /\ IInv' /\ ServiceInv /\ [Next]_vars => [Service!ServiceNext]_Service!serviceVars
  <2> SUFFICES ASSUME IInv, IInv', ServiceInv, [Next]_vars
               PROVE  Service!ServiceNext \/ UNCHANGED Service!serviceVars
    OBVIOUS
  <2>1. ASSUME NEW m \in Macros, MacroTask(m) PROVE Service!ServiceNext \/ UNCHANGED Service!serviceVars
    BY <2>1, TaskImplements
  <2>2. ASSUME NEW m \in Macros, NEW ch \in Channels \cup {None}, StartMacro(m, ch) PROVE Service!ServiceNext
    <3>1. Service!Submit(m, ch # None) /\ (ch # None) \in BOOLEAN
      BY <2>2, SubmitImplements
    <3> QED BY <3>1 DEF Service!ServiceNext
  <2>3. ASSUME NEW c \in Cancellers, BumpEpoch(c) \/ CancelTask(c)
        PROVE  Service!ServiceNext \/ UNCHANGED Service!serviceVars
    <3>1. CASE BumpEpoch(c)
      BY <3>1, AskImplements DEF Service!ServiceNext
    <3>2. CASE CancelToken(c)
      BY <3>2, ReachImplements DEF Service!ServiceNext
    <3>3. CASE AwaitLane(c)
      BY <3>3, UnseenByService
    <3>4. CASE ReturnToCaller(c)
      BY <3>4, ReturnImplements DEF Service!ServiceNext
    <3> QED BY <2>3, <3>1, <3>2, <3>3, <3>4 DEF CancelTask
  <2>4. ASSUME NEW ch \in Channels, CloseChannel(ch) PROVE Service!ServiceNext
    BY <2>4, CloseImplements DEF Service!ServiceNext
  <2>5. CASE \/ \E ch \in Channels : OpenChannel(ch)
             \/ \E owner \in {User, None} : UserReport(owner)
             \/ UNCHANGED vars
    BY <2>5, UnseenByService
  <2> QED BY <2>1, <2>2, <2>3, <2>4, <2>5 DEF Next
<1> QED BY <1>1, <1>2, ServiceInvHolds, PTL DEF Spec, LaneIsTypingService, Service!ServiceSafety
=============================================================================
