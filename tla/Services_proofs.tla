--------------------------- MODULE Services_proofs ---------------------------
(***************************************************************************)
(* Proofs about the services of the device and of its page, for any number *)
(* of channels, chunks, requests, events and dials: the terminals, the      *)
(* jiggler, the relock watch and the page's watch over its peer.           *)
(***************************************************************************)
EXTENDS MCTasks, FiniteSetTheorems, SequenceTheorems, TLAPS

-----------------------------------------------------------------------------
(* The terminals and the serial channels *)

TerminalSpec == TerminalInit /\ [][TerminalNext]_termVars

TermTypes ==
  /\ TerminalTypeOK
  /\ ptmx \in [Terms -> BOOLEAN] /\ stopFlag \in [Terms -> BOOLEAN] /\ crossed \in [Terms -> BOOLEAN]
  /\ sending \in [Terms -> SUBSET Nat] /\ shown \in [Terms -> Seq(Nat)]

\* The open handler and the close: the master is stored after the shell has started, so a shell
\* without a master is one that on_open has not stored yet, or that a crossing close left behind.
OpenInv ==
  \A c \in Terms :
    /\ term[c] = "new" <=> openAt[c] = "idle"
    /\ openAt[c] \in {"idle", "failed"} => shell[c] = "none" /\ ~ptmx[c]
    /\ term[c] = "open" /\ openAt[c] \in {"forward", "done"} => ptmx[c]
    /\ term[c] = "closed" /\ openAt[c] \in {"store", "forward"} => crossed[c]
    /\ term[c] = "closed" /\ ~crossed[c] => shell[c] # "running" /\ ~ptmx[c]

\* What is being sent was read and is not shown yet.
SendingInv == \A c \in Terms : sending[c] \subseteq 1..readOut[c]

\* A reader of a closed channel lives until it has lost its chunk.
Spent == {c \in CdcChannels : cdc[c] = "closed" /\ ~cdcReader[c]}
CdcInv ==
  /\ cdc \in [CdcChannels -> {"new", "open", "closed"}] /\ cdcReader \in [CdcChannels -> BOOLEAN]
  /\ \A c \in CdcChannels : (cdc[c] = "open" => cdcReader[c]) /\ (cdc[c] = "new" => ~cdcReader[c])
  /\ cdcLost \in Nat /\ cdcLost <= Cardinality(Spent)

TermIInv == TermTypes /\ OpenInv /\ SendingInv /\ ShownOnce /\ CdcInv

\* One value of a function is set.
LEMMA SetKeepsType ==
  ASSUME NEW S, NEW T, NEW f \in [S -> T], NEW c \in S, NEW v \in T
  PROVE  /\ Set(f, c, v) \in [S -> T] /\ Set(f, c, v)[c] = v
         /\ \A d \in S \ {c} : Set(f, c, v)[d] = f[d]
BY DEF Set

\* One flag of a function is set.
LEMMA SetBoolean ==
  ASSUME NEW S, NEW f \in [S -> BOOLEAN], NEW c \in S, NEW v \in BOOLEAN
  PROVE  Set(f, c, v) \in [S -> BOOLEAN]
<1> DEFINE T == BOOLEAN
<1>1. f \in [S -> T] /\ v \in T
  OBVIOUS
<1> HIDE DEF T
<1>2. Set(f, c, v) \in [S -> T]
  BY <1>1, SetKeepsType
<1> QED BY <1>2 DEF T

\* Before the first channel.
LEMMA TerminalInitially == TerminalInit => TermIInv
<1> SUFFICES ASSUME TerminalInit PROVE TermIInv
  OBVIOUS
<1>0. MaxOutput \in Nat
  BY TerminalAssumption
<1>1. TermTypes
  <2>1. ptmx \in [Terms -> BOOLEAN] /\ stopFlag \in [Terms -> BOOLEAN] /\ crossed \in [Terms -> BOOLEAN]
    BY DEF TerminalInit
  <2> QED BY <1>0, <2>1 DEF TerminalInit, TermTypes, TerminalTypeOK
<1>2. OpenInv /\ SendingInv
  BY DEF TerminalInit, OpenInv, SendingInv
<1>3. ShownOnce
  BY DEF TerminalInit, ShownOnce, IsInjective, Range
<1>4. CdcInv
  <2>1. Spent = {}
    BY DEF TerminalInit, Spent
  <2>2. Cardinality(Spent) = 0
    BY <2>1, FS_EmptySet
  <2>3. cdcReader \in [CdcChannels -> BOOLEAN]
    BY DEF TerminalInit
  <2> QED BY <2>2, <2>3 DEF TerminalInit, CdcInv
<1> QED BY <1>1, <1>2, <1>3, <1>4 DEF TermIInv

\* The handlers of a channel: the shell, the master, the forwarder, the close, an error.
LEMMA ChannelStep ==
  ASSUME TermIInv, NEW c \in Terms, OnOpen(c) \/ TermTask(c) \/ OnClose(c) \/ OnError(c)
  PROVE  TermIInv'
<1>0. TermTypes /\ OpenInv /\ SendingInv /\ ShownOnce /\ CdcInv /\ TerminalTypeOK
  BY DEF TermIInv, TermTypes
<1>1. UNCHANGED <<readOut, sending, shown, cdcVars>>
  BY DEF OnOpen, TermTask, StoreShell, StartForwarder, ForwarderEnds, OnClose, OnError
<1>2. SendingInv' /\ ShownOnce' /\ CdcInv'
  BY <1>0, <1>1 DEF SendingInv, ShownOnce, CdcInv, Spent, cdcVars
<1>3. /\ term' = term \/ \E v \in {"open", "closed"} : term' = Set(term, c, v)
      /\ openAt' = openAt \/ \E v \in {"store", "forward", "done", "failed"} : openAt' = Set(openAt, c, v)
      /\ shell' = shell \/ \E v \in {"running", "killed"} : shell' = Set(shell, c, v)
      /\ forwarder' = forwarder \/ \E v \in {"running", "ended"} : forwarder' = Set(forwarder, c, v)
  BY DEF OnOpen, TermTask, StoreShell, StartForwarder, ForwarderEnds, OnClose, OnError
<1>4. /\ ptmx' \in {ptmx, Set(ptmx, c, TRUE), Set(ptmx, c, FALSE)}
      /\ stopFlag' \in {stopFlag, Set(stopFlag, c, TRUE), Set(stopFlag, c, FALSE)}
      /\ crossed' \in {crossed, Set(crossed, c, TRUE)}
  BY DEF OnOpen, TermTask, StoreShell, StartForwarder, ForwarderEnds, OnClose, OnError
<1>5. /\ term' \in [Terms -> {"new", "open", "closed"}]
      /\ openAt' \in [Terms -> {"idle", "store", "forward", "done", "failed"}]
      /\ shell' \in [Terms -> {"none", "running", "killed"}]
      /\ forwarder' \in [Terms -> {"none", "running", "ended"}]
  BY <1>0, <1>3 DEF TerminalTypeOK, Set
<1>6. ptmx' \in [Terms -> BOOLEAN] /\ stopFlag' \in [Terms -> BOOLEAN] /\ crossed' \in [Terms -> BOOLEAN]
  <2>1. ptmx \in [Terms -> BOOLEAN] /\ stopFlag \in [Terms -> BOOLEAN] /\ crossed \in [Terms -> BOOLEAN]
    BY <1>0 DEF TermTypes
  <2>2. TRUE \in BOOLEAN /\ FALSE \in BOOLEAN
    OBVIOUS
  <2>3. /\ Set(ptmx, c, TRUE) \in [Terms -> BOOLEAN] /\ Set(ptmx, c, FALSE) \in [Terms -> BOOLEAN]
        /\ Set(stopFlag, c, TRUE) \in [Terms -> BOOLEAN] /\ Set(stopFlag, c, FALSE) \in [Terms -> BOOLEAN]
        /\ Set(crossed, c, TRUE) \in [Terms -> BOOLEAN]
    BY <2>1, <2>2, SetBoolean, Zenon
  <2> QED BY <1>4, <2>1, <2>3, Zenon
<1>7. TermTypes'
  BY <1>0, <1>1, <1>5, <1>6 DEF TermTypes, TerminalTypeOK
<1>8. OpenInv'
  <2>1. SUFFICES ASSUME NEW d \in Terms
        PROVE  /\ term'[d] = "new" <=> openAt'[d] = "idle"
               /\ openAt'[d] \in {"idle", "failed"} => shell'[d] = "none" /\ ~ptmx'[d]
               /\ term'[d] = "open" /\ openAt'[d] \in {"forward", "done"} => ptmx'[d]
               /\ term'[d] = "closed" /\ openAt'[d] \in {"store", "forward"} => crossed'[d]
               /\ term'[d] = "closed" /\ ~crossed'[d] => shell'[d] # "running" /\ ~ptmx'[d]
    BY DEF OpenInv
  <2>2. CASE d # c
    <3>1. /\ term'[d] = term[d] /\ openAt'[d] = openAt[d] /\ shell'[d] = shell[d]
          /\ ptmx'[d] = ptmx[d] /\ crossed'[d] = crossed[d]
      BY <1>0, <1>3, <1>4, <2>2 DEF TermTypes, TerminalTypeOK, Set
    <3> QED BY <1>0, <3>1 DEF OpenInv
  <2>3. CASE d = c
    <3>1. CASE OnOpen(c)
      BY <1>0, <2>3, <3>1 DEF OnOpen, OpenInv, TermTypes, TerminalTypeOK, Set
    <3>2. CASE StoreShell(c)
      BY <1>0, <2>3, <3>2 DEF StoreShell, OpenInv, TermTypes, TerminalTypeOK, Set
    <3>3. CASE StartForwarder(c)
      BY <1>0, <2>3, <3>3 DEF StartForwarder, OpenInv, TermTypes, TerminalTypeOK, Set
    <3>4. CASE ForwarderEnds(c)
      BY <1>0, <2>3, <3>4 DEF ForwarderEnds, OpenInv, TermTypes, TerminalTypeOK, Set
    <3>5. CASE OnClose(c)
      BY <1>0, <2>3, <3>5 DEF OnClose, OpenInv, TermTypes, TerminalTypeOK, Set
    <3>6. CASE OnError(c)
      BY <1>0, <2>3, <3>6 DEF OnError, OpenInv, TermTypes, TerminalTypeOK, Set
    <3> QED BY <3>1, <3>2, <3>3, <3>4, <3>5, <3>6 DEF TermTask
  <2> QED BY <2>2, <2>3
<1> QED BY <1>2, <1>7, <1>8 DEF TermIInv

\* A chunk that is new to a sequence of different chunks keeps them different.
LEMMA AppendNew ==
  ASSUME NEW S, NEW s \in Seq(S), IsInjective(s), NEW e \in S, e \notin Range(s)
  PROVE  Append(s, e) \in Seq(S) /\ IsInjective(Append(s, e)) /\ Range(Append(s, e)) = Range(s) \cup {e}
<1>1. /\ Append(s, e) \in Seq(S) /\ Len(Append(s, e)) = Len(s) + 1 /\ Len(s) \in Nat
      /\ DOMAIN Append(s, e) = 1..(Len(s) + 1) /\ DOMAIN s = 1..Len(s)
      /\ Append(s, e)[Len(s) + 1] = e /\ \A i \in 1..Len(s) : Append(s, e)[i] = s[i]
  BY AppendProperties, LenProperties
<1>2. \A i \in 1..Len(s) : s[i] # e
  BY <1>1 DEF Range
<1>3. \A i, j \in 1..Len(s) : s[i] = s[j] => i = j
  BY <1>1 DEF IsInjective
<1> DEFINE t == Append(s, e)
<1> HIDE DEF t
<1>4. \A i, j \in 1..(Len(s) + 1) : t[i] = t[j] => i = j
  BY <1>1, <1>2, <1>3 DEF t
<1>5. IsInjective(t)
  BY <1>1, <1>4 DEF IsInjective, t
<1>6. Range(t) = Range(s) \cup {e}
  <2>1. \A i \in 1..(Len(s) + 1) : t[i] \in Range(s) \cup {e}
    BY <1>1 DEF Range, t
  <2>2. (\A i \in 1..Len(s) : s[i] = t[i]) /\ e = t[Len(s) + 1]
    BY <1>1 DEF t
  <2>3. DOMAIN t = 1..(Len(s) + 1) /\ 1..Len(s) \subseteq DOMAIN t /\ Len(s) + 1 \in DOMAIN t
    BY <1>1 DEF t
  <2> QED BY <1>1, <2>1, <2>2, <2>3 DEF Range
<1> QED BY <1>1, <1>5, <1>6 DEF t

\* The forwarder reads, and the tasks it spawns send.
LEMMA OutputStep ==
  ASSUME TermIInv, NEW c \in Terms, ForwardOutput(c) \/ \E n \in 1..MaxOutput : SendOutput(c, n)
  PROVE  TermIInv'
<1>0. /\ TermTypes /\ OpenInv /\ SendingInv /\ ShownOnce /\ CdcInv /\ TerminalTypeOK /\ MaxOutput \in Nat
      /\ sending \in [Terms -> SUBSET Nat] /\ shown \in [Terms -> Seq(Nat)] /\ readOut \in [Terms -> 0..MaxOutput]
  BY TerminalAssumption DEF TermIInv, TermTypes, TerminalTypeOK
<1>1. UNCHANGED <<term, openAt, shell, ptmx, stopFlag, forwarder, crossed, cdcVars>>
  BY DEF ForwardOutput, SendOutput
<1>2. OpenInv' /\ CdcInv'
  BY <1>0, <1>1 DEF OpenInv, CdcInv, Spent, cdcVars
<1>3. ASSUME readOut' \in [Terms -> 0..MaxOutput], sending' \in [Terms -> SUBSET Nat], shown' \in [Terms -> Seq(Nat)]
      PROVE  TermTypes'
  BY <1>0, <1>1, <1>3 DEF TermTypes, TerminalTypeOK
<1>4. CASE ForwardOutput(c)
  <2>1. /\ readOut' \in [Terms -> 0..MaxOutput] /\ sending' \in [Terms -> SUBSET Nat] /\ shown' = shown
        /\ readOut'[c] = readOut[c] + 1 /\ sending'[c] = sending[c] \cup {readOut[c] + 1}
        /\ \A d \in Terms \ {c} : readOut'[d] = readOut[d] /\ sending'[d] = sending[d]
    BY <1>0, <1>4 DEF ForwardOutput
  <2>2. SendingInv'
    <3>1. SUFFICES ASSUME NEW d \in Terms PROVE sending'[d] \subseteq 1..readOut'[d]
      BY DEF SendingInv
    <3>2. sending[d] \subseteq 1..readOut[d] /\ readOut[d] \in Nat
      BY <1>0 DEF SendingInv
    <3> QED BY <2>1, <3>2
  <2>3. ShownOnce'
    <3>1. SUFFICES ASSUME NEW d \in Terms
          PROVE  /\ IsInjective(shown[d]) /\ Range(shown[d]) \subseteq 1..readOut'[d]
                 /\ Range(shown[d]) \cap sending'[d] = {}
      BY <2>1 DEF ShownOnce
    <3>2. /\ IsInjective(shown[d]) /\ Range(shown[d]) \subseteq 1..readOut[d] /\ Range(shown[d]) \cap sending[d] = {}
          /\ readOut[d] \in Nat
      BY <1>0 DEF ShownOnce
    <3> DEFINE R == Range(shown[d])
    <3> HIDE DEF R
    <3>3. R \subseteq 1..readOut'[d] /\ R \cap sending'[d] = {}
      BY <2>1, <3>2 DEF R
    <3> QED BY <3>2, <3>3 DEF R
  <2> QED BY <1>0, <1>2, <1>3, <2>1, <2>2, <2>3 DEF TermIInv
<1>5. ASSUME NEW n \in 1..MaxOutput, SendOutput(c, n) PROVE TermIInv'
  <2>1. /\ readOut' = readOut /\ sending' \in [Terms -> SUBSET Nat]
        /\ n \in sending[c] /\ sending'[c] = sending[c] \ {n} /\ n \in 1..readOut[c]
        /\ \A d \in Terms \ {c} : sending'[d] = sending[d]
    BY <1>0, <1>5 DEF SendOutput, SendingInv
  <2>2. n \notin Range(shown[c]) /\ IsInjective(shown[c]) /\ shown[c] \in Seq(Nat) /\ n \in Nat
    BY <1>0, <2>1 DEF ShownOnce
  <2>3. /\ Append(shown[c], n) \in Seq(Nat) /\ IsInjective(Append(shown[c], n))
        /\ Range(Append(shown[c], n)) = Range(shown[c]) \cup {n}
    BY <2>2, AppendNew
  <2>4. /\ shown' \in [Terms -> Seq(Nat)] /\ shown'[c] \in {shown[c], Append(shown[c], n)}
        /\ \A d \in Terms \ {c} : shown'[d] = shown[d]
    BY <1>0, <1>5, <2>3 DEF SendOutput
  <2>5. SendingInv'
    BY <1>0, <2>1 DEF SendingInv
  <2>6. ShownOnce'
    BY <1>0, <2>1, <2>2, <2>3, <2>4 DEF ShownOnce
  <2> QED BY <1>0, <1>2, <1>3, <2>1, <2>4, <2>5, <2>6 DEF TermIInv
<1> QED BY <1>4, <1>5

\* The CDC-ACM channels: each close leaves a reader that loses one chunk.
LEMMA CdcStep ==
  ASSUME TermIInv, NEW c \in CdcChannels, CdcOpen(c) \/ CdcClose(c) \/ CdcForward(c)
  PROVE  TermIInv'
<1>0. /\ TermTypes /\ OpenInv /\ SendingInv /\ ShownOnce /\ CdcInv
      /\ cdcReader \in [CdcChannels -> BOOLEAN] /\ cdc \in [CdcChannels -> {"new", "open", "closed"}]
      /\ cdcLost \in Nat /\ cdcLost <= Cardinality(Spent)
  BY DEF TermIInv, CdcInv
<1>1. UNCHANGED terminalVars
  BY DEF CdcOpen, CdcClose, CdcForward
<1>2. TermTypes' /\ OpenInv' /\ SendingInv' /\ ShownOnce'
  BY <1>0, <1>1 DEF TermTypes, TerminalTypeOK, OpenInv, SendingInv, ShownOnce, terminalVars
<1>3. IsFiniteSet(Spent) /\ Cardinality(Spent) \in Nat
  <2>1. Spent \subseteq CdcChannels
    BY DEF Spent
  <2> QED BY <2>1, TerminalAssumption, FS_Subset, FS_CardinalityType
<1>4. CASE CdcOpen(c)
  <2>1. cdcReader' \in [CdcChannels -> BOOLEAN] /\ cdc' \in [CdcChannels -> {"new", "open", "closed"}]
    BY <1>0, <1>4, SetKeepsType DEF CdcOpen
  <2>2. Spent' = Spent /\ cdcLost' = cdcLost
    BY <1>0, <1>4 DEF CdcOpen, Spent, Set
  <2>3. CdcInv'
    BY <1>0, <1>4, <2>1, <2>2 DEF CdcOpen, CdcInv, Set
  <2> QED BY <1>2, <2>3 DEF TermIInv
<1>5. CASE CdcClose(c)
  <2>1. cdcReader' = cdcReader /\ cdc' \in [CdcChannels -> {"new", "open", "closed"}]
    BY <1>0, <1>5, SetKeepsType DEF CdcClose
  <2>2. Spent' = Spent /\ cdcLost' = cdcLost
    BY <1>0, <1>5 DEF CdcClose, CdcInv, Spent, Set
  <2>3. CdcInv'
    BY <1>0, <1>5, <2>1, <2>2 DEF CdcClose, CdcInv, Set
  <2> QED BY <1>2, <2>3 DEF TermIInv
<1>6. CASE CdcForward(c)
  <2>1. cdc' = cdc /\ cdcReader' = Set(cdcReader, c, cdc[c] = "open") /\ cdcReader[c]
    BY <1>6 DEF CdcForward
  <2>2. cdcReader' \in [CdcChannels -> BOOLEAN]
    <3>1. (cdc[c] = "open") \in BOOLEAN
      BY Zenon
    <3> QED BY <1>0, <2>1, <3>1, SetKeepsType
  <2>3. /\ \A d \in CdcChannels \ {c} : cdcReader'[d] <=> cdcReader[d]
        /\ cdcReader'[c] <=> cdc[c] = "open"
    BY <1>0, <2>1 DEF Set
  <2>4. CASE cdc[c] = "open"
    <3>1. Spent' = Spent /\ cdcLost' = cdcLost
      BY <1>6, <2>1, <2>3, <2>4 DEF CdcForward, Spent
    <3> QED BY <1>0, <1>2, <2>1, <2>2, <2>3, <3>1 DEF CdcInv, TermIInv
  <2>5. CASE cdc[c] # "open"
    <3>1. cdc[c] = "closed"
      BY <1>0, <2>1, <2>5 DEF CdcInv
    <3>2. Spent' = Spent \cup {c} /\ c \notin Spent /\ cdcLost' = cdcLost + 1
      BY <1>6, <2>1, <2>3, <3>1 DEF CdcForward, Spent
    <3>3. Cardinality(Spent') = Cardinality(Spent) + 1
      BY <1>3, <3>2, FS_AddElement
    <3>4. cdcLost' \in Nat /\ cdcLost' <= Cardinality(Spent')
      BY <1>0, <1>3, <3>2, <3>3
    <3> QED BY <1>0, <1>2, <2>1, <2>2, <2>3, <2>5, <3>4 DEF CdcInv, TermIInv
  <2> QED BY <2>4, <2>5
<1> QED BY <1>4, <1>5, <1>6

\* For any number of terminals, serial channels and chunks: a terminal that closed without crossing
\* its open leaves no shell, the browser shows what was read and nothing twice, and each closed
\* serial channel costs the open one a chunk at most (terminal.rs, data_channel.rs).
THEOREM TermInvHolds == TerminalSpec => []TermInv
<1>1. TermIInv /\ [TerminalNext]_termVars => TermIInv'
  <2> SUFFICES ASSUME TermIInv, [TerminalNext]_termVars PROVE TermIInv'
    OBVIOUS
  <2>1. CASE TerminalNext
    BY <2>1, ChannelStep, OutputStep, CdcStep DEF TerminalNext
  <2>2. CASE UNCHANGED termVars
    <3>1. UNCHANGED <<terminalVars, cdcVars>>
      BY <2>2 DEF termVars
    <3>2. TermTypes' /\ OpenInv' /\ SendingInv' /\ ShownOnce'
      BY <3>1 DEF terminalVars, TermIInv, TermTypes, TerminalTypeOK, OpenInv, SendingInv, ShownOnce
    <3>3. CdcInv'
      BY <3>1 DEF cdcVars, TermIInv, CdcInv, Spent
    <3> QED BY <3>2, <3>3 DEF TermIInv
  <2> QED BY <2>1, <2>2
<1>2. TermIInv => TermInv
  <2> SUFFICES ASSUME TermIInv PROVE TermInv
    OBVIOUS
  <2>1. TermTypes /\ OpenInv /\ ShownOnce /\ CdcInv
    BY DEF TermIInv
  <2>2. ClosedReapsShell
    BY <2>1 DEF OpenInv, ClosedReapsShell
  <2>3. CdcLosesOnePerClose
    <3> DEFINE closed == {c \in CdcChannels : cdc[c] = "closed"}
    <3>1. Spent \subseteq closed /\ closed \subseteq CdcChannels
      BY DEF Spent
    <3>2. IsFiniteSet(closed)
      BY <3>1, TerminalAssumption, FS_Subset
    <3>3. IsFiniteSet(Spent) /\ Cardinality(Spent) <= Cardinality(closed)
      BY <3>1, <3>2, FS_Subset
    <3>4. Cardinality(Spent) \in Nat /\ Cardinality(closed) \in Nat
      BY <3>2, <3>3, FS_CardinalityType
    <3> QED BY <2>1, <3>3, <3>4 DEF CdcInv, CdcLosesOnePerClose
  <2> QED BY <2>1, <2>2, <2>3 DEF TermInv, TermTypes
<1> QED BY <1>1, <1>2, TerminalInitially, PTL DEF TerminalSpec

-----------------------------------------------------------------------------
(* The jiggler *)

JigSpec == JigglerInit /\ [][JigglerNext]_jigVars

\* The places of a request before it has stored its token.
Restarting == {r \in JigReqs : jigReq[r] \in {"take", "takeAgain", "store"}}

\* What the handlers keep true between their steps: a token is missing only while a request is about
\* to store one; the stored one is not cancelled and has, or is about to get, its loop; and a loop
\* of it with an old configuration meets a request that has still to cancel it.
TokenInv ==
  /\ jigToken = NoToken => Restarting # {}
  /\ jigToken \notin cancelled
  /\ \A r \in JigReqs : r \in cancelled \cup {jigToken} => jigReq[r] \in {"spawn", "done"}
  /\ \A r \in JigReqs : loop[r] # "none" <=> jigReq[r] = "done"
  /\ loop[JigBoot] # "none"
  /\ (jigToken # NoToken /\ Running(jigToken) /\ loopConf[jigToken] # jigConf) => \E r \in JigReqs : jigReq[r] = "take"

\* Requests one after the other: the one that stores its token finds none, and every loop that
\* nothing has cancelled is the token's.
SerialInv ==
  ~jigOverlap =>
    /\ \A r, q \in Requesting : r = q
    /\ \A r \in JigReqs : jigReq[r] \in {"takeAgain", "store"} => jigToken = NoToken
    /\ \A r \in JigReqs : jigReq[r] = "spawn" => jigToken = r
    /\ \A l \in JigLoops \ cancelled : loop[l] # "none" => l = jigToken

JigIInv == JigglerTypeOK /\ TokenInv /\ SerialInv

\* main's restart at boot is done.
LEMMA JigInitially == JigglerInit => JigIInv
<1> SUFFICES ASSUME JigglerInit PROVE JigIInv
  OBVIOUS
<1>1. "boot" \notin JigReqs /\ "none" \notin JigReqs
  BY JigglerAssumption
<1>2. JigglerTypeOK
  <2>1. jigOverlap \in BOOLEAN /\ jigEnabled \in BOOLEAN /\ idle \in BOOLEAN
    BY DEF JigglerInit
  <2> QED BY <2>1 DEF JigglerInit, JigglerTypeOK, JigLoops, JigBoot
<1>3. TokenInv
  BY <1>1 DEF JigglerInit, TokenInv, Restarting, JigBoot, NoToken, Running, JigLoops
<1>4. SerialInv
  BY <1>1 DEF JigglerInit, SerialInv, Requesting, JigBoot, NoToken, JigLoops
<1> QED BY <1>2, <1>3, <1>4 DEF JigIInv

\* The handler of setJigglerConfig: the configuration, the token, the loop.
LEMMA JigRequestStep ==
  ASSUME JigIInv, NEW r \in JigReqs, JigHandler(r) \/ \E c \in JigConfs : StoreConf(r, c)
  PROVE  JigIInv'
<1>0. JigglerTypeOK /\ TokenInv /\ SerialInv /\ "boot" \notin JigReqs /\ "none" \notin JigReqs /\ r # "boot" /\ r # "none"
  BY JigglerAssumption DEF JigIInv
<1> USE <1>0 DEF JigLoops, JigBoot, NoToken
<1>1. ASSUME NEW c \in JigConfs, StoreConf(r, c) PROVE JigIInv'
  <2>1. JigglerTypeOK'
    <3>1. jigOverlap' \in BOOLEAN
      BY <1>1, Zenon DEF StoreConf
    <3> QED BY <1>1, <3>1 DEF StoreConf, JigglerTypeOK
  <2>2. TokenInv'
    BY <1>1 DEF StoreConf, JigglerTypeOK, TokenInv, Restarting, Running
  <2>3. SerialInv'
    <3>1. SUFFICES ASSUME ~jigOverlap' PROVE SerialInv'
      BY DEF SerialInv
    <3>2. ~jigOverlap /\ Requesting = {}
      BY <1>1, <3>1 DEF StoreConf
    <3> QED BY <1>1, <3>2 DEF StoreConf, JigglerTypeOK, SerialInv, Requesting
  <2> QED BY <2>1, <2>2, <2>3 DEF JigIInv
<1>2. ASSUME NEW from \in {"take", "takeAgain"}, NEW to \in {"takeAgain", "store"}, CancelCron(r, from, to) PROVE JigIInv'
  <2>1. JigglerTypeOK'
    BY <1>2 DEF CancelCron, JigglerTypeOK
  <2>2. TokenInv'
    BY <1>2 DEF CancelCron, JigglerTypeOK, TokenInv, Restarting, Running
  <2>3. SerialInv'
    BY <1>2 DEF CancelCron, JigglerTypeOK, SerialInv, Requesting
  <2> QED BY <2>1, <2>2, <2>3 DEF JigIInv
<1>3. ASSUME StoreToken(r) PROVE JigIInv'
  <2>1. JigglerTypeOK'
    BY <1>3 DEF StoreToken, JigglerTypeOK
  <2>2. TokenInv'
    BY <1>3 DEF StoreToken, JigglerTypeOK, TokenInv, Restarting, Running
  <2>3. SerialInv'
    BY <1>3 DEF StoreToken, JigglerTypeOK, SerialInv, Requesting
  <2> QED BY <2>1, <2>2, <2>3 DEF JigIInv
<1>4. ASSUME SpawnLoop(r) PROVE JigIInv'
  <2>1. JigglerTypeOK'
    BY <1>4 DEF SpawnLoop, JigglerTypeOK
  <2>2. TokenInv'
    BY <1>4 DEF SpawnLoop, JigglerTypeOK, TokenInv, Restarting, Running
  <2>3. SerialInv'
    BY <1>4 DEF SpawnLoop, JigglerTypeOK, SerialInv, Requesting
  <2> QED BY <2>1, <2>2, <2>3 DEF JigIInv
<1> QED BY <1>1, <1>2, <1>3, <1>4 DEF JigHandler

\* The steps of a loop, and what the user does meanwhile.
LEMMA JigLoopsStep ==
  ASSUME JigIInv, (\E l \in JigLoops : JigLoopStep(l)) \/ (\E on \in BOOLEAN : SetEnabled(on)) \/ UserInput \/ TimePasses
  PROVE  JigIInv'
<1>0. JigglerTypeOK /\ TokenInv /\ SerialInv
  BY DEF JigIInv
<1>1. ASSUME NEW l \in JigLoops, JigLoopStep(l) PROVE JigIInv'
  <2>1. PICK place \in {"wait", "jitter", "due", "ended"} :
          /\ loop' = [loop EXCEPT ![l] = place]
          /\ UNCHANGED <<jigConf, jigToken, jigEnabled, idle, jigReq, cancelled, jigOverlap>>
          /\ loop[l] # "none" /\ (place = "ended" => l \in cancelled)
          /\ \/ loopConf' = [loopConf EXCEPT ![l] = jigConf]
             \/ UNCHANGED loopConf /\ Running(l)
    BY <1>1 DEF JigLoopStep, LoopStart, LoopTick, LoopLook, DoJiggle, LoopCancelled, Running
  <2>2. JigglerTypeOK'
    BY <1>0, <2>1 DEF JigglerTypeOK
  <2>3. TokenInv'
    BY <1>0, <2>1 DEF JigglerTypeOK, TokenInv, Restarting, Running, JigLoops, JigBoot, NoToken
  <2>4. SerialInv'
    BY <1>0, <2>1 DEF JigglerTypeOK, SerialInv, Requesting
  <2> QED BY <2>2, <2>3, <2>4 DEF JigIInv
<1>2. ASSUME (\E on \in BOOLEAN : SetEnabled(on)) \/ UserInput \/ TimePasses PROVE JigIInv'
  <2>1. /\ UNCHANGED <<jigConf, jigToken, jigReq, loop, loopConf, cancelled, jigOverlap>>
        /\ jigEnabled' \in BOOLEAN /\ idle' \in BOOLEAN
    <3>1. jigEnabled \in BOOLEAN /\ idle \in BOOLEAN
      BY <1>0 DEF JigglerTypeOK
    <3> QED BY <1>2, <3>1, Zenon DEF SetEnabled, UserInput, TimePasses
  <2>2. JigglerTypeOK'
    BY <1>0, <2>1 DEF JigglerTypeOK
  <2>3. TokenInv' /\ SerialInv'
    BY <1>0, <2>1 DEF TokenInv, SerialInv, Requesting, Restarting, Running
  <2> QED BY <2>2, <2>3 DEF JigIInv
<1> QED BY <1>1, <1>2

\* However setJigglerConfig requests overlap, the loop of the stored token lives and uses the latest
\* configuration, and it is the only one if they did not (run_jiggler_cron_tab).
THEOREM JigInvHolds == JigSpec => []JigInv
<1>1. JigIInv /\ [JigglerNext]_jigVars => JigIInv'
  <2> SUFFICES ASSUME JigIInv, [JigglerNext]_jigVars PROVE JigIInv'
    OBVIOUS
  <2>1. CASE JigglerNext
    BY <2>1, JigRequestStep, JigLoopsStep DEF JigglerNext
  <2>2. CASE UNCHANGED jigVars
    BY <2>2 DEF jigVars, JigIInv, JigglerTypeOK, TokenInv, SerialInv, Requesting, Restarting, Running
  <2> QED BY <2>1, <2>2
<1>2. JigIInv => JigInv
  <2> SUFFICES ASSUME JigIInv PROVE JigInv
    OBVIOUS
  <2>1. JigglerTypeOK /\ TokenInv /\ SerialInv
    BY DEF JigIInv
  <2>2. JigglerUsesLatest
    BY <2>1 DEF JigglerTypeOK, TokenInv, JigglerUsesLatest, Requesting, Restarting, JigLoops
  <2>3. OneLoopUnlessOverlap
    BY <2>1 DEF SerialInv, OneLoopUnlessOverlap
  <2> QED BY <2>1, <2>2, <2>3 DEF JigInv
<1> QED BY <1>1, <1>2, JigInitially, PTL DEF JigSpec

-----------------------------------------------------------------------------
(* The relock watch *)

RelockSpec == RelockInit /\ [][RelockNext]_relockVars

Windowed == [age : 0..Window, n : 1..MaxPerTick]

RelockTypes ==
  /\ counted \in 0..MaxPerTick /\ arrived \in 0..MaxPerTick /\ attempts \in 0..MaxAttempts
  /\ lastReplug \in {Forever} \cup 0..Horizon /\ verdict \in {"quiet", "storm", "replug"}
  /\ recent \in Seq(Windowed) /\ pulse \in {"idle", "off", "on"}
  /\ hpd \in BOOLEAN /\ hpdFaults \in 0..MaxHpdFaults /\ realAge \in 0..Horizon

\* The entries are in the order of their arrival, so that the ones too old come first.
OldestFirst == \A i, j \in 1..Len(recent) : i < j => recent[i].age > recent[j].age

\* Hot-plug detect is low only inside a pulse or after five failed attempts to raise it.
PulseInv ==
  /\ pulse # "on" => hpd \/ hpdFaults = HpdRetries
  /\ pulse = "on" => hpdFaults < HpdRetries

\* An episode is open exactly while a replug is remembered, and one that is over lies Settle back.
EpisodeInv ==
  /\ attempts = 0 <=> lastReplug = Forever
  /\ lastReplug = Forever => realAge >= Settle
  /\ lastReplug # Forever => realAge = lastReplug

RelockIInv == RelockTypes /\ OldestFirst /\ PulseInv /\ EpisodeInv

\* The smaller of two numbers.
LEMMA MinOfTwo ==
  ASSUME NEW a \in Int, NEW b \in Int
  PROVE  Min({a, b}) = IF a <= b THEN a ELSE b
BY DEF Min

\* The constants as numbers.
LEMMA RelockNumbers ==
  /\ Window \in Nat /\ Threshold \in Nat /\ Settle \in Nat \ {0} /\ BackoffBase \in Nat /\ BackoffMax \in Nat
  /\ MaxPerTick \in Nat \ {0} /\ MaxHpdFaults \in Nat
  /\ Horizon \in Nat /\ Horizon >= Settle /\ MaxAttempts = 7 /\ HpdRetries = 5 /\ Forever = -1
BY RelockAssumption DEF Horizon, MaxAttempts, HpdRetries, Forever

\* A set of naturals with a member has a least one.
LEMMA LeastIndex ==
  ASSUME NEW S \in SUBSET Nat, S # {}
  PROVE  Min(S) \in S /\ \A k \in S : Min(S) <= k
<1> DEFINE below == {p \in Nat \X Nat : p[1] < p[2]}
<1>1. IsWellFoundedOn(below, Nat)
  <2>1. OpToRel(<, Nat) = below
    BY DEF OpToRel
  <2> QED BY <2>1, NatLessThanWellFounded
<1>2. \E m \in S : \A k \in S : <<k, m>> \notin below
  <2>1. S \subseteq Nat
    OBVIOUS
  <2> HIDE DEF below
  <2> QED BY <1>1, <2>1, WFMin, Zenon
<1>3. \E m \in S : \A k \in S : m <= k
  <2>1. PICK m \in S : \A k \in S : <<k, m>> \notin below
    BY <1>2
  <2>2. \A k \in S : m <= k
    <3>1. TAKE k \in S
    <3>2. k \in Nat /\ m \in Nat /\ <<k, m>> \notin below
      BY <2>1
    <3>3. ~(k < m)
      BY <3>2
    <3> QED BY <3>2, <3>3
  <2> QED BY <2>2
<1> QED BY <1>3 DEF Min

\* Before the first event.
LEMMA RelockInitially == RelockInit => RelockIInv
<1> SUFFICES ASSUME RelockInit PROVE RelockIInv
  OBVIOUS
<1>1. RelockTypes
  BY RelockNumbers DEF RelockInit, RelockTypes
<1>2. OldestFirst /\ PulseInv /\ EpisodeInv
  BY RelockNumbers DEF RelockInit, OldestFirst, PulseInv, EpisodeInv
<1> QED BY <1>1, <1>2 DEF RelockIInv

\* The window slides: what stays is inside it and in the order of arrival.
LEMMA SlideKeeps ==
  ASSUME NEW q \in Seq(Windowed), \A i, j \in 1..Len(q) : i < j => q[i].age > q[j].age, NEW events \in 0..MaxPerTick
  PROVE  /\ Slide(q, events) \in Seq(Windowed)
         /\ \A i, j \in 1..Len(Slide(q, events)) : i < j => Slide(q, events)[i].age > Slide(q, events)[j].age
<1> DEFINE Aged == [age : 0..(Window + 1), n : 1..MaxPerTick]
           aged == [i \in 1..Len(q) |-> [q[i] EXCEPT !.age = @ + 1]]
           all == IF events > 0 THEN Append(aged, [age |-> 0, n |-> events]) ELSE aged
           kept == {i \in 1..Len(all) : all[i].age <= Window}
<1>0. Window \in Nat /\ MaxPerTick \in Nat
  BY RelockNumbers
<1>1. Slide(q, events) = IF kept = {} THEN << >> ELSE SubSeq(all, Min(kept), Len(all))
  BY DEF Slide
<1>2. /\ aged \in Seq(Aged) /\ Len(aged) = Len(q) /\ Len(q) \in Nat
      /\ \A i \in 1..Len(q) : aged[i].age = q[i].age + 1 /\ q[i].age \in 0..Window
  <2>1. Len(q) \in Nat /\ \A i \in 1..Len(q) : q[i] \in Windowed
    OBVIOUS
  <2>2. \A i \in 1..Len(q) : [q[i] EXCEPT !.age = @ + 1] \in Aged /\ [q[i] EXCEPT !.age = @ + 1].age = q[i].age + 1
    <3>1. SUFFICES ASSUME NEW i \in 1..Len(q)
                   PROVE  [q[i] EXCEPT !.age = @ + 1] \in Aged /\ [q[i] EXCEPT !.age = @ + 1].age = q[i].age + 1
      OBVIOUS
    <3>2. q[i] = [age |-> q[i].age, n |-> q[i].n] /\ q[i].age \in 0..Window /\ q[i].n \in 1..MaxPerTick
      BY <2>1 DEF Windowed
    <3> QED BY <1>0, <3>2, SMTT(30)
  <2>3. aged \in Seq(Aged) /\ Len(aged) = Len(q)
    BY <2>1, <2>2
  <2> QED BY <1>0, <2>1, <2>2, <2>3 DEF Windowed
<1> HIDE DEF aged
<1>3. \A i, j \in 1..Len(aged) : i < j => aged[i].age > aged[j].age
  <2>1. SUFFICES ASSUME NEW i \in 1..Len(q), NEW j \in 1..Len(q), i < j PROVE aged[i].age > aged[j].age
    BY <1>2
  <2>2. q[i].age > q[j].age
    BY <2>1
  <2>3. q[i].age \in Int /\ q[j].age \in Int
    BY <1>0, <1>2
  <2>4. aged[i].age = q[i].age + 1 /\ aged[j].age = q[j].age + 1
    BY <1>2
  <2> QED BY <2>2, <2>3, <2>4
<1>4. all \in Seq(Aged) /\ Len(all) \in Nat /\ \A i, j \in 1..Len(all) : i < j => all[i].age > all[j].age
  <2>1. CASE events > 0
    <3> DEFINE e == [age |-> 0, n |-> events]
    <3>1. e \in Aged /\ e.age = 0
      BY <1>0, <2>1
    <3> HIDE DEF e, Aged
    <3>2. /\ Append(aged, e) \in Seq(Aged) /\ Len(Append(aged, e)) = Len(aged) + 1
          /\ Append(aged, e)[Len(aged) + 1] = e /\ \A i \in 1..Len(aged) : Append(aged, e)[i] = aged[i]
      BY <1>2, <3>1, AppendProperties
    <3>3. all = Append(aged, e)
      BY <2>1 DEF e
    <3> HIDE DEF all
    <3>4. \A i, j \in 1..(Len(aged) + 1) : i < j => all[i].age > all[j].age
      <4>1. SUFFICES ASSUME NEW i \in 1..(Len(aged) + 1), NEW j \in 1..(Len(aged) + 1), i < j
                     PROVE  all[i].age > all[j].age
        OBVIOUS
      <4>2. i \in 1..Len(aged) /\ all[i] = aged[i] /\ aged[i].age >= 1
        BY <1>0, <1>2, <3>2, <3>3, <4>1
      <4>3. CASE j \in 1..Len(aged)
        BY <1>3, <3>2, <3>3, <4>1, <4>2, <4>3
      <4>4. CASE j = Len(aged) + 1
        BY <1>0, <1>2, <3>1, <3>2, <3>3, <4>2, <4>4
      <4> QED BY <1>2, <4>3, <4>4
    <3> QED BY <1>2, <3>2, <3>3, <3>4
  <2>2. CASE ~(events > 0)
    BY <1>2, <1>3, <2>2
  <2> QED BY <2>1, <2>2
<1> HIDE DEF all
<1>5. CASE kept = {}
  BY <1>1, <1>5
<1>6. CASE kept # {}
  <2> DEFINE m == Min(kept)
             slid == SubSeq(all, m, Len(all))
  <2>1. m \in kept
    <3>1. kept \in SUBSET Nat
      BY <1>4
    <3> HIDE DEF kept
    <3> QED BY <1>6, <3>1, LeastIndex
  <2>2. m \in 1..Len(all) /\ all[m].age <= Window
    BY <2>1
  <2> HIDE DEF m
  <2>3. \A i \in m..Len(all) : all[i] \in Windowed
    <3>1. SUFFICES ASSUME NEW i \in m..Len(all) PROVE all[i] \in Windowed
      OBVIOUS
    <3>2. i \in 1..Len(all) /\ all[i] \in Aged /\ all[m] \in Aged
      <4> HIDE DEF Aged
      <4> QED BY <1>4, <2>2
    <3>3. all[i].age <= all[m].age
      <4>1. all[i].age \in Int /\ all[m].age \in Int
        BY <1>0, <3>2
      <4>2. CASE i = m
        BY <4>1, <4>2
      <4>3. CASE i # m
        <5>1. m < i
          BY <2>2, <4>3
        <5> HIDE DEF Aged
        <5>2. all[m].age > all[i].age
          BY <1>4, <2>2, <3>2, <5>1
        <5> QED BY <4>1, <5>2
      <4> QED BY <4>2, <4>3
    <3> QED BY <1>0, <2>2, <3>2, <3>3 DEF Windowed
  <2>4. /\ slid \in Seq(Windowed) /\ Len(slid) = Len(all) - m + 1
        /\ \A i \in 1..(Len(all) - m + 1) : slid[i] = all[m + i - 1]
    BY <1>4, <2>2, <2>3, SubSeqProperties
  <2>5. Slide(q, events) = slid
    BY <1>1, <1>6 DEF m
  <2> HIDE DEF slid
  <2>6. \A i, j \in 1..Len(slid) : i < j => slid[i].age > slid[j].age
    <3>1. SUFFICES ASSUME NEW i \in 1..Len(slid), NEW j \in 1..Len(slid), i < j PROVE slid[i].age > slid[j].age
      OBVIOUS
    <3>2. slid[i] = all[m + i - 1] /\ slid[j] = all[m + j - 1]
      BY <2>4, <3>1
    <3>3. Len(slid) = Len(all) - m + 1 /\ m \in 1..Len(all) /\ Len(all) \in Nat
      BY <1>4, <2>2, <2>4
    <3>4. m + i - 1 \in 1..Len(all) /\ m + j - 1 \in 1..Len(all) /\ m + i - 1 < m + j - 1
      BY <3>1, <3>3
    <3>5. all[m + i - 1].age > all[m + j - 1].age
      BY <1>4, <3>4
    <3> QED BY <3>2, <3>5
  <2> QED BY <2>4, <2>5, <2>6
<1> QED BY <1>5, <1>6

\* The backoff is a number, and the same from the fifth attempt of an episode on.
LEMMA BackoffSaturates ==
  /\ \A n \in Nat : Backoff(n) \in Int
  /\ Backoff(6) = Backoff(5)
<1>1. \A n \in Nat : Min({n, 5}) \in Nat
  BY MinOfTwo
<1>2. Min({6, 5}) = 5 /\ Min({5, 5}) = 5
  BY MinOfTwo
<1>3. ASSUME NEW n \in Nat PROVE Backoff(n) \in Int
  <2> DEFINE k == Min({n, 5})
  <2>1. k \in Nat
    BY <1>1
  <2> HIDE DEF k
  <2>2. BackoffBase * 2^k \in Int /\ BackoffMax \in Int
    BY <2>1, RelockNumbers
  <2>3. Min({BackoffBase * 2^k, BackoffMax}) \in Int
    <3> DEFINE b == BackoffBase * 2^k
    <3>1. b \in Int
      BY <2>2
    <3> HIDE DEF b
    <3>2. Min({b, BackoffMax}) \in Int
      BY <2>2, <3>1, MinOfTwo
    <3> QED BY <3>2 DEF b
  <2> QED BY <2>3 DEF Backoff, k
<1> QED BY <1>2, <1>3 DEF Backoff

\* What a tick of the supervisor does, with the minima worked out.
LEMMA TickFacts ==
  ASSUME RelockTypes, EpisodeInv, SupervisorObserves
  PROVE  \E age, q, storm, due, over :
           /\ age \in {Forever} \cup 0..Horizon /\ q = Slide(recent, counted)
           /\ pulse = "idle" /\ counted' = 0 /\ arrived' = 0 /\ UNCHANGED <<hpd, hpdFaults>>
           /\ age = (IF lastReplug = Forever THEN Forever ELSE IF lastReplug < Horizon THEN lastReplug + 1 ELSE Horizon)
           /\ realAge' = (IF due THEN 0 ELSE IF realAge < Horizon THEN realAge + 1 ELSE Horizon)
           /\ due => storm /\ Due(age, attempts)
           /\ over => ~storm /\ age # Forever /\ age >= Settle
           /\ recent' = (IF due THEN << >> ELSE q)
           /\ lastReplug' = (IF due THEN 0 ELSE IF over THEN Forever ELSE age)
           /\ attempts' = (IF due THEN IF attempts < 7 THEN attempts + 1 ELSE 7 ELSE IF over THEN 0 ELSE attempts)
           /\ verdict' = (IF due THEN "replug" ELSE IF storm THEN "storm" ELSE "quiet")
           /\ pulse' = (IF due THEN "off" ELSE "idle")
<1> DEFINE q == Slide(recent, counted)
           age == Older(lastReplug)
           storm == Total(q) >= Threshold
           due == storm /\ Due(age, attempts)
           over == ~storm /\ age # Forever /\ age >= Settle
<1>1. /\ attempts \in 0..7 /\ lastReplug \in {Forever} \cup 0..Horizon /\ realAge \in 0..Horizon
      /\ Horizon \in Nat /\ Forever = -1 /\ MaxAttempts = 7
  BY RelockNumbers DEF RelockTypes
<1>2. age = (IF lastReplug = Forever THEN Forever ELSE IF lastReplug < Horizon THEN lastReplug + 1 ELSE Horizon)
  BY <1>1, MinOfTwo DEF Older
<1>3. Older(realAge) = IF realAge < Horizon THEN realAge + 1 ELSE Horizon
  BY <1>1, MinOfTwo DEF Older
<1>4. Min({attempts + 1, MaxAttempts}) = IF attempts < 7 THEN attempts + 1 ELSE 7
  BY <1>1, MinOfTwo
<1>5. age \in {Forever} \cup 0..Horizon
  BY <1>1, <1>2
<1>7. /\ pulse = "idle" /\ counted' = 0 /\ arrived' = 0 /\ UNCHANGED <<hpd, hpdFaults>>
      /\ recent' = (IF due THEN << >> ELSE q)
      /\ lastReplug' = (IF due THEN 0 ELSE IF over THEN Forever ELSE age)
      /\ attempts' = (IF due THEN Min({attempts + 1, MaxAttempts}) ELSE IF over THEN 0 ELSE attempts)
      /\ verdict' = (IF due THEN "replug" ELSE IF storm THEN "storm" ELSE "quiet")
      /\ pulse' = (IF due THEN "off" ELSE "idle")
      /\ realAge' = (IF due THEN 0 ELSE Older(realAge))
  BY DEF SupervisorObserves
<1>8. (due => storm /\ Due(age, attempts)) /\ (over => ~storm /\ age # Forever /\ age >= Settle)
  OBVIOUS
<1>9. q = Slide(recent, counted)
  OBVIOUS
<1> HIDE DEF q, age, storm, due, over
<1> QED BY <1>2, <1>3, <1>4, <1>5, <1>7, <1>8, <1>9

\* A tick of the supervisor.
LEMMA ObserveStep ==
  ASSUME RelockIInv, SupervisorObserves
  PROVE  RelockIInv'
<1>0. RelockTypes /\ OldestFirst /\ PulseInv /\ EpisodeInv
  BY DEF RelockIInv
<1>1. PICK age, q, storm, due, over :
           /\ age \in {Forever} \cup 0..Horizon /\ q = Slide(recent, counted)
           /\ pulse = "idle" /\ counted' = 0 /\ arrived' = 0 /\ UNCHANGED <<hpd, hpdFaults>>
           /\ age = (IF lastReplug = Forever THEN Forever ELSE IF lastReplug < Horizon THEN lastReplug + 1 ELSE Horizon)
           /\ realAge' = (IF due THEN 0 ELSE IF realAge < Horizon THEN realAge + 1 ELSE Horizon)
           /\ due => storm /\ Due(age, attempts)
           /\ over => ~storm /\ age # Forever /\ age >= Settle
           /\ recent' = (IF due THEN << >> ELSE q)
           /\ lastReplug' = (IF due THEN 0 ELSE IF over THEN Forever ELSE age)
           /\ attempts' = (IF due THEN IF attempts < 7 THEN attempts + 1 ELSE 7 ELSE IF over THEN 0 ELSE attempts)
           /\ verdict' = (IF due THEN "replug" ELSE IF storm THEN "storm" ELSE "quiet")
           /\ pulse' = (IF due THEN "off" ELSE "idle")
  BY <1>0, TickFacts
<1>2. q \in Seq(Windowed) /\ \A i, j \in 1..Len(q) : i < j => q[i].age > q[j].age
  <2>1. recent \in Seq(Windowed) /\ counted \in 0..MaxPerTick /\ q = Slide(recent, counted)
    BY <1>0, <1>1 DEF RelockTypes
  <2>2. \A i, j \in 1..Len(recent) : i < j => recent[i].age > recent[j].age
    BY <1>0 DEF OldestFirst
  <2> QED BY <2>1, <2>2, SlideKeeps
<1>3. recent' \in Seq(Windowed) /\ OldestFirst'
  BY <1>1, <1>2 DEF OldestFirst
<1>4. /\ attempts' \in 0..MaxAttempts /\ lastReplug' \in {Forever} \cup 0..Horizon /\ realAge' \in 0..Horizon
      /\ EpisodeInv'
  BY <1>0, <1>1, RelockNumbers DEF RelockTypes, EpisodeInv
<1>5. /\ counted' \in 0..MaxPerTick /\ arrived' \in 0..MaxPerTick
      /\ verdict' \in {"quiet", "storm", "replug"} /\ pulse' \in {"idle", "off", "on"}
  BY <1>1, RelockNumbers
<1>6. hpd' \in BOOLEAN /\ hpdFaults' \in 0..MaxHpdFaults
  BY <1>0, <1>1 DEF RelockTypes
<1>7. RelockTypes'
  BY <1>3, <1>4, <1>5, <1>6 DEF RelockTypes
<1>8. PulseInv'
  BY <1>0, <1>1 DEF PulseInv
<1> QED BY <1>3, <1>4, <1>7, <1>8 DEF RelockIInv

\* The events, and the pulse.
LEMMA PulseStep ==
  ASSUME RelockIInv, SourceChange \/ StormChanges \/ CountEvent \/ PulseOff \/ PulseOn
  PROVE  RelockIInv'
<1>0. RelockTypes /\ OldestFirst /\ PulseInv /\ EpisodeInv /\ hpd \in BOOLEAN
  BY DEF RelockIInv, RelockTypes
<1>1. UNCHANGED <<recent, lastReplug, attempts, realAge, verdict>>
  BY DEF SourceChange, StormChanges, CountEvent, PulseOff, PulseOn
<1>2. OldestFirst' /\ EpisodeInv'
  BY <1>0, <1>1 DEF OldestFirst, EpisodeInv
<1>3. counted' \in 0..MaxPerTick /\ arrived' \in 0..MaxPerTick
  BY <1>0, RelockNumbers, MinOfTwo DEF RelockTypes, SourceChange, StormChanges, CountEvent, PulseOff, PulseOn
<1>4. hpd' \in BOOLEAN
  <2>1. hpd' = hpd \/ hpd' = TRUE \/ hpd' = FALSE
    BY DEF SourceChange, StormChanges, CountEvent, PulseOff, PulseOn
  <2> QED BY <1>0, <2>1
<1>5. pulse' \in {"idle", "off", "on"} /\ hpdFaults' \in 0..MaxHpdFaults
  BY <1>0, RelockNumbers DEF RelockTypes, SourceChange, StormChanges, CountEvent, PulseOff, PulseOn
<1>6. RelockTypes'
  BY <1>0, <1>1, <1>3, <1>4, <1>5 DEF RelockTypes
<1>7. PulseInv'
  <2>1. CASE SourceChange \/ StormChanges \/ CountEvent
    BY <1>0, <2>1 DEF PulseInv, SourceChange, StormChanges, CountEvent
  <2>2. CASE PulseOff
    BY <1>0, <2>2, RelockNumbers DEF PulseInv, PulseOff
  <2>3. CASE PulseOn
    BY <1>0, <2>3, RelockNumbers DEF PulseInv, PulseOn, RelockTypes
  <2> QED BY <2>1, <2>2, <2>3
<1> QED BY <1>2, <1>6, <1>7 DEF RelockIInv

\* The invariant of the watch, for the theorems below.
LEMMA RelockInductive == RelockSpec => []RelockIInv
<1>1. RelockIInv /\ [RelockNext]_relockVars => RelockIInv'
  <2> SUFFICES ASSUME RelockIInv, [RelockNext]_relockVars PROVE RelockIInv'
    OBVIOUS
  <2>1. CASE RelockNext
    BY <2>1, ObserveStep, PulseStep DEF RelockNext
  <2>2. CASE UNCHANGED relockVars
    BY <2>2 DEF relockVars, RelockIInv, RelockTypes, OldestFirst, PulseInv, EpisodeInv
  <2> QED BY <2>1, <2>2
<1> QED BY <1>1, RelockInitially, PTL DEF RelockSpec

\* For every window, threshold, backoff and number of failing writes: hot-plug detect is up between
\* pulses unless all five attempts to raise it failed (pulse_hotplug).
THEOREM RelockInvHolds == RelockSpec => []RelockInv
<1>1. RelockIInv => RelockInv
  <2> SUFFICES ASSUME RelockIInv PROVE RelockInv
    OBVIOUS
  <2>1. RelockTypes /\ PulseInv
    BY DEF RelockIInv
  <2>2. \A i \in 1..Len(recent) : recent[i].age \in 0..Window /\ recent[i].n \in 1..MaxPerTick
    <3>1. \A i \in 1..Len(recent) : recent[i] \in Windowed
      BY <2>1 DEF RelockTypes
    <3> QED BY <3>1 DEF Windowed
  <2>3. RelockTypeOK
    BY <2>1, <2>2 DEF RelockTypes, RelockTypeOK
  <2>4. HpdRaisedAgain
    BY <2>1 DEF PulseInv, HpdRaisedAgain
  <2> QED BY <2>3, <2>4 DEF RelockInv
<1> QED BY <1>1, RelockInductive, PTL

\* Two replugs are never closer together than the backoff of their episode or, across episodes, than
\* Settle, however the events come (RelockWatch::observe).
THEOREM ReplugsSpacedHolds == RelockSpec => ReplugsSpaced
<1> DEFINE Spaced == Replugs => \/ attempts' = 1 /\ (realAge + 1 >= Settle \/ realAge = Horizon)
                                \/ attempts' > 1 /\ realAge + 1 >= Backoff(attempts' - 2)
<1>1. RelockIInv /\ [RelockNext]_relockVars => [Spaced]_relockVars
  <2> SUFFICES ASSUME RelockIInv, RelockNext, Replugs PROVE Spaced
    OBVIOUS
  <2>0. RelockTypes /\ EpisodeInv
    BY DEF RelockIInv
  <2>1. SupervisorObserves
    BY DEF RelockNext, Replugs, SourceChange, StormChanges, CountEvent, PulseOff, PulseOn
  <2>2. PICK age, q, storm, due, over :
           /\ age \in {Forever} \cup 0..Horizon /\ q = Slide(recent, counted)
           /\ age = (IF lastReplug = Forever THEN Forever ELSE IF lastReplug < Horizon THEN lastReplug + 1 ELSE Horizon)
           /\ due => storm /\ Due(age, attempts)
           /\ attempts' = (IF due THEN IF attempts < 7 THEN attempts + 1 ELSE 7 ELSE IF over THEN 0 ELSE attempts)
           /\ verdict' = (IF due THEN "replug" ELSE IF storm THEN "storm" ELSE "quiet")
    BY <2>0, <2>1, TickFacts
  <2>3. due /\ Due(age, attempts) /\ attempts' = IF attempts < 7 THEN attempts + 1 ELSE 7
    BY <2>2 DEF Replugs
  <2>4. /\ attempts \in 0..7 /\ realAge \in 0..Horizon /\ lastReplug \in {Forever} \cup 0..Horizon
        /\ Horizon \in Nat /\ Settle \in Nat /\ Forever = -1
    BY <2>0, RelockNumbers DEF RelockTypes
  <2>5. CASE attempts = 0
    BY <2>0, <2>3, <2>4, <2>5 DEF EpisodeInv
  <2>6. CASE attempts > 0
    <3>1. lastReplug # Forever /\ realAge = lastReplug /\ age <= realAge + 1 /\ age # Forever /\ age \in Int
      BY <2>0, <2>2, <2>4, <2>6 DEF EpisodeInv
    <3>2. age >= Backoff(attempts - 1)
      BY <2>3, <2>6, <2>4, <3>1 DEF Due
    <3>3. Backoff(attempts' - 2) = Backoff(attempts - 1)
      <4>1. CASE attempts < 7
        <5>1. attempts' - 2 = attempts - 1
          BY <2>3, <2>4, <4>1
        <5> QED BY <5>1
      <4>2. CASE attempts = 7
        <5>1. attempts' - 2 = 5 /\ attempts - 1 = 6
          BY <2>3, <4>2
        <5> QED BY <5>1, BackoffSaturates
      <4> QED BY <2>4, <4>1, <4>2
    <3>4. Backoff(attempts - 1) \in Int
      BY <2>4, <2>6, BackoffSaturates
    <3>5. attempts' > 1
      BY <2>3, <2>4, <2>6
    <3>6. realAge + 1 >= Backoff(attempts' - 2)
      BY <2>4, <3>1, <3>2, <3>3, <3>4
    <3> QED BY <3>5, <3>6
  <2> QED BY <2>4, <2>5, <2>6
<1> QED BY <1>1, RelockInductive, PTL DEF RelockSpec, ReplugsSpaced

\* The events of a window are pairs.
LEMMA EventsArePairs ==
  ASSUME NEW q, NEW x
  PROVE  x \in EventsIn(q) <=> \E i \in 1..Len(q) : \E k \in 1..q[i].n : x = <<i, k>>
BY DEF EventsIn

\* The events of a window are finitely many.
LEMMA EventsCounted ==
  ASSUME NEW q, Len(q) \in Nat, \A i \in 1..Len(q) : q[i].n \in 1..MaxPerTick
  PROVE  IsFiniteSet(EventsIn(q)) /\ Total(q) = Cardinality(EventsIn(q)) /\ Total(q) \in Nat
<1>1. IsFiniteSet(1..Len(q)) /\ IsFiniteSet(1..MaxPerTick)
  <2>1. 1 \in Int /\ Len(q) \in Int /\ MaxPerTick \in Int
    BY RelockNumbers
  <2>2. IsFiniteSet(1..Len(q))
    BY <2>1, FS_Interval
  <2>3. IsFiniteSet(1..MaxPerTick)
    BY <2>1, FS_Interval
  <2> QED BY <2>2, <2>3
<1>2. IsFiniteSet((1..Len(q)) \X (1..MaxPerTick))
  BY <1>1, FS_Product
<1>3. EventsIn(q) \in SUBSET ((1..Len(q)) \X (1..MaxPerTick))
  <2>1. SUFFICES ASSUME NEW x \in EventsIn(q) PROVE x \in (1..Len(q)) \X (1..MaxPerTick)
    OBVIOUS
  <2>2. \E i \in 1..Len(q) : \E k \in 1..q[i].n : x = <<i, k>>
    BY <2>1, EventsArePairs
  <2>3. PICK i \in 1..Len(q) : \E k \in 1..q[i].n : x = <<i, k>>
    BY <2>2
  <2>4. PICK k \in 1..q[i].n : x = <<i, k>>
    BY <2>3
  <2>5. k \in 1..MaxPerTick
    BY RelockNumbers, <2>3
  <2> QED BY <2>4, <2>5
<1>4. IsFiniteSet(EventsIn(q))
  BY <1>2, <1>3, FS_Subset
<1>5. Cardinality(EventsIn(q)) \in Nat
  BY <1>4, FS_CardinalityType
<1> QED BY <1>4, <1>5 DEF Total

\* A new entry adds its events, and no more.
LEMMA AppendCounts ==
  ASSUME NEW q, NEW r, NEW events \in 1..MaxPerTick, Len(q) \in Nat, Len(r) = Len(q) + 1,
         \A i \in 1..Len(q) : q[i].n \in 1..MaxPerTick /\ r[i].n = q[i].n, r[Len(q) + 1].n = events
  PROVE  Total(r) <= Total(q) + events
<1> DEFINE last == Len(q) + 1
           new == {last} \X (1..events)
           pair == [k \in 1..events |-> <<last, k>>]
<1>1. EventsIn(r) = EventsIn(q) \cup new
  <2>1. ASSUME NEW x \in EventsIn(r) PROVE x \in EventsIn(q) \cup new
    <3>1. \E i \in 1..Len(r) : \E k \in 1..r[i].n : x = <<i, k>>
      BY <2>1, EventsArePairs
    <3>2. PICK i \in 1..Len(r) : \E k \in 1..r[i].n : x = <<i, k>>
      BY <3>1
    <3>3. PICK k \in 1..r[i].n : x = <<i, k>>
      BY <3>2
    <3>4. CASE i \in 1..Len(q)
      <4>1. k \in 1..q[i].n
        BY <3>4
      <4>2. x \in EventsIn(q)
        BY <3>3, <3>4, <4>1, EventsArePairs
      <4> QED BY <4>2
    <3>5. CASE i = last
      <4>1. k \in 1..events
        BY <3>5
      <4> QED BY <3>3, <3>5, <4>1
    <3> QED BY <3>4, <3>5
  <2>2. ASSUME NEW x \in EventsIn(q) PROVE x \in EventsIn(r)
    <3>1. \E i \in 1..Len(q) : \E k \in 1..q[i].n : x = <<i, k>>
      BY <2>2, EventsArePairs
    <3>2. PICK i \in 1..Len(q) : \E k \in 1..q[i].n : x = <<i, k>>
      BY <3>1
    <3>3. i \in 1..Len(r) /\ r[i].n = q[i].n
      OBVIOUS
    <3> QED BY <3>2, <3>3, EventsArePairs
  <2>3. ASSUME NEW x \in new PROVE x \in EventsIn(r)
    <3>1. PICK k \in 1..events : x = <<last, k>>
      BY <2>3
    <3>2. last \in 1..Len(r) /\ k \in 1..r[last].n
      BY <3>1
    <3> QED BY <3>1, <3>2, EventsArePairs
  <2> HIDE DEF new
  <2> QED BY <2>1, <2>2, <2>3
<1>2. IsFiniteSet(new) /\ Cardinality(new) = events
  <2>1. IsFiniteSet({last}) /\ Cardinality({last}) = 1
    BY FS_Singleton
  <2>2. IsFiniteSet(1..events) /\ Cardinality(1..events) = events /\ events \in Nat
    BY RelockNumbers, FS_Interval
  <2> HIDE DEF last
  <2>3. IsFiniteSet(new) /\ Cardinality(new) = Cardinality({last}) * Cardinality(1..events)
    BY <2>1, <2>2, FS_Product
  <2> QED BY <2>1, <2>2, <2>3
<1>3. IsFiniteSet(EventsIn(q)) /\ Total(q) = Cardinality(EventsIn(q)) /\ Total(q) \in Nat
  BY EventsCounted
<1> HIDE DEF new
<1>4. Cardinality(EventsIn(q) \cup new)
        = Cardinality(EventsIn(q)) + Cardinality(new) - Cardinality(EventsIn(q) \cap new)
  BY <1>2, <1>3, FS_Union
<1>5. Cardinality(EventsIn(q) \cap new) \in Nat
  BY <1>3, FS_Intersection, FS_CardinalityType
<1>6. Total(r) = Cardinality(EventsIn(q) \cup new)
  BY <1>1 DEF Total
<1>7. events \in Nat
  BY RelockNumbers
<1> QED BY <1>2, <1>3, <1>4, <1>5, <1>6, <1>7

\* The end of a window has no more events than the whole.
LEMMA TailCounts ==
  ASSUME NEW q, NEW r, NEW m \in Nat \ {0}, Len(q) \in Nat, Len(r) \in Nat, m + Len(r) = Len(q) + 1,
         \A i \in 1..Len(q) : q[i].n \in 1..MaxPerTick, \A i \in 1..Len(r) : r[i] = q[m + i - 1]
  PROVE  Total(r) <= Total(q)
<1> DEFINE S == EventsIn(r)
           T == EventsIn(q)
           f == [x \in S |-> <<m + x[1] - 1, x[2]>>]
<1>1. ASSUME NEW x \in S
      PROVE  /\ x = <<x[1], x[2]>> /\ x[1] \in 1..Len(r) /\ x[2] \in Int
             /\ <<m + x[1] - 1, x[2]>> \in T
  <2>1. \E i \in 1..Len(r) : \E k \in 1..r[i].n : x = <<i, k>>
    BY <1>1, EventsArePairs
  <2>2. PICK i \in 1..Len(r) : \E k \in 1..r[i].n : x = <<i, k>>
    BY <2>1
  <2>3. PICK k \in 1..r[i].n : x = <<i, k>>
    BY <2>2
  <2>4. m + i - 1 \in 1..Len(q)
    OBVIOUS
  <2>5. k \in 1..q[m + i - 1].n
    BY <2>3
  <2>6. <<m + i - 1, k>> \in T
    BY <2>4, <2>5, EventsArePairs
  <2> HIDE DEF T
  <2> QED BY <2>3, <2>6
<1>2. \A x \in S : f[x] = <<m + x[1] - 1, x[2]>> /\ f[x] \in T
  BY <1>1
<1>3. f \in [S -> T]
  BY <1>1
<1>4. ASSUME NEW x \in S, NEW y \in S, f[x] = f[y] PROVE x = y
  <2>1. /\ x = <<x[1], x[2]>> /\ x[1] \in 1..Len(r) /\ x[2] \in Int
        /\ y = <<y[1], y[2]>> /\ y[1] \in 1..Len(r) /\ y[2] \in Int
    BY <1>1
  <2>2. <<m + x[1] - 1, x[2]>> = <<m + y[1] - 1, y[2]>>
    BY <1>2, <1>4
  <2>3. x[1] = y[1] /\ x[2] = y[2]
    BY <2>1, <2>2
  <2> QED BY <2>1, <2>3
<1>5. IsFiniteSet(T) /\ Total(q) = Cardinality(T) /\ Total(q) \in Nat
  BY EventsCounted
<1>6. f \in Injection(S, T)
  <2> HIDE DEF S, T, f
  <2>1. DOMAIN f = S
    BY <1>3
  <2> QED BY <1>3, <1>4, <2>1 DEF Injection, IsInjective
<1> HIDE DEF S, T, f
<1>7. Cardinality(S) <= Cardinality(T)
  BY <1>5, <1>6, FS_Injection
<1> QED BY <1>5, <1>7 DEF S, Total

\* When the window slides, it has no more events than before and the ones that came.
LEMMA SlideCounts ==
  ASSUME NEW q \in Seq(Windowed), NEW events \in 0..MaxPerTick
  PROVE  Total(Slide(q, events)) <= Total(q) + events /\ Total(Slide(q, events)) \in Nat /\ Total(q) \in Nat
<1> DEFINE Entry == [n : 1..MaxPerTick, age : Int]
           aged == [i \in 1..Len(q) |-> [q[i] EXCEPT !.age = @ + 1]]
           all == IF events > 0 THEN Append(aged, [age |-> 0, n |-> events]) ELSE aged
           kept == {i \in 1..Len(all) : all[i].age <= Window}
<1>0. MaxPerTick \in Nat /\ Len(q) \in Nat /\ \A i \in 1..Len(q) : q[i] \in Windowed /\ q[i].n \in 1..MaxPerTick
  <2>1. Len(q) \in Nat /\ \A i \in 1..Len(q) : q[i] \in Windowed
    OBVIOUS
  <2>2. \A w \in Windowed : w.n \in 1..MaxPerTick
    BY DEF Windowed
  <2> QED BY <2>1, <2>2, RelockNumbers
<1>1. Slide(q, events) = IF kept = {} THEN << >> ELSE SubSeq(all, Min(kept), Len(all))
  BY DEF Slide
<1>2. /\ aged \in Seq(Entry) /\ Len(aged) = Len(q)
      /\ \A i \in 1..Len(q) : aged[i].n = q[i].n
  <2>1. ASSUME NEW i \in 1..Len(q)
        PROVE  [q[i] EXCEPT !.age = @ + 1] \in Entry
               /\ [q[i] EXCEPT !.age = @ + 1].n = q[i].n
    <3>1. q[i] = [age |-> q[i].age, n |-> q[i].n] /\ q[i].age \in 0..Window /\ q[i].n \in 1..MaxPerTick
      BY <1>0 DEF Windowed
    <3> QED BY <3>1, RelockNumbers, SMTT(30)
  <2> QED BY <1>0, <2>1
<1>3. \A e \in Entry : e.n \in 1..MaxPerTick
  OBVIOUS
<1>4. EventsIn(aged) = EventsIn(q)
  <2>1. \A i \in 1..Len(q) : {i} \X (1..aged[i].n) = {i} \X (1..q[i].n)
    BY <1>2
  <2> HIDE DEF aged
  <2> QED BY <1>2, <2>1 DEF EventsIn
<1>5. Total(aged) = Total(q) /\ Total(q) \in Nat
  BY <1>0, <1>4, EventsCounted DEF Total
<1>6. \A i \in 1..Len(aged) : aged[i] \in Entry
  <2> HIDE DEF Entry, aged
  <2> QED BY <1>2
<1> HIDE DEF aged
<1>7. /\ Len(all) \in Nat /\ all \in Seq(Entry)
      /\ \A i \in 1..Len(all) : all[i] \in Entry /\ all[i].n \in 1..MaxPerTick
      /\ Total(all) <= Total(q) + events /\ Total(all) \in Nat
  <2>1. CASE events > 0
    <3> DEFINE e == [age |-> 0, n |-> events]
    <3>1. e \in Entry /\ e.n = events /\ events \in 1..MaxPerTick
      BY <1>0, <2>1
    <3> HIDE DEF e, Entry
    <3>2. /\ Append(aged, e) \in Seq(Entry)
          /\ Len(Append(aged, e)) = Len(aged) + 1
          /\ Append(aged, e)[Len(aged) + 1] = e /\ \A i \in 1..Len(aged) : Append(aged, e)[i] = aged[i]
      BY <1>2, <3>1, AppendProperties
    <3>3. all = Append(aged, e)
      BY <2>1 DEF e
    <3> HIDE DEF all
    <3>4. Len(all) = Len(aged) + 1 /\ Len(all) \in Nat
      BY <1>0, <1>2, <3>2, <3>3
    <3>5. \A i \in 1..Len(all) : all[i] \in Entry /\ all[i].n \in 1..MaxPerTick
      BY <1>3, <3>2, <3>3
    <3>6. \A i \in 1..Len(aged) : aged[i].n \in 1..MaxPerTick /\ all[i].n = aged[i].n
      BY <1>0, <1>2, <3>2, <3>3
    <3>7. all[Len(aged) + 1].n = events /\ Len(aged) \in Nat
      BY <1>0, <1>2, <3>1, <3>2, <3>3
    <3>8. Total(all) <= Total(aged) + events
      BY <3>1, <3>4, <3>6, <3>7, AppendCounts
    <3>9. Total(all) \in Nat
      BY <3>4, <3>5, EventsCounted
    <3> QED BY <1>5, <3>2, <3>3, <3>4, <3>5, <3>8, <3>9
  <2>2. CASE ~(events > 0)
    <3>1. events = 0 /\ all = aged
      BY <1>0, <2>2
    <3> HIDE DEF all, Entry
    <3>2. \A i \in 1..Len(all) : all[i] \in Entry /\ all[i].n \in 1..MaxPerTick
      BY <1>6, <1>3, <3>1
    <3>3. Len(all) \in Nat /\ all \in Seq(Entry)
      BY <1>0, <1>2, <3>1
    <3>4. Total(all) <= Total(q) + events /\ Total(all) \in Nat
      BY <1>5, <3>1
    <3> QED BY <3>2, <3>3, <3>4
  <2> QED BY <2>1, <2>2
<1> HIDE DEF all, Entry
<1>8. CASE kept = {}
  <2>1. Slide(q, events) = << >>
    BY <1>1, <1>8
  <2>2. EventsIn(<< >>) = {}
    BY DEF EventsIn
  <2>3. Total(<< >>) = 0
    BY <2>2, FS_EmptySet DEF Total
  <2> QED BY <1>0, <1>5, <2>1, <2>3
<1>9. CASE kept # {}
  <2> DEFINE m == Min(kept)
             slid == SubSeq(all, m, Len(all))
  <2>1. m \in 1..Len(all)
    <3>1. kept \in SUBSET Nat
      BY <1>7
    <3>2. m \in kept
      <4> HIDE DEF kept
      <4> QED BY <1>9, <3>1, LeastIndex
    <3> QED BY <3>2
  <2>2. Slide(q, events) = slid
    BY <1>1, <1>9
  <2> HIDE DEF m
  <2>3. \A i \in m..Len(all) : all[i] \in Entry
    BY <1>7, <2>1
  <2>4. /\ Len(slid) = Len(all) - m + 1
        /\ \A i \in 1..(Len(all) - m + 1) : slid[i] = all[m + i - 1]
    BY <1>7, <2>1, <2>3, SubSeqProperties
  <2> HIDE DEF slid
  <2>5. /\ m \in Nat \ {0} /\ Len(slid) \in Nat /\ m + Len(slid) = Len(all) + 1
        /\ \A i \in 1..Len(slid) : slid[i] = all[m + i - 1]
    <3>1. Len(slid) = Len(all) - m + 1 /\ Len(all) \in Nat /\ m \in 1..Len(all)
      BY <1>7, <2>1, <2>4
    <3>2. m \in Nat \ {0} /\ Len(slid) \in Nat /\ m + Len(slid) = Len(all) + 1
      BY <3>1
    <3> QED BY <2>4, <3>1, <3>2
  <2>6. Total(slid) <= Total(all)
    BY <1>7, <2>5, TailCounts
  <2>7. Total(slid) \in Nat
    <3>1. \A i \in 1..Len(slid) : slid[i].n \in 1..MaxPerTick
      <4>1. TAKE i \in 1..Len(slid)
      <4>2. m + i - 1 \in 1..Len(all)
        BY <1>7, <2>1, <2>4
      <4> QED BY <1>7, <2>5, <4>2
    <3> QED BY <2>5, <3>1, EventsCounted
  <2> QED BY <1>0, <1>5, <1>7, <2>2, <2>6, <2>7
<1> QED BY <1>8, <1>9

\* The events in the window were all judged since the last replug.
EarnedInv ==
  /\ sinceReplug \in 0..Threshold
  /\ sinceReplug < Threshold => Total(recent) <= sinceReplug

\* A tick counts what came; one that replugs has found a storm and starts anew.
LEMMA TickCounts ==
  ASSUME RelockIInv, EarnedInv, SupervisorObserves
  PROVE  EarnedInv' /\ (verdict' = "replug" => sinceReplug + counted >= Threshold)
<1> DEFINE q == Slide(recent, counted)
           storm == Total(q) >= Threshold
           due == storm /\ Due(Older(lastReplug), attempts)
<1>1. recent \in Seq(Windowed) /\ counted \in 0..MaxPerTick /\ counted \in Nat /\ Threshold \in Nat
  BY RelockNumbers DEF RelockIInv, RelockTypes
<1>2. Total(q) <= Total(recent) + counted /\ Total(q) \in Nat /\ Total(recent) \in Nat
  BY <1>1, SlideCounts
<1>3. /\ recent' = (IF due THEN << >> ELSE q)
      /\ verdict' = (IF due THEN "replug" ELSE IF storm THEN "storm" ELSE "quiet")
      /\ sinceReplug' = (IF due THEN 0 ELSE Min({sinceReplug + counted, Threshold}))
  BY DEF SupervisorObserves
<1>4. sinceReplug \in 0..Threshold /\ (sinceReplug < Threshold => Total(recent) <= sinceReplug)
  BY DEF EarnedInv
<1>5. Min({sinceReplug + counted, Threshold})
        = IF sinceReplug + counted <= Threshold THEN sinceReplug + counted ELSE Threshold
  BY <1>1, <1>4, MinOfTwo
<1>6. storm => sinceReplug + counted >= Threshold
  BY <1>1, <1>2, <1>4
<1> HIDE DEF q
<1>7. CASE due
  <2>1. EventsIn(<< >>) = {}
    BY DEF EventsIn
  <2>2. Total(<< >>) = 0
    BY <2>1, FS_EmptySet DEF Total
  <2> QED BY <1>1, <1>3, <1>6, <1>7, <2>2 DEF EarnedInv
<1>8. CASE ~due
  <2>1. verdict' # "replug" /\ recent' = q /\ sinceReplug' = Min({sinceReplug + counted, Threshold})
    BY <1>3, <1>8
  <2> QED BY <1>1, <1>2, <1>4, <1>5, <2>1 DEF EarnedInv
<1> QED BY <1>7, <1>8

\* Every replug has a storm of its own behind it, and keeps its distance from the one before, for any
\* window, threshold and backoff (RelockWatch::observe clears the window when it asks for a replug).
THEOREM ReplugsAreRareHolds == RelockSpec => ReplugsAreRare
<1> DEFINE Earned == Replugs => sinceReplug + counted >= Threshold
<1>1. RelockInit => EarnedInv
  <2> SUFFICES ASSUME RelockInit PROVE EarnedInv
    OBVIOUS
  <2>1. EventsIn(<< >>) = {}
    BY DEF EventsIn
  <2>2. Total(<< >>) = 0
    BY <2>1, FS_EmptySet DEF Total
  <2> QED BY <2>2, RelockNumbers DEF RelockInit, EarnedInv
<1>2. RelockIInv /\ EarnedInv /\ [RelockNext]_relockVars => EarnedInv' /\ [Earned]_relockVars
  <2> SUFFICES ASSUME RelockIInv, EarnedInv, [RelockNext]_relockVars PROVE EarnedInv' /\ [Earned]_relockVars
    OBVIOUS
  <2>1. CASE SupervisorObserves
    BY <2>1, TickCounts DEF Replugs
  <2>2. CASE SourceChange \/ StormChanges \/ CountEvent \/ PulseOff \/ PulseOn
    <3>1. UNCHANGED <<recent, sinceReplug>>
      BY <2>2 DEF SourceChange, StormChanges, CountEvent, PulseOff, PulseOn
    <3>2. ~Replugs
      BY <2>2 DEF Replugs, SourceChange, StormChanges, CountEvent, PulseOff, PulseOn
    <3> QED BY <3>1, <3>2 DEF EarnedInv
  <2>3. CASE UNCHANGED relockVars
    BY <2>3 DEF relockVars, EarnedInv
  <2> QED BY <2>1, <2>2, <2>3 DEF RelockNext
<1>3. RelockSpec => ReplugNeedsOwnStorm
  BY <1>1, <1>2, RelockInductive, PTL DEF RelockSpec, ReplugNeedsOwnStorm
<1> QED BY <1>3, ReplugsSpacedHolds DEF ReplugsAreRare

-----------------------------------------------------------------------------
(* The page and its peer *)

PageSpec == ConnInit /\ [][ConnNext]_connVars

Live(d) == peer[d] \in {"dialing", "open", "dropped"}

\* The peer that is dialled or held is the newest, and nobody else's watcher has its generation: a
\* watcher that finds its own generation watches the holder.
PeerInv ==
  /\ dials \in 0..MaxDials /\ mine \in [Dials -> Nat] /\ ice \in {"up", "disconnected"}
  /\ \A d \in Dials : mine[d] <= generation /\ (Live(d) => d = dials)
  /\ \A d \in Dials : peer[d] = "dialing" => connState = "connecting" /\ holder = 0 /\ generation < dials
  /\ \A d \in Dials : peer[d] \in {"open", "dropped"} => holder = d
  /\ \A d \in Dials : watcher[d] = "watching" /\ mine[d] = generation => holder = d
  /\ (connState = "connected") <=> (holder # 0)
  /\ holder # 0 => holder = dials /\ watcher[holder] = "watching" /\ mine[holder] = generation

\* What the gate's task knows while it waits, as long as every request of it was answered.
GateInv ==
  /\ deviceSetup \in BOOLEAN /\ deviceLogin \in BOOLEAN /\ restFaults \in Nat /\ (deviceLogin => deviceSetup)
  /\ restFaults = 0 => /\ gateStep = "auth_required" => deviceSetup
                       /\ gateStep = "login" => deviceSetup /\ deviceLogin

ConnIInv == ConnTypeOK /\ PeerInv /\ GateInv /\ GateFollowsDevice

\* The page as it is loaded.
LEMMA ConnInitially == ConnInit => ConnIInv
<1> SUFFICES ASSUME ConnInit PROVE ConnIInv
  OBVIOUS
<1>0. MaxDials \in Nat /\ DisconnectedTicks \in Nat
  BY ConnAssumption
<1>1. deviceSetup \in BOOLEAN /\ deviceLogin \in BOOLEAN /\ (deviceLogin => deviceSetup)
  BY DEF ConnInit
<1>2. ConnTypeOK
  BY <1>0 DEF ConnInit, ConnTypeOK, Dials
<1>3. PeerInv
  BY <1>0 DEF ConnInit, PeerInv, Live, Dials
<1>4. GateInv /\ GateFollowsDevice
  BY <1>1 DEF ConnInit, GateInv, GateFollowsDevice
<1> QED BY <1>2, <1>3, <1>4 DEF ConnIInv

\* The steps of the gate's task leave the peers alone.
LEMMA GateStep ==
  ASSUME ConnIInv, GateNext
  PROVE  ConnIInv'
<1>0. /\ ConnTypeOK /\ PeerInv /\ GateInv /\ GateFollowsDevice /\ MaxRestFaults \in Nat
      /\ deviceSetup \in BOOLEAN /\ deviceLogin \in BOOLEAN /\ restFaults \in Nat
  BY ConnAssumption DEF ConnIInv, GateInv
<1>1. UNCHANGED peerVars
  BY DEF GateNext, AskIsSetup, AskAuthRequired, DoSetup, SetupAnswered, DoLogin, LoginAnswered
<1>2. PeerInv'
  BY <1>0, <1>1 DEF PeerInv, peerVars, Live
<1>3. (deviceSetup' = deviceSetup \/ deviceSetup') /\ (deviceLogin' = deviceLogin \/ ~deviceLogin')
      /\ deviceSetup' \in BOOLEAN /\ deviceLogin' \in BOOLEAN
  BY <1>0, Zenon DEF GateNext, AskIsSetup, AskAuthRequired, DoSetup, SetupAnswered, DoLogin, LoginAnswered
<1>4. restFaults' \in Nat /\ restFaults' >= restFaults
  BY <1>0 DEF GateNext, AskIsSetup, AskAuthRequired, DoSetup, SetupAnswered, DoLogin, LoginAnswered, Asked
<1>5. gate' \in {"checking", "setup", "login", "connect"}
      /\ gateStep' \in {"idle", "is_setup", "auth_required", "setup", "login"}
  BY <1>0 DEF ConnTypeOK, GateNext, AskIsSetup, AskAuthRequired, DoSetup, SetupAnswered, DoLogin, LoginAnswered
<1>6. ConnTypeOK'
  BY <1>0, <1>1, <1>5 DEF ConnTypeOK, peerVars
<1>7. GateInv' /\ GateFollowsDevice'
  <2>1. CASE AskIsSetup
    BY <1>0, <1>3, <1>4, <2>1 DEF AskIsSetup, Asked, GateInv, GateFollowsDevice
  <2>2. CASE AskAuthRequired
    BY <1>0, <1>3, <1>4, <2>2 DEF AskAuthRequired, Asked, GateInv, GateFollowsDevice
  <2>3. CASE DoSetup
    BY <1>0, <1>3, <1>4, <2>3 DEF DoSetup, GateInv, GateFollowsDevice
  <2>4. CASE SetupAnswered
    BY <1>0, <1>3, <1>4, <2>4 DEF SetupAnswered, GateInv, GateFollowsDevice
  <2>5. CASE DoLogin
    BY <1>0, <1>3, <1>4, <2>5 DEF DoLogin, GateInv, GateFollowsDevice
  <2>6. CASE LoginAnswered
    BY <1>0, <1>3, <1>4, <2>6 DEF LoginAnswered, GateInv, GateFollowsDevice
  <2> QED BY <2>1, <2>2, <2>3, <2>4, <2>5, <2>6 DEF GateNext
<1> QED BY <1>2, <1>6, <1>7 DEF ConnIInv

\* Dialling, losing and watching a peer leave the gate alone.
LEMMA PeerStep ==
  ASSUME ConnIInv, DoConnect \/ IceChanges \/ \E d \in Dials : DialFails(d) \/ DialOpens(d) \/ Dropped(d) \/ WatchTick(d)
  PROVE  ConnIInv'
<1>0. ConnTypeOK /\ PeerInv /\ GateInv /\ GateFollowsDevice /\ MaxDials \in Nat /\ DisconnectedTicks \in Nat
  BY ConnAssumption DEF ConnIInv
<1> USE <1>0 DEF Dials
<1>1. UNCHANGED gateVars
  BY DEF DoConnect, IceChanges, DialFails, DialOpens, Dropped, WatchTick
<1>2. GateInv' /\ GateFollowsDevice'
  BY <1>1 DEF gateVars, GateInv, GateFollowsDevice
<1>3. ConnTypeOK' /\ PeerInv'
  <2>1. CASE DoConnect
    BY <1>1, <2>1 DEF DoConnect, ConnTypeOK, PeerInv, Live, gateVars
  <2>2. CASE IceChanges
    BY <1>1, <2>2 DEF IceChanges, ConnTypeOK, PeerInv, Live, gateVars
  <2>3. ASSUME NEW d \in Dials, DialFails(d) PROVE ConnTypeOK' /\ PeerInv'
    BY <1>1, <2>3 DEF DialFails, ConnTypeOK, PeerInv, Live, gateVars
  <2>4. ASSUME NEW d \in Dials, DialOpens(d) PROVE ConnTypeOK' /\ PeerInv'
    <3>1. ConnTypeOK'
      BY <1>1, <2>4 DEF DialOpens, ConnTypeOK, PeerInv, Live, gateVars
    <3>2. PeerInv'
      BY <2>4 DEF DialOpens, ConnTypeOK, PeerInv, Live
    <3> QED BY <3>1, <3>2
  <2>5. ASSUME NEW d \in Dials, Dropped(d) PROVE ConnTypeOK' /\ PeerInv'
    BY <1>1, <2>5 DEF Dropped, ConnTypeOK, PeerInv, Live, gateVars
  <2>6. ASSUME NEW d \in Dials, WatchTick(d) PROVE ConnTypeOK' /\ PeerInv'
    <3>1. CASE generation # mine[d]
      BY <1>1, <2>6, <3>1 DEF WatchTick, ConnTypeOK, PeerInv, Live, gateVars
    <3>2. CASE generation = mine[d] /\ TearDown(d)
      <4>1. ConnTypeOK'
        BY <1>1, <2>6, <3>2 DEF WatchTick, TearDown, ConnTypeOK, PeerInv, gateVars
      <4>2. PeerInv'
        BY <2>6, <3>2 DEF WatchTick, TearDown, ConnTypeOK, PeerInv, Live
      <4> QED BY <4>1, <4>2
    <3>3. CASE generation = mine[d] /\ ~TearDown(d)
      BY <1>1, <2>6, <3>3 DEF WatchTick, ConnTypeOK, PeerInv, Live, gateVars
    <3> QED BY <3>1, <3>2, <3>3
  <2> QED BY <2>1, <2>2, <2>3, <2>4, <2>5, <2>6
<1> QED BY <1>2, <1>3 DEF ConnIInv

\* For any number of clicks, losses and failing requests: one peer at most, held by the page exactly
\* while it says "connected" and watched by its own watcher, and the card the device calls for
\* (rkvm-web do_connect, watch).
THEOREM ConnInvHolds == PageSpec => []ConnInv
<1>1. ConnIInv /\ [ConnNext]_connVars => ConnIInv'
  <2> SUFFICES ASSUME ConnIInv, [ConnNext]_connVars PROVE ConnIInv'
    OBVIOUS
  <2>1. CASE ConnNext
    BY <2>1, GateStep, PeerStep DEF ConnNext
  <2>2. CASE UNCHANGED connVars
    BY <2>2 DEF connVars, gateVars, peerVars, ConnIInv, ConnTypeOK, PeerInv, Live, GateInv, GateFollowsDevice
  <2> QED BY <2>1, <2>2
<1>2. ConnIInv => ConnInv
  <2> SUFFICES ASSUME ConnIInv PROVE ConnInv
    OBVIOUS
  <2>1. ConnTypeOK /\ PeerInv /\ GateFollowsDevice
    BY DEF ConnIInv
  <2> DEFINE live == {d \in Dials : peer[d] \in {"dialing", "open", "dropped"}}
  <2>2. live \subseteq {dials}
    BY <2>1 DEF PeerInv, Live
  <2>3. Cardinality(live) <= 1
    <3>1. IsFiniteSet({dials}) /\ Cardinality({dials}) = 1
      BY FS_Singleton
    <3> QED BY <2>2, <3>1, FS_Subset
  <2>4. OnePeer
    BY <2>1, <2>3 DEF OnePeer, PeerInv
  <2> QED BY <2>1, <2>4 DEF ConnInv
<1> QED BY <1>1, <1>2, ConnInitially, PTL DEF PageSpec

-----------------------------------------------------------------------------
(* The tasks side by side *)

\* The terminals, the jiggler and the page keep what each promises, whichever of them runs, for any
\* number of channels, requests and dials.
THEOREM TasksInvHolds == MCSpec => []TasksInv
<1> DEFINE taskVars == <<focus, termVars, jigVars, relockVars, connVars>>
<1>1. MCInit => TerminalInit /\ JigglerInit /\ ConnInit
  BY DEF MCInit
<1>2. [MCNext]_taskVars => [TerminalNext]_termVars
  BY DEF MCNext
<1>3. [MCNext]_taskVars => [JigglerNext]_jigVars
  BY DEF MCNext
<1>4. [MCNext]_taskVars => [ConnNext]_connVars
  BY DEF MCNext
<1>5. TermInv /\ JigInv /\ ConnInv => TasksInv
  BY DEF TasksInv
<1>6. MCSpec => MCInit /\ [][MCNext]_taskVars
  BY PTL DEF MCSpec
<1> QED BY <1>1, <1>2, <1>3, <1>4, <1>5, <1>6, TermInvHolds, JigInvHolds, ConnInvHolds, PTL
        DEF TerminalSpec, JigSpec, PageSpec

=============================================================================
