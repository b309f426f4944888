------------------------------ MODULE Terminal ------------------------------
(***************************************************************************)
(* Terminal data channels: each gets a shell on a pseudo-terminal when it   *)
(* opens, a blocking thread that forwards output, and a cleanup when it     *)
(* closes.  The callbacks of a channel run as tasks of their own, so a      *)
(* close may come while the open handler is still at work.  The handler and *)
(* the channel refer to each other, so the Drop cleanup never comes to help.*)
(* Also the CDC-ACM channel, whose reader task nothing stops.               *)
(***************************************************************************)
EXTENDS Naturals, Sequences, FiniteSets, SequencesExt

CONSTANTS
  Terms,        \* terminal channels
  CdcChannels,  \* CDC-ACM channels, opened one after the other
  MaxOutput,    \* bound on chunks a shell writes
  MaxCdcChunks  \* bound on chunks the serial device delivers

ASSUME TerminalAssumption ==
  IsFiniteSet(Terms) /\ IsFiniteSet(CdcChannels) /\ {MaxOutput, MaxCdcChunks} \subseteq Nat

VARIABLES
  term,      \* per channel: "new", "open", "closed"
  openAt,    \* its on_open: "idle", "store", "forward", "done", "failed"
  shell,     \* "none", "running", "killed"
  ptmx,      \* the master is in TerminalState
  healthy, stopFlag,
  forwarder, \* the output thread: "none", "running", "ended"
  readOut, sending, shown,   \* chunks read, chunks in send tasks, what the browser got
  crossed,   \* its close ran while on_open was at work
  cdc,       \* per CDC-ACM channel: "new", "open", "closed"
  cdcReader, \* its reader task lives
  cdcRead, cdcLost   \* chunks the serial device delivered, and those of them that reached no channel
terminalVars == <<term, openAt, shell, ptmx, healthy, stopFlag, forwarder, readOut, sending, shown, crossed>>
cdcVars == <<cdc, cdcReader, cdcRead, cdcLost>>
termVars == <<terminalVars, cdcVars>>

Set(f, c, v) == [f EXCEPT ![c] = v]

TerminalTypeOK ==
  /\ term \in [Terms -> {"new", "open", "closed"}]
  /\ openAt \in [Terms -> {"idle", "store", "forward", "done", "failed"}]
  /\ shell \in [Terms -> {"none", "running", "killed"}]
  /\ forwarder \in [Terms -> {"none", "running", "ended"}]
  /\ readOut \in [Terms -> 0..MaxOutput]

TerminalInit ==
  /\ term = [c \in Terms |-> "new"] /\ openAt = [c \in Terms |-> "idle"]
  /\ shell = [c \in Terms |-> "none"] /\ forwarder = shell
  /\ ptmx = [c \in Terms |-> FALSE] /\ stopFlag = ptmx /\ crossed = ptmx
  /\ healthy = [c \in Terms |-> TRUE]
  /\ readOut = [c \in Terms |-> 0]
  /\ sending = [c \in Terms |-> {}] /\ shown = [c \in Terms |-> << >>]
  /\ cdc = [c \in CdcChannels |-> "new"] /\ cdcReader = [c \in CdcChannels |-> FALSE]
  /\ cdcRead = 0 /\ cdcLost = 0

-----------------------------------------------------------------------------
\* on_open: the shell is started; a failure closes the channel.
OnOpen(c) ==
  /\ term[c] = "new" /\ term' = Set(term, c, "open") /\ stopFlag' = Set(stopFlag, c, FALSE)
  /\ \/ shell' = Set(shell, c, "running") /\ openAt' = Set(openAt, c, "store")
     \/ openAt' = Set(openAt, c, "failed") /\ UNCHANGED shell
  /\ UNCHANGED <<ptmx, healthy, forwarder, readOut, sending, shown, crossed, cdcVars>>

StoreShell(c) ==
  /\ openAt[c] = "store" /\ openAt' = Set(openAt, c, "forward")
  /\ ptmx' = Set(ptmx, c, TRUE) /\ healthy' = Set(healthy, c, TRUE)
  /\ UNCHANGED <<term, shell, stopFlag, forwarder, readOut, sending, shown, crossed, cdcVars>>

StartForwarder(c) ==
  /\ openAt[c] = "forward" /\ openAt' = Set(openAt, c, "done")
  /\ forwarder' = Set(forwarder, c, IF ptmx[c] THEN "running" ELSE "ended")
  /\ UNCHANGED <<term, shell, ptmx, healthy, stopFlag, readOut, sending, shown, crossed, cdcVars>>

\* The thread reads a chunk and spawns a task that sends it; it ends when it sees the flag, or at
\* the end of the shell.  Aborting its handle does not stop it.
ForwardOutput(c) ==
  /\ forwarder[c] = "running" /\ ~stopFlag[c] /\ shell[c] = "running" /\ readOut[c] < MaxOutput
  /\ readOut' = [readOut EXCEPT ![c] = @ + 1]
  /\ sending' = [sending EXCEPT ![c] = @ \cup {readOut[c] + 1}]
  /\ UNCHANGED <<term, openAt, shell, ptmx, healthy, stopFlag, forwarder, shown, crossed, cdcVars>>

ForwarderEnds(c) ==
  /\ forwarder[c] = "running" /\ (stopFlag[c] \/ shell[c] = "killed")
  /\ forwarder' = Set(forwarder, c, "ended")
  /\ UNCHANGED <<term, openAt, shell, ptmx, healthy, stopFlag, readOut, sending, shown, crossed, cdcVars>>

SendOutput(c, n) ==
  /\ n \in sending[c] /\ sending' = [sending EXCEPT ![c] = @ \ {n}]
  /\ shown' = IF term[c] = "open" THEN [shown EXCEPT ![c] = Append(@, n)] ELSE shown
  /\ UNCHANGED <<term, openAt, shell, ptmx, healthy, stopFlag, forwarder, readOut, crossed, cdcVars>>

\* Mutant: the shell outlives its channel.
OnCloseKeepsShell(c) ==
  /\ term[c] = "open" /\ term' = Set(term, c, "closed")
  /\ stopFlag' = Set(stopFlag, c, TRUE) /\ healthy' = Set(healthy, c, FALSE) /\ ptmx' = Set(ptmx, c, FALSE)
  /\ crossed' = IF openAt[c] \in {"store", "forward"} THEN Set(crossed, c, TRUE) ELSE crossed
  /\ UNCHANGED <<openAt, shell, forwarder, readOut, sending, shown, cdcVars>>

\* on_close: the flag, the forwarder's handle, the master and the shell.
OnClose(c) ==
  /\ term[c] = "open" /\ term' = Set(term, c, "closed")
  /\ stopFlag' = Set(stopFlag, c, TRUE) /\ healthy' = Set(healthy, c, FALSE)
  /\ ptmx' = Set(ptmx, c, FALSE)
  /\ shell' = IF ptmx[c] THEN Set(shell, c, "killed") ELSE shell
  /\ crossed' = IF openAt[c] \in {"store", "forward"} THEN Set(crossed, c, TRUE) ELSE crossed
  /\ UNCHANGED <<openAt, forwarder, readOut, sending, shown, cdcVars>>

\* on_error only marks the terminal, whose input is refused from then on.
OnError(c) ==
  /\ term[c] = "open" /\ healthy[c] /\ healthy' = Set(healthy, c, FALSE)
  /\ UNCHANGED <<term, openAt, shell, ptmx, stopFlag, forwarder, readOut, sending, shown, crossed, cdcVars>>

-----------------------------------------------------------------------------
\* handle_cdcacm_channel: the device is opened and a reader spawned for each channel.
CdcOpen(c) ==
  /\ cdc[c] = "new" /\ cdc' = Set(cdc, c, "open") /\ cdcReader' = Set(cdcReader, c, TRUE)
  /\ UNCHANGED <<terminalVars, cdcRead, cdcLost>>

CdcClose(c) ==
  /\ cdc[c] = "open" /\ cdc' = Set(cdc, c, "closed")
  /\ UNCHANGED <<terminalVars, cdcReader, cdcRead, cdcLost>>

\* Any reader takes the next chunk; the send fails on a closed channel and ends the reader.
CdcForward(c) ==
  /\ cdcReader[c] /\ cdcRead < MaxCdcChunks /\ cdcRead' = cdcRead + 1
  /\ cdcReader' = Set(cdcReader, c, cdc[c] = "open")
  /\ cdcLost' = IF cdc[c] = "open" THEN cdcLost ELSE cdcLost + 1
  /\ UNCHANGED <<terminalVars, cdc>>

TermTask(c) == StoreShell(c) \/ StartForwarder(c) \/ ForwarderEnds(c)
TerminalNext ==
  \/ \E c \in Terms : \/ OnOpen(c) \/ TermTask(c) \/ ForwardOutput(c)
                      \/ OnClose(c) \/ OnError(c) \/ \E n \in 1..MaxOutput : SendOutput(c, n)
  \/ \E c \in CdcChannels : CdcOpen(c) \/ CdcClose(c) \/ CdcForward(c)

-----------------------------------------------------------------------------
\* A closed terminal leaves no shell and no master behind once its handlers are done, unless the
\* close ran into the open: then the shell stored afterwards stays.
ClosedReapsShell ==
  \A c \in Terms : (term[c] = "closed" /\ openAt[c] \in {"done", "failed"} /\ ~crossed[c])
                     => shell[c] # "running" /\ ~ptmx[c]

\* The output thread of a closed channel ends by itself in every case, the crossed one included.
ForwarderStops == \A c \in Terms : (term[c] = "closed") ~> (forwarder[c] # "running")

\* What the browser shows is a selection of what was read, each chunk once (not always in order:
\* every chunk is sent by a task of its own).
ShownOnce ==
  \A c \in Terms : /\ IsInjective(shown[c]) /\ Range(shown[c]) \subseteq 1..readOut[c]
                   /\ Range(shown[c]) \cap sending[c] = {}

\* The readers of closed CDC-ACM channels take at most one chunk each away from the open one.
CdcLosesOnePerClose == cdcLost <= Cardinality({c \in CdcChannels : cdc[c] = "closed"})

\* Terminals and serial channels give back what they took and show what was read once.
TermInv == TerminalTypeOK /\ ClosedReapsShell /\ ShownOnce /\ CdcLosesOnePerClose

=============================================================================
