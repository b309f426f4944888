-------------------------------- MODULE HidIo -------------------------------
(***************************************************************************)
(* Who may hold a USB gadget file open, and when.                          *)
(*                                                                         *)
(* app/src/hardware/usb/hid.rs keeps three kinds of gadget fds: the files  *)
(* of the hid-writer thread (opened on demand, one per device) and the fd  *)
(* of the keyboard LED reader thread.  suspend_io closes them, resume_io   *)
(* lets them open again; both run under io_transition and are called by    *)
(* the UDC state poller (usb/mod.rs) and by the USB emulation toggle       *)
(* (api/handlers/usb.rs).  Input reports come from any task and reach the  *)
(* writer through a bounded queue.                                         *)
(***************************************************************************)
EXTENDS Naturals, Sequences, FiniteSets

CONSTANTS
    Devices,         \* gadget functions: keyboard, absolute and relative mouse
    Senders,         \* tasks that send input reports
    QueueDepth,      \* HID_WRITE_QUEUE_DEPTH, 64 in the code
    MaxToggles,      \* bound: how often the USB emulation toggle is used
    NodesMayBeLate   \* whether /dev/hidgN may take longer than HIDG_NODE_WAIT to appear

ASSUME DepthAssumption == QueueDepth \in Nat \ {0}
ASSUME TogglesAssumption == MaxToggles \in Nat
ASSUME LateAssumption == NodesMayBeLate \in BOOLEAN

Poller == "poller"
Toggler == "toggler"
Callers == {Poller, Toggler}
Free == "free"

VARIABLES
    suspended,    \* Hid.io_suspended
    transition,   \* holder of Hid.io_transition, or Free
    queue,        \* the sync_channel to the writer: [kind, who]
    files,        \* HidWriter.files: which device files are open
    writing,      \* the report the writer is busy with: a set of at most one device
    readerOpen,   \* the LED reader thread runs and holds its fd
    opPc,         \* where each caller is inside suspend_io / resume_io
    opOk,         \* result of the caller's last resume_io
    ack,          \* state of each caller's CloseFiles acknowledgement
    sender,       \* reports past the io_suspended check: set of [task, dev]
    hidOpen,      \* the poller's hid_open: "unknown", "open" or "closed"
    pollPc, sample,        \* the poller between its UDC sample and the end of sync_hid_io
    togglePc, wanted, toggles,   \* set_usb_emulation_state and its parameter
    bound, nodes, link     \* UDC bound; /dev/hidgN exist; a host link exists

usbVars  == <<bound, nodes, link>>
pollVars == <<hidOpen, pollPc, sample>>
togVars  == <<togglePc, wanted, toggles>>
opVars   == <<suspended, transition, readerOpen, opPc, opOk>>
wrVars   == <<queue, files, writing, ack>>
vars == <<usbVars, pollVars, togVars, opVars, wrVars, sender>>

Report(d) == [kind |-> "report", who |-> d]
CloseFiles(p) == [kind |-> "close", who |-> p]
Commands == {Report(d) : d \in Devices} \cup {CloseFiles(p) : p \in Callers}

TypeOK ==
    /\ suspended \in BOOLEAN
    /\ transition \in Callers \cup {Free}
    /\ queue \in Seq(Commands) /\ Len(queue) <= QueueDepth
    /\ files \subseteq Devices
    /\ writing \subseteq Devices /\ Cardinality(writing) <= 1
    /\ readerOpen \in BOOLEAN
    /\ opPc \in [Callers -> {"none", "sLock", "sReader", "sSend", "sAck", "rLock", "rWait", "done"}]
    /\ opOk \in [Callers -> BOOLEAN]
    /\ ack \in [Callers -> {"none", "ok", "lost"}]
    /\ sender \subseteq [task : Senders, dev : Devices]
    /\ hidOpen \in {"unknown", "open", "closed"}
    /\ pollPc \in {"idle", "sampled", "syncing"}
    /\ sample \in BOOLEAN
    /\ togglePc \in {"idle", "suspending", "resuming"} /\ wanted \in BOOLEAN
    /\ toggles \in 0..MaxToggles
    /\ bound \in BOOLEAN /\ nodes \in BOOLEAN /\ link \in BOOLEAN

\* init_usb: the gadget is configured and bound, the LED reader opened if its node exists.
Init ==
    /\ suspended = FALSE /\ transition = Free
    /\ queue = <<>> /\ files = {} /\ writing = {}
    /\ nodes \in BOOLEAN
    /\ readerOpen = nodes
    /\ opPc = [p \in Callers |-> "none"]
    /\ opOk = [p \in Callers |-> FALSE]
    /\ ack = [p \in Callers |-> "none"]
    /\ sender = {}
    /\ hidOpen = "unknown" /\ pollPc = "idle" /\ sample = FALSE
    /\ togglePc = "idle" /\ wanted = TRUE /\ toggles = 0
    /\ bound = TRUE
    /\ link \in BOOLEAN

-----------------------------------------------------------------------------
(* suspend_io and resume_io, for whoever calls them *)

SuspendLock(p) ==
    /\ opPc[p] = "sLock" /\ transition = Free
    /\ transition' = p
    /\ suspended' = TRUE
    /\ opPc' = [opPc EXCEPT ![p] = "sReader"]
    /\ UNCHANGED <<readerOpen, opOk, wrVars, usbVars, pollVars, togVars, sender>>

\* Stop and join the LED reader: its fd is closed when the thread ends.
SuspendReader(p) ==
    /\ opPc[p] = "sReader"
    /\ readerOpen' = FALSE
    /\ opPc' = [opPc EXCEPT ![p] = "sSend"]
    /\ UNCHANGED <<suspended, transition, opOk, wrVars, usbVars, pollVars, togVars, sender>>

\* write_tx.send(CloseFiles) blocks while the queue is full.
SuspendSend(p) ==
    /\ opPc[p] = "sSend" /\ Len(queue) < QueueDepth
    /\ queue' = Append(queue, CloseFiles(p))
    /\ ack' = [ack EXCEPT ![p] = "none"]
    /\ opPc' = [opPc EXCEPT ![p] = "sAck"]
    /\ UNCHANGED <<suspended, transition, readerOpen, opOk, files, writing, usbVars, pollVars, togVars,
                   sender>>

\* recv_timeout returns: acknowledged, or the sender end was dropped with the command.
\* 64 queued writes of at most 100 ms fit in its 10 s, so the limit itself never fires.
SuspendAck(p) ==
    /\ opPc[p] = "sAck" /\ ack[p] # "none"
    /\ opPc' = [opPc EXCEPT ![p] = "done"]
    /\ transition' = Free
    /\ UNCHANGED <<suspended, readerOpen, opOk, wrVars, usbVars, pollVars, togVars, sender>>

\* Mutant: resume_io does not take io_transition.
ResumeUnlocked(p) ==
    /\ opPc[p] = "rLock"
    /\ suspended' = FALSE
    /\ opPc' = [opPc EXCEPT ![p] = "rWait"]
    /\ UNCHANGED <<transition, readerOpen, opOk, wrVars, usbVars, pollVars, togVars, sender>>

ResumeLock(p) ==
    /\ opPc[p] = "rLock" /\ transition = Free
    /\ transition' = p
    /\ suspended' = FALSE
    /\ opPc' = [opPc EXCEPT ![p] = "rWait"]
    /\ UNCHANGED <<readerOpen, opOk, wrVars, usbVars, pollVars, togVars, sender>>

\* The wait for the keyboard node ends, because it exists or after HIDG_NODE_WAIT, and
\* open_keyboard_hid_file runs: it succeeds at once when the reader is running.
ResumeOpen(p) ==
    /\ opPc[p] = "rWait"
    /\ nodes \/ NodesMayBeLate \/ ~bound
    /\ readerOpen' = (readerOpen \/ nodes)
    /\ opOk' = [opOk EXCEPT ![p] = readerOpen']
    /\ opPc' = [opPc EXCEPT ![p] = "done"]
    /\ transition' = Free
    /\ UNCHANGED <<suspended, wrVars, usbVars, pollVars, togVars, sender>>

Operation(p) ==
    \/ SuspendLock(p) \/ SuspendReader(p) \/ SuspendSend(p) \/ SuspendAck(p)
    \/ ResumeLock(p) \/ ResumeOpen(p)

-----------------------------------------------------------------------------
(* The hid-writer thread and the tasks that feed it *)

WriterClose ==
    /\ writing = {} /\ queue # <<>> /\ Head(queue).kind = "close"
    /\ queue' = Tail(queue)
    /\ files' = {}
    /\ ack' = [ack EXCEPT ![Head(queue).who] = "ok"]
    /\ UNCHANGED <<writing, opVars, usbVars, pollVars, togVars, sender>>

WriterTake ==
    /\ writing = {} /\ queue # <<>> /\ Head(queue).kind = "report"
    /\ queue' = Tail(queue)
    /\ writing' = {Head(queue).who}
    /\ UNCHANGED <<files, ack, opVars, usbVars, pollVars, togVars, sender>>

\* write_report opens the device's file when it is not open: io_suspended is not consulted.
WriterWrite ==
    \E d \in writing :
        /\ d \in files \/ nodes
        /\ files' = files \cup {d}
        /\ writing' = {}
        /\ UNCHANGED <<queue, ack, opVars, usbVars, pollVars, togVars, sender>>

\* Mutant: CloseFiles commands swept up with the stale reports keep their acknowledgement
\* channel alive.
WriterFailKeepsAck ==
    \E d \in writing :
        /\ files' = files \ {d}
        /\ queue' = <<>>
        /\ writing' = {}
        /\ UNCHANGED <<ack, opVars, usbVars, pollVars, togVars, sender>>

\* A failed write (no node, time limit, error) closes that device's file and drops the
\* whole queue, CloseFiles commands and their acknowledgement channels included.
WriterFail ==
    \E d \in writing :
        /\ files' = files \ {d}
        /\ queue' = <<>>
        /\ ack' = [p \in Callers |->
                     IF \E i \in 1..Len(queue) : queue[i] = CloseFiles(p) THEN "lost" ELSE ack[p]]
        /\ writing' = {}
        /\ UNCHANGED <<opVars, usbVars, pollVars, togVars, sender>>

Writer == WriterClose \/ WriterTake \/ WriterWrite \/ WriterFail

\* enqueue: the io_suspended check ...
EnqueueCheck(t, d) ==
    /\ ~suspended
    /\ \A r \in sender : r.task # t
    /\ sender' = sender \cup {[task |-> t, dev |-> d]}
    /\ UNCHANGED <<usbVars, pollVars, togVars, opVars, wrVars>>

\* Mutant: a plain send on an unbounded queue.
EnqueueUnbounded(r) ==
    /\ sender' = sender \ {r}
    /\ queue' = Append(queue, Report(r.dev))
    /\ UNCHANGED <<files, writing, ack, usbVars, pollVars, togVars, opVars>>

\* ... and try_send, which drops the report when the queue is full.
EnqueueSend(r) ==
    /\ sender' = sender \ {r}
    /\ queue' = IF Len(queue) < QueueDepth THEN Append(queue, Report(r.dev)) ELSE queue
    /\ UNCHANGED <<files, writing, ack, usbVars, pollVars, togVars, opVars>>

-----------------------------------------------------------------------------
(* The UDC state poller *)

Belief(b) == IF b THEN "open" ELSE "closed"

\* A tick samples the UDC; what follows may await (broadcast, display) before it is used.
PollSample ==
    /\ pollPc = "idle"
    /\ sample' = link
    /\ pollPc' = "sampled"
    /\ UNCHANGED <<hidOpen, usbVars, togVars, opVars, wrVars, sender>>

\* Act only when the sample differs from what the last sync achieved.
PollSync ==
    /\ pollPc = "sampled"
    /\ \/ /\ hidOpen = Belief(sample)
          /\ pollPc' = "idle"
          /\ UNCHANGED opPc
       \/ /\ hidOpen # Belief(sample)
          /\ pollPc' = "syncing"
          /\ opPc' = [opPc EXCEPT ![Poller] = IF sample THEN "rLock" ELSE "sLock"]
    /\ UNCHANGED <<hidOpen, sample, suspended, transition, readerOpen, opOk, usbVars, togVars, wrVars,
                   sender>>

\* sync_hid_io returns: a failed reopen counts as closed, so that the next tick retries.
PollDone ==
    /\ pollPc = "syncing" /\ opPc[Poller] = "done"
    /\ hidOpen' = Belief(sample /\ opOk[Poller])
    /\ pollPc' = "idle"
    /\ opPc' = [opPc EXCEPT ![Poller] = "none"]
    /\ UNCHANGED <<sample, suspended, transition, readerOpen, opOk, usbVars, togVars, wrVars, sender>>

Poll == PollSample \/ PollSync \/ PollDone

-----------------------------------------------------------------------------
(* set_usb_emulation_state *)

ToggleStart(enabled) ==
    /\ togglePc = "idle" /\ toggles < MaxToggles
    /\ bound # enabled
    /\ togglePc' = "suspending" /\ wanted' = enabled
    /\ toggles' = toggles + 1
    /\ opPc' = [opPc EXCEPT ![Toggler] = "sLock"]
    /\ UNCHANGED <<suspended, transition, readerOpen, opOk, usbVars, pollVars, wrVars, sender>>

\* Mutant: HID stays suspended when the unbind failed.
ToggleKeepsSuspended ==
    /\ togglePc = "suspending" /\ opPc[Toggler] = "done"
    /\ \E written \in BOOLEAN :
        /\ bound' = IF written THEN wanted ELSE bound
        /\ nodes' = (nodes /\ ~written)
        /\ link' = (link /\ ~written)
        /\ togglePc' = IF wanted THEN "resuming" ELSE "idle"
        /\ opPc' = [opPc EXCEPT ![Toggler] = IF wanted THEN "rLock" ELSE "none"]
    /\ UNCHANGED <<wanted, toggles, suspended, transition, readerOpen, opOk, pollVars, wrVars, sender>>

\* Write the UDC name to bind or unbind; resume when it is bound now or the write failed.
ToggleWrite ==
    /\ togglePc = "suspending" /\ opPc[Toggler] = "done"
    /\ \E written \in BOOLEAN :
        /\ bound' = IF written THEN wanted ELSE bound
        /\ nodes' = (nodes /\ ~written)
        /\ link' = (link /\ ~written)
        /\ togglePc' = IF wanted \/ ~written THEN "resuming" ELSE "idle"
        /\ opPc' = [opPc EXCEPT ![Toggler] = IF wanted \/ ~written THEN "rLock" ELSE "none"]
    /\ UNCHANGED <<wanted, toggles, suspended, transition, readerOpen, opOk, pollVars, wrVars, sender>>

ToggleDone ==
    /\ togglePc = "resuming" /\ opPc[Toggler] = "done"
    /\ togglePc' = "idle"
    /\ opPc' = [opPc EXCEPT ![Toggler] = "none"]
    /\ UNCHANGED <<wanted, toggles, suspended, transition, readerOpen, opOk, usbVars, pollVars, wrVars,
                   sender>>

-----------------------------------------------------------------------------
(* The kernel and the host *)

HostAttach == bound /\ ~link /\ link' = TRUE /\ UNCHANGED <<bound, nodes, pollVars, togVars, opVars, wrVars, sender>>
HostDetach == link /\ link' = FALSE /\ UNCHANGED <<bound, nodes, pollVars, togVars, opVars, wrVars, sender>>
MdevCreatesNodes ==
    bound /\ ~nodes /\ nodes' = TRUE /\ UNCHANGED <<bound, link, pollVars, togVars, opVars, wrVars, sender>>

Next ==
    \/ \E p \in Callers : Operation(p)
    \/ Writer
    \/ \E t \in Senders, d \in Devices : EnqueueCheck(t, d)
    \/ \E r \in sender : EnqueueSend(r)
    \/ Poll
    \/ \E e \in BOOLEAN : ToggleStart(e)
    \/ ToggleWrite \/ ToggleDone
    \/ HostAttach \/ HostDetach \/ MdevCreatesNodes

Spec == Init /\ [][Next]_vars

\* Threads and tasks are scheduled, the poll timer ticks, mdev runs.  io_transition is a
\* parking_lot mutex, which hands over fairly now and then, so a waiter is not overtaken
\* for ever (strong fairness).  Nothing is assumed of the host, of the senders or of the
\* person who uses the toggle.
Fairness ==
    /\ \A p \in Callers : WF_vars(Operation(p)) /\ SF_vars(SuspendLock(p) \/ ResumeLock(p))
    /\ WF_vars(Writer)
    /\ WF_vars(Poll)
    /\ WF_vars(ToggleWrite) /\ WF_vars(ToggleDone)
    /\ WF_vars(MdevCreatesNodes)

FairSpec == Spec /\ Fairness

-----------------------------------------------------------------------------
(* Properties *)

\* Between transitions, suspended I/O means that no LED reader thread sits in a gadget fd:
\* poller and toggle interleave their suspend_io/resume_io without losing the reader.
SuspendedReaderClosed == suspended /\ transition = Free => ~readerOpen

\* suspend_io and resume_io return, whatever the writer does with the queue: the bounded
\* queue, the acknowledgement and io_transition never leave poller and toggle stuck.
OperationsReturn ==
    \A p \in Callers : opPc[p] \in {"sLock", "rLock"} ~> opPc[p] \in {"done", "none"}

\* The poller converges: with a host link that stays up, input comes back (reader open,
\* reports let through), whatever toggles and failed reopens came before.
InputRecovers == <>[]link => <>[](readerOpen /\ ~suspended)
=============================================================================
