----------------------------- MODULE DiskBridge -----------------------------
(***************************************************************************)
(* Reads of a disk image that the browser serves over the "disk" data      *)
(* channel (remote_mount.rs).  The NBD server's thread (block_device.rs)   *)
(* reads one range after the other; each becomes a request on the channel  *)
(* whose sender is installed, and the bytes that come in, from whichever   *)
(* channel, are gathered in one buffer without saying whose answer they    *)
(* are.  A byte is named by its position in the image.                     *)
(***************************************************************************)
EXTENDS Naturals, Sequences, SequencesExt

CONSTANTS
  DiskChannels,   \* disk data channels, of one browser after the other
  DiskSize,       \* bytes of the image
  MaxReads        \* bound on reads

ASSUME DiskAssumption == DiskSize \in Nat \ {0} /\ MaxReads \in Nat

VARIABLES
  diskSender,   \* TRANSPORT.sender and WEBRTC_READ_HANDLER: the channel, or "none"
  inFlight,     \* InFlight.in_flight
  diskBuf,      \* InFlight.buf
  chan,         \* each channel: new, open, closing (its on_close has not run), closed
  asked,        \* ranges the browser has been asked for, per channel
  wire,         \* bytes on the way from the browser, per channel
  read,         \* the current read: its range, where it is, the sender it cloned
  reads,        \* how many have been made
  timedOut      \* some read gave up waiting

diskVars == <<diskSender, inFlight, diskBuf, chan, asked, wire, read, reads, timedOut>>

\* The bytes of positions from..to-1.
Bytes(from, to) == [i \in 1..(to - from) |-> from + i - 1]

\* RemoteImageDevice::read and WebRtcDiskReader::read_at clamp a range to the image.
ClampedEnd(off, len) == IF off >= DiskSize THEN off ELSE IF off + len > DiskSize THEN DiskSize ELSE off + len

NoRead == [off |-> 0, end |-> 0, pc |-> "idle", via |-> "none", data |-> <<>>]

DiskTypeOK ==
  /\ diskSender \in {"none"} \cup DiskChannels
  /\ inFlight \in BOOLEAN
  /\ diskBuf \in Seq(0..(DiskSize - 1))
  /\ chan \in [DiskChannels -> {"new", "open", "closing", "closed"}]
  /\ wire \in [DiskChannels -> Seq(0..(DiskSize - 1))]
  /\ read.pc \in {"idle", "send", "wait", "ok", "failed", "refused"}
  /\ reads \in 0..MaxReads

DiskInit ==
  /\ diskSender = "none" /\ inFlight = FALSE /\ diskBuf = <<>>
  /\ chan = [c \in DiskChannels |-> "new"]
  /\ asked = [c \in DiskChannels |-> <<>>]
  /\ wire = [c \in DiskChannels |-> <<>>]
  /\ read = NoRead /\ reads = 0 /\ timedOut = FALSE

\* on_open installs the channel's sender and the bridge.
OpenDisk(c) ==
  /\ chan[c] = "new"
  /\ chan' = [chan EXCEPT ![c] = "open"]
  /\ diskSender' = c
  /\ UNCHANGED <<inFlight, diskBuf, asked, wire, read, reads, timedOut>>

\* The browser goes away, and with it what was on the wire.
LoseDisk(c) ==
  /\ chan[c] = "open"
  /\ chan' = [chan EXCEPT ![c] = "closing"]
  /\ asked' = [asked EXCEPT ![c] = <<>>]
  /\ wire' = [wire EXCEPT ![c] = <<>>]
  /\ UNCHANGED <<diskSender, inFlight, diskBuf, read, reads, timedOut>>

\* on_close clears sender and handler, whosever they are.
CloseDisk(c) ==
  /\ chan[c] = "closing"
  /\ chan' = [chan EXCEPT ![c] = "closed"]
  /\ diskSender' = "none"
  /\ UNCHANGED <<inFlight, diskBuf, asked, wire, read, reads, timedOut>>

\* WebRtcBridge::read up to the request: an empty range is answered at once, a missing
\* sender and a read in flight are errors, and the buffer is emptied otherwise.
StartRead(off, len) ==
  /\ read.pc \notin {"send", "wait"}
  /\ reads < MaxReads
  /\ reads' = reads + 1
  /\ LET end == ClampedEnd(off, len)
         Return(pc) == /\ read' = [off |-> off, end |-> end, pc |-> pc, via |-> "none", data |-> <<>>]
                       /\ UNCHANGED <<inFlight, diskBuf>>
     IN CASE end = off -> Return("ok")
          [] end # off /\ diskSender = "none" -> Return("failed")
          [] end # off /\ diskSender # "none" /\ inFlight -> Return("refused")
          [] OTHER -> /\ read' = [off |-> off, end |-> end, pc |-> "send", via |-> diskSender, data |-> <<>>]
                      /\ inFlight' = TRUE
                      /\ diskBuf' = <<>>
  /\ UNCHANGED <<diskSender, chan, asked, wire, timedOut>>

\* Mutant: the browser is asked for everything up to the end of the image.
SendReadAhead ==
  /\ read.pc = "send"
  /\ IF chan[read.via] = "open"
     THEN /\ asked' = [asked EXCEPT ![read.via] = Append(@, <<read.off, DiskSize>>)]
          /\ read' = [read EXCEPT !.pc = "wait"]
     ELSE read' = [read EXCEPT !.pc = "failed"] /\ UNCHANGED asked
  /\ UNCHANGED <<diskSender, inFlight, diskBuf, chan, wire, reads, timedOut>>

\* sender(&text)?: an error returns at once and leaves in_flight set.
SendRead ==
  /\ read.pc = "send"
  /\ IF chan[read.via] = "open"
     THEN /\ asked' = [asked EXCEPT ![read.via] = Append(@, <<read.off, read.end>>)]
          /\ read' = [read EXCEPT !.pc = "wait"]
     ELSE read' = [read EXCEPT !.pc = "failed"] /\ UNCHANGED asked
  /\ UNCHANGED <<diskSender, inFlight, diskBuf, chan, wire, reads, timedOut>>

\* The browser answers the ranges in order, in messages of any length.
BrowserAnswers(c) ==
  /\ chan[c] = "open" /\ asked[c] # <<>>
  /\ wire' = [wire EXCEPT ![c] = @ \o Bytes(Head(asked[c])[1], Head(asked[c])[2])]
  /\ asked' = [asked EXCEPT ![c] = Tail(@)]
  /\ UNCHANGED <<diskSender, inFlight, diskBuf, chan, read, reads, timedOut>>

\* webrtc_disk_on_message appends what is behind the header.
DiskMessage(c, n) ==
  /\ chan[c] = "open" /\ n \in 1..Len(wire[c])
  /\ diskBuf' = diskBuf \o SubSeq(wire[c], 1, n)
  /\ wire' = [wire EXCEPT ![c] = SubSeq(@, n + 1, Len(@))]
  /\ UNCHANGED <<diskSender, inFlight, chan, asked, read, reads, timedOut>>

FinishRead ==
  /\ read.pc = "wait"
  /\ LET need == read.end - read.off IN
     /\ Len(diskBuf) >= need
     /\ read' = [read EXCEPT !.pc = "ok", !.data = SubSeq(diskBuf, 1, need)]
     /\ diskBuf' = SubSeq(diskBuf, need + 1, Len(diskBuf))
  /\ inFlight' = FALSE
  /\ UNCHANGED <<diskSender, chan, asked, wire, reads, timedOut>>

\* Mutant: only a read whose channel has closed gives up.
TimeoutClosedOnly ==
  /\ read.pc = "wait" /\ diskSender = "none"
  /\ read' = [read EXCEPT !.pc = "failed"]
  /\ inFlight' = FALSE /\ timedOut' = TRUE
  /\ UNCHANGED <<diskSender, diskBuf, chan, asked, wire, reads>>

\* READ_TIMEOUT has passed.
TimeoutRead ==
  /\ read.pc = "wait"
  /\ Len(diskBuf) < read.end - read.off
  /\ read' = [read EXCEPT !.pc = "failed"]
  /\ inFlight' = FALSE
  /\ timedOut' = TRUE
  /\ UNCHANGED <<diskSender, diskBuf, chan, asked, wire, reads>>

DiskStep == SendRead \/ FinishRead \/ TimeoutRead
DiskNext ==
  \/ \E c \in DiskChannels : OpenDisk(c) \/ LoseDisk(c) \/ CloseDisk(c) \/ BrowserAnswers(c)
  \/ \E c \in DiskChannels, n \in 1..(MaxReads * DiskSize) : DiskMessage(c, n)
  \/ \E off \in 0..DiskSize, len \in 1..DiskSize : StartRead(off, len)
  \/ DiskStep

\* The host gets the bytes of the range it asked for, unless an earlier read timed out: the
\* answer to that one may still arrive and be taken for the answer to this one.
ReadsOwnRange ==
  (read.pc = "ok" /\ ~timedOut) => read.data \in {Bytes(read.off, read.end), <<>>}

\* What a read returns is as long as the part of the image it asked for, whatever arrives.
ReadsWholeRange == read.pc = "ok" => Len(read.data) = read.end - read.off

\* in_flight is set whenever the thread waits for an answer, so that no second reader
\* could take its bytes out of the buffer.
WaitingIsInFlight == read.pc \in {"send", "wait"} => inFlight

\* Every read comes back, also when the browser never answers: the NBD server's thread, which
\* stop_nbd joins, does not hang.
ReadsReturn == (read.pc \in {"send", "wait"}) ~> (read.pc \notin {"send", "wait"})

\* The read in progress owns the bridge and returns its own range, whole, whichever channel
\* answers, unless an earlier read timed out.
DiskInv == DiskTypeOK /\ WaitingIsInFlight /\ ReadsWholeRange /\ ReadsOwnRange

=============================================================================
