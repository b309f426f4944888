--------------------------- MODULE Hardware_proofs ---------------------------
(***************************************************************************)
(* Proofs about the hardware the device drives: virtual media, the uploads *)
(* of images, the gadget's set-up, the power extensions, the backlight and  *)
(* HID I/O, for any number of requests, attempts, chunks, presses, wakes,   *)
(* toggles, failures and restarts.                                         *)
(***************************************************************************)
EXTENDS MCHardware, HidIo, FiniteSetTheorems, SequenceTheorems, TLAPS

-----------------------------------------------------------------------------
(* Virtual media *)

MediaSpec == MediaInit /\ [][MediaNext]_mediaVars

MediaEnded == {"new", "ok", "failed", "lost"}
Mounting == {"mode", "probe", "claim", "reader", "nbd", "image", "record"}
Unmounting == {"clear", "stop", "idle_mode", "forget", "unread"}

MediaTypes ==
  /\ MediaTypeOK
  /\ mediaPc \in [MediaRequests -> MediaEnded \cup Mounting \cup Unmounting]
  /\ mediaArgs \in [MediaRequests -> [kind : Remote \cup {"storage", "unmount"}, cdrom : BOOLEAN,
                                      image : {"none"} \cup Images]]
  /\ \A r \in MediaRequests : mediaArgs[r].kind = "storage" => mediaArgs[r].image \in Images

\* What a request relies on from one of its steps to a later one.  A mount: the mode it has set, the
\* state it has claimed, the reader it has installed and, from the claim to the start, that no
\* server runs.  An unmount: that the server it has stopped stays so, and the LUN cleared.
ReliesOn(r) ==
  LET pc == mediaPc[r]
      args == mediaArgs[r]
      handing == pc = "image" /\ args.kind \in Remote
  IN /\ pc \in Mounting => args.kind # "unmount"
     /\ pc \in Unmounting => args.kind = "unmount"
     /\ pc \in {"probe", "claim", "reader", "nbd"} => args.kind \in Remote
     /\ pc \in Mounting \ {"mode"} => cdrom = args.cdrom
     /\ pc = "record" => args.kind = "storage" /\ lun = args.image
     /\ pc \in {"reader", "nbd"} \/ handing => mediaState = [source |-> args.kind, cdrom |-> args.cdrom, of |-> r]
     /\ pc \in {"reader", "nbd"} => nbd = "off"
     /\ pc = "nbd" \/ handing => reader = r
     /\ handing => nbd \in {"starting", r}
     /\ pc \in {"idle_mode", "forget", "unread"} => nbd = "off"
     /\ pc \in Unmounting \ {"clear"} /\ mediaFaults = 0 => lun = "empty"

\* Without a recorded medium no server runs, a reader is there only until the unmount under way has
\* dropped it, and the LUN is empty but for a mount that is about to record what it holds.
NothingUnrecorded ==
  mediaState = NoMedia =>
    /\ nbd = "off"
    /\ reader = "none" \/ \E r \in MediaRequests : mediaPc[r] = "unread"
    /\ mediaFaults > 0 \/ lun = "empty" \/ \E r \in MediaRequests : mediaPc[r] = "record"

MediaIInv ==
  /\ MediaTypes
  /\ \A r, s \in MediaActive : r = s
  /\ \A r \in MediaRequests : ReliesOn(r)
  /\ NothingUnrecorded

\* A request that has come to an end, or not begun, relies on nothing.
LEMMA EndedReliesOnNothing ==
  ASSUME NEW r \in MediaRequests, mediaPc[r] \in MediaEnded
  PROVE  ReliesOn(r)
BY DEF ReliesOn, MediaEnded, Mounting, Unmounting

\* With one request at a time, the one that begins is the only one.
LEMMA MediaAlone ==
  ASSUME MediaIInv, MaxMediaActive = 1, Cardinality(MediaActive) < MaxMediaActive
  PROVE  MediaActive = {}
<1>1. IsFiniteSet(MediaActive)
  BY MediaAssumption, FS_Subset DEF MediaActive
<1>2. Cardinality(MediaActive) \in Nat
  BY <1>1, FS_CardinalityType
<1>3. Cardinality(MediaActive) = 0
  BY <1>2
<1> QED BY <1>1, <1>3, FS_EmptySet

\* A request that goes on while all others rest: what is left to show is what it relies on then, and
\* that nothing is unrecorded.
LEMMA MediaGoesOn ==
  ASSUME MediaIInv, NEW r \in MediaRequests, NEW pc \in MediaEnded \cup Mounting \cup Unmounting,
         MediaGoto(r, pc), mediaPc[r] \notin MediaEnded \/ MediaActive = {}, MediaTypes'
  PROVE  /\ mediaPc'[r] = pc
         /\ \A s \in MediaRequests : s # r => mediaPc'[s] = mediaPc[s] /\ mediaPc[s] \in MediaEnded
         /\ \A x, y \in MediaActive' : x = y
         /\ ReliesOn(r)' /\ NothingUnrecorded' => MediaIInv'
<1>1. \A s \in MediaRequests : mediaPc'[s] = IF s = r THEN pc ELSE mediaPc[s]
  BY DEF MediaGoto, MediaIInv, MediaTypes
<1>2. \A s \in MediaRequests : s # r => mediaPc[s] \in MediaEnded
  BY DEF MediaIInv, MediaActive, MediaEnded
<1>3. \A x \in MediaActive' : x = r
  BY <1>1, <1>2 DEF MediaActive, MediaEnded
<1>4. \A s \in MediaRequests : s # r => ReliesOn(s)'
  BY <1>1, <1>2 DEF ReliesOn, MediaEnded, Mounting, Unmounting
<1> QED BY <1>1, <1>2, <1>3, <1>4 DEF MediaIInv

\* Types, when only the place of r and what is named change.
LEMMA MediaTypesStay ==
  ASSUME MediaIInv, NEW r \in MediaRequests, NEW pc \in MediaEnded \cup Mounting \cup Unmounting,
         MediaGoto(r, pc), MediaTypeOK', UNCHANGED mediaArgs
  PROVE  MediaTypes'
BY DEF MediaIInv, MediaTypes, MediaGoto

\* The first step of a request: what it needs checked, and its place taken.
LEMMA MediaStartStep ==
  ASSUME MediaIInv, MaxMediaActive = 1, NEW r \in MediaRequests, NEW kind \in Remote \cup {"storage", "unmount"},
         NEW cd \in BOOLEAN, NEW image \in {"none"} \cup Images, kind = "storage" => image \in Images,
         StartMedia(r, kind, cd, image)
  PROVE  MediaIInv'
<1> DEFINE pc == IF kind = "unmount" THEN "clear" ELSE "mode"
           args == [kind |-> kind, cdrom |-> cd, image |-> image]
<1>0. /\ mediaPc[r] = "new" /\ MediaGoto(r, pc) /\ mediaArgs' = [mediaArgs EXCEPT ![r] = args]
      /\ UNCHANGED <<mediaState, lun, cdrom, reader, nbd, mediaFaults, mediaRestarts>>
      /\ MediaActive = {}
  BY MediaAlone DEF StartMedia
<1>1. pc \in MediaEnded \cup Mounting \cup Unmounting
  BY DEF Mounting, Unmounting
<1>2. \A s \in MediaRequests : mediaArgs'[s] = IF s = r THEN args ELSE mediaArgs[s]
  BY <1>0 DEF MediaIInv, MediaTypes
<1>3. MediaTypes'
  <2>1. args \in [kind : Remote \cup {"storage", "unmount"}, cdrom : BOOLEAN, image : {"none"} \cup Images]
    OBVIOUS
  <2> HIDE DEF pc, args
  <2>2. /\ mediaPc' \in [MediaRequests -> MediaEnded \cup Mounting \cup Unmounting]
        /\ mediaArgs' \in [MediaRequests -> [kind : Remote \cup {"storage", "unmount"}, cdrom : BOOLEAN,
                                             image : {"none"} \cup Images]]
    BY <1>0, <1>1, <2>1 DEF MediaIInv, MediaTypes, MediaGoto
  <2>3. \A s \in MediaRequests : mediaArgs'[s].kind = "storage" => mediaArgs'[s].image \in Images
    <3>1. args.kind = kind /\ args.image = image
      BY DEF args
    <3> QED BY <1>2, <3>1 DEF MediaIInv, MediaTypes
  <2>4. MediaTypeOK'
    BY <1>0 DEF MediaIInv, MediaTypes, MediaTypeOK
  <2> QED BY <2>2, <2>3, <2>4 DEF MediaTypes
<1>4. mediaPc'[r] = pc /\ mediaArgs'[r] = args
  BY <1>0, <1>1, <1>2, <1>3, MediaGoesOn
<1>5. ReliesOn(r)'
  BY <1>4 DEF ReliesOn, Mounting, Unmounting
<1>6. NothingUnrecorded'
  <2>1. \A s \in MediaRequests : mediaPc[s] \notin {"unread", "record"}
    BY <1>0 DEF MediaActive
  <2> QED BY <1>0, <2>1 DEF MediaIInv, NothingUnrecorded
<1> HIDE DEF pc
<1> QED BY <1>0, <1>1, <1>3, <1>5, <1>6, MediaGoesOn

\* A step of a mount up to the image.
LEMMA MountStep ==
  ASSUME MediaIInv, NEW r \in MediaRequests,
         SetMode(r) \/ ProbeUrl(r) \/ ClaimMedia(r) \/ InstallReader(r) \/ StartNbd(r)
  PROVE  MediaIInv'
<1> USE DEF MediaEnded, Mounting, Unmounting
<1>0. /\ ReliesOn(r) /\ NothingUnrecorded /\ MediaTypeOK
      /\ mediaArgs[r] \in [kind : Remote \cup {"storage", "unmount"}, cdrom : BOOLEAN, image : {"none"} \cup Images]
  BY DEF MediaIInv, MediaTypes
<1>1. PICK pc \in {"probe", "claim", "reader", "nbd", "image", "failed"} : MediaGoto(r, pc)
  BY DEF SetMode, ProbeUrl, ClaimMedia, InstallReader, StartNbd, MediaFail
<1>2. mediaPc[r] \in {"mode", "probe", "claim", "reader", "nbd"} /\ UNCHANGED <<lun, mediaArgs, mediaRestarts>>
  BY DEF SetMode, ProbeUrl, ClaimMedia, InstallReader, StartNbd
<1>3. mediaFaults' \in {mediaFaults, mediaFaults + 1} /\ mediaFaults \in Nat /\ mediaFaults' \in 0..MaxMediaFaults
  BY <1>0, MediaAssumption DEF SetMode, ProbeUrl, ClaimMedia, InstallReader, StartNbd, MediaFail, MediaTypeOK
<1>4. MediaTypes'
  <2>1. mediaState'.source \in {"none", "http", "webrtc", "storage"}
    <3>1. CASE ClaimMedia(r)
      <4>1. mediaArgs[r].kind \in {"http", "webrtc"}
        BY <1>0, <3>1 DEF ClaimMedia, ReliesOn, Remote
      <4>2. \/ mediaState' = mediaState
            \/ mediaState' = [source |-> mediaArgs[r].kind, cdrom |-> mediaArgs[r].cdrom, of |-> r]
        BY <3>1 DEF ClaimMedia
      <4> QED BY <1>0, <4>1, <4>2 DEF MediaTypeOK
    <3> QED BY <1>0, <3>1 DEF SetMode, ProbeUrl, InstallReader, StartNbd, MediaTypeOK
  <2>2. cdrom' \in BOOLEAN
    BY <1>0 DEF SetMode, ProbeUrl, ClaimMedia, InstallReader, StartNbd, MediaTypeOK
  <2>3. reader' \in {"none"} \cup MediaRequests /\ nbd' \in {"off", "starting", "dead"} \cup MediaRequests
    BY <1>0 DEF SetMode, ProbeUrl, ClaimMedia, InstallReader, StartNbd, MediaTypeOK
  <2>4. MediaTypeOK'
    BY <1>0, <1>2, <1>3, <2>1, <2>2, <2>3 DEF MediaTypeOK
  <2> QED BY <1>1, <1>2, <2>4, MediaTypesStay
<1>5. mediaPc'[r] = pc /\ \A s \in MediaRequests : s # r => mediaPc'[s] = mediaPc[s] /\ mediaPc[s] \in MediaEnded
  BY <1>1, <1>2, <1>4, MediaGoesOn
<1>6. \A s \in MediaRequests : mediaPc[s] \notin {"unread", "record"}
  BY <1>2, <1>5
<1>7. ReliesOn(r)' /\ NothingUnrecorded'
  <2>1. CASE SetMode(r)
    <3>1. UNCHANGED <<mediaState, lun, reader, nbd, mediaArgs>> /\ mediaPc[r] = "mode"
      BY <2>1 DEF SetMode
    <3>2. pc # "failed" => cdrom' = mediaArgs[r].cdrom /\ (pc \in {"probe", "claim"} => mediaArgs[r].kind \in Remote)
                           /\ (pc = "image" => mediaArgs[r].kind \notin Remote) /\ pc \in {"probe", "claim", "image"}
      BY <1>5, <2>1 DEF SetMode, MediaFail, MediaGoto, MediaIInv, MediaTypes, Remote
    <3>3. ReliesOn(r)'
      BY <1>0, <1>5, <3>1, <3>2 DEF ReliesOn
    <3> QED BY <1>0, <1>3, <1>6, <3>1, <3>3 DEF NothingUnrecorded
  <2>2. CASE ProbeUrl(r)
    <3>1. UNCHANGED <<mediaState, lun, reader, nbd, mediaArgs, cdrom>> /\ mediaPc[r] = "probe"
      BY <2>2 DEF ProbeUrl
    <3>2. pc \in {"claim", "failed"}
      BY <1>5, <2>2 DEF ProbeUrl, MediaFail, MediaGoto, MediaIInv, MediaTypes
    <3>3. ReliesOn(r)'
      BY <1>0, <1>5, <3>1, <3>2 DEF ReliesOn
    <3> QED BY <1>0, <1>3, <1>6, <3>1, <3>3 DEF NothingUnrecorded
  <2>3. CASE ClaimMedia(r)
    <3>1. UNCHANGED <<lun, reader, nbd, mediaArgs, cdrom>> /\ mediaPc[r] = "claim"
      BY <2>3 DEF ClaimMedia
    <3>2. mediaArgs[r].kind \in Remote
      BY <1>0, <3>1 DEF ReliesOn
    <3>3. CASE mediaState = NoMedia
      <4>1. /\ pc = "reader" /\ mediaState' = [source |-> mediaArgs[r].kind, cdrom |-> mediaArgs[r].cdrom, of |-> r]
        BY <1>5, <2>3, <3>3 DEF ClaimMedia, MediaGoto, MediaIInv, MediaTypes
      <4>2. mediaState' # NoMedia
        BY <3>2, <4>1 DEF NoMedia, Remote
      <4>3. nbd = "off"
        BY <1>0, <3>3 DEF NothingUnrecorded
      <4>4. ReliesOn(r)'
        BY <1>0, <1>5, <3>1, <3>2, <4>1, <4>3 DEF ReliesOn
      <4> QED BY <4>2, <4>4 DEF NothingUnrecorded
    <3>4. CASE mediaState # NoMedia
      <4>1. pc = "failed" /\ mediaState' = mediaState
        BY <1>5, <2>3, <3>4 DEF ClaimMedia, MediaGoto, MediaIInv, MediaTypes
      <4>2. ReliesOn(r)'
        BY <1>5, <4>1 DEF ReliesOn
      <4> QED BY <3>4, <4>1, <4>2 DEF NothingUnrecorded
    <3> QED BY <3>3, <3>4
  <2>4. CASE InstallReader(r)
    <3>1. UNCHANGED <<mediaState, lun, nbd, mediaArgs, cdrom>> /\ mediaPc[r] = "reader" /\ reader' = r
      BY <2>4 DEF InstallReader
    <3>2. pc = "nbd"
      BY <1>5, <2>4 DEF InstallReader, MediaGoto, MediaIInv, MediaTypes
    <3>3. ReliesOn(r)'
      BY <1>0, <1>5, <3>1, <3>2 DEF ReliesOn
    <3>4. mediaState' # NoMedia
      BY <1>0, <3>1 DEF ReliesOn, NoMedia, Remote
    <3> QED BY <3>3, <3>4 DEF NothingUnrecorded
  <2>5. CASE StartNbd(r)
    <3>1. UNCHANGED <<mediaState, lun, reader, mediaArgs, cdrom>> /\ mediaPc[r] = "nbd" /\ nbd = "off"
      BY <1>0, <2>5 DEF StartNbd, ReliesOn
    <3>2. pc = "failed" \/ (pc = "image" /\ nbd' = "starting")
      BY <1>5, <2>5, <3>1 DEF StartNbd, MediaFail, MediaGoto, MediaIInv, MediaTypes
    <3>3. ReliesOn(r)'
      BY <1>0, <1>5, <3>1, <3>2 DEF ReliesOn
    <3>4. mediaState' # NoMedia
      BY <1>0, <3>1 DEF ReliesOn, NoMedia, Remote
    <3> QED BY <3>3, <3>4 DEF NothingUnrecorded
  <2> QED BY <2>1, <2>2, <2>3, <2>4, <2>5
<1> QED BY <1>1, <1>2, <1>4, <1>7, MediaGoesOn

\* The medium is handed to the LUN and recorded.
LEMMA PresentStep ==
  ASSUME MediaIInv, NEW r \in MediaRequests, SetImage(r) \/ RecordStorage(r)
  PROVE  MediaIInv'
<1> USE DEF MediaEnded, Mounting, Unmounting
<1>0. /\ ReliesOn(r) /\ NothingUnrecorded /\ MediaTypeOK
      /\ mediaArgs[r] \in [kind : Remote \cup {"storage", "unmount"}, cdrom : BOOLEAN, image : {"none"} \cup Images]
      /\ mediaArgs[r].kind = "storage" => mediaArgs[r].image \in Images
  BY DEF MediaIInv, MediaTypes
<1>1. PICK pc \in {"ok", "record", "failed"} : MediaGoto(r, pc)
  BY DEF SetImage, RecordStorage, MediaFail
<1>2. mediaPc[r] \in {"image", "record"} /\ UNCHANGED <<cdrom, reader, nbd, mediaArgs, mediaRestarts>>
  BY DEF SetImage, RecordStorage
<1>3. mediaFaults' \in {mediaFaults, mediaFaults + 1} /\ mediaFaults \in Nat /\ mediaFaults' \in 0..MaxMediaFaults
  BY <1>0, MediaAssumption DEF SetImage, RecordStorage, MediaFail, MediaTypeOK
<1>4. MediaTypes'
  <2>1. Target(r) \in {"empty", NbdDevice} \cup Images
    BY <1>0, <1>2 DEF Target, ReliesOn
  <2>2. lun' \in {"empty", NbdDevice} \cup Images
    BY <1>0, <2>1 DEF SetImage, RecordStorage, MediaTypeOK
  <2>3. mediaState'.source \in {"none", "http", "webrtc", "storage"}
    BY <1>0 DEF SetImage, RecordStorage, MediaTypeOK
  <2>4. MediaTypeOK'
    BY <1>0, <1>2, <1>3, <2>2, <2>3 DEF MediaTypeOK
  <2> QED BY <1>1, <1>2, <2>4, MediaTypesStay
<1>5. mediaPc'[r] = pc /\ \A s \in MediaRequests : s # r => mediaPc'[s] = mediaPc[s] /\ mediaPc[s] \in MediaEnded
  BY <1>1, <1>2, <1>4, MediaGoesOn
<1>6. ReliesOn(r)' /\ NothingUnrecorded'
  <2>1. CASE SetImage(r)
    <3>1. mediaPc[r] = "image" /\ UNCHANGED mediaState
      BY <2>1 DEF SetImage
    <3>2. \A s \in MediaRequests : mediaPc[s] \notin {"unread", "record"}
      BY <1>5, <3>1
    <3>3. CASE pc = "failed"
      <4>1. mediaFaults' > 0
        BY <1>3, <1>5, <2>1, <3>3 DEF SetImage, MediaFail, MediaGoto, MediaIInv, MediaTypes
      <4>2. ReliesOn(r)'
        BY <1>5, <3>3 DEF ReliesOn
      <4> QED BY <1>0, <1>2, <3>1, <3>2, <4>1, <4>2 DEF NothingUnrecorded
    <3>4. CASE pc = "ok"
      <4>1. mediaArgs[r].kind \in Remote
        BY <1>5, <2>1, <3>4 DEF SetImage, MediaFail, MediaGoto, MediaIInv, MediaTypes
      <4>2. mediaState' # NoMedia
        BY <1>0, <3>1, <4>1 DEF ReliesOn, NoMedia, Remote
      <4>3. ReliesOn(r)'
        BY <1>5, <3>4 DEF ReliesOn
      <4> QED BY <4>2, <4>3 DEF NothingUnrecorded
    <3>5. CASE pc = "record"
      <4>1. mediaArgs[r].kind \notin Remote /\ lun' = Target(r) /\ mediaFaults' = mediaFaults
        BY <1>5, <2>1, <3>5 DEF SetImage, MediaFail, MediaGoto, MediaIInv, MediaTypes
      <4>2. mediaArgs[r].kind = "storage" /\ lun' = mediaArgs[r].image
        BY <1>0, <3>1, <4>1 DEF ReliesOn, Target
      <4>3. ReliesOn(r)'
        BY <1>0, <1>2, <1>5, <3>1, <3>5, <4>2 DEF ReliesOn, Remote
      <4> QED BY <1>0, <1>2, <1>5, <3>1, <3>2, <3>5, <4>3 DEF NothingUnrecorded
    <3> QED BY <3>3, <3>4, <3>5
  <2>2. CASE RecordStorage(r)
    <3>1. pc = "ok" /\ mediaState' # NoMedia
      BY <1>5, <2>2 DEF RecordStorage, MediaGoto, MediaIInv, MediaTypes, NoMedia
    <3> QED BY <1>5, <3>1 DEF ReliesOn, NothingUnrecorded
  <2> QED BY <2>1, <2>2
<1> QED BY <1>1, <1>2, <1>4, <1>6, MediaGoesOn

\* A step of an unmount.  Its failing writes are only logged.
LEMMA UnmountStep ==
  ASSUME MediaIInv, NEW r \in MediaRequests,
         ClearImage(r) \/ StopNbd(r) \/ ResetMode(r) \/ ForgetState(r) \/ DropReader(r)
  PROVE  MediaIInv'
<1> USE DEF MediaEnded, Mounting, Unmounting
<1>0. ReliesOn(r) /\ NothingUnrecorded /\ MediaTypeOK
  BY DEF MediaIInv, MediaTypes
<1>1. PICK pc \in {"stop", "idle_mode", "forget", "unread", "ok"} : MediaGoto(r, pc)
  BY DEF ClearImage, StopNbd, ResetMode, ForgetState, DropReader
<1>2. mediaPc[r] \in Unmounting /\ UNCHANGED <<mediaArgs, mediaRestarts>>
  BY DEF ClearImage, StopNbd, ResetMode, ForgetState, DropReader
<1>3. mediaFaults' \in {mediaFaults, mediaFaults + 1} /\ mediaFaults \in Nat /\ mediaFaults' \in 0..MaxMediaFaults
  BY <1>0, MediaAssumption DEF ClearImage, StopNbd, ResetMode, ForgetState, DropReader, Lenient, MediaTypeOK
<1>4. MediaTypes'
  <2>1. cdrom' \in BOOLEAN
    BY <1>0 DEF ClearImage, StopNbd, ResetMode, ForgetState, DropReader, Lenient, MediaTypeOK
  <2>2. /\ lun' \in {"empty", NbdDevice} \cup Images /\ reader' \in {"none"} \cup MediaRequests
        /\ nbd' \in {"off", "starting", "dead"} \cup MediaRequests
    BY <1>0 DEF ClearImage, StopNbd, ResetMode, ForgetState, DropReader, Lenient, MediaTypeOK
  <2>3. mediaState'.source \in {"none", "http", "webrtc", "storage"}
    <3>1. mediaState' = mediaState \/ mediaState' = NoMedia
      BY DEF ClearImage, StopNbd, ResetMode, ForgetState, DropReader
    <3>2. NoMedia.source = "none"
      BY DEF NoMedia
    <3> QED BY <1>0, <3>1, <3>2 DEF MediaTypeOK
  <2>4. MediaTypeOK'
    BY <1>0, <1>2, <1>3, <2>1, <2>2, <2>3 DEF MediaTypeOK
  <2> QED BY <1>1, <1>2, <2>4, MediaTypesStay
<1>5. mediaPc'[r] = pc /\ \A s \in MediaRequests : s # r => mediaPc'[s] = mediaPc[s] /\ mediaPc[s] \in MediaEnded
  BY <1>1, <1>2, <1>4, MediaGoesOn
<1>6. \A s \in MediaRequests : mediaPc[s] # "record" /\ (mediaPc[s] = "unread" => s = r)
  BY <1>2, <1>5
<1>7. ReliesOn(r)' /\ NothingUnrecorded'
  <2>1. CASE ClearImage(r)
    <3>1. mediaPc[r] = "clear" /\ UNCHANGED <<mediaState, cdrom, reader, nbd>>
      BY <2>1 DEF ClearImage
    <3>2. pc = "stop"
      BY <1>5, <2>1 DEF ClearImage, MediaGoto, MediaIInv, MediaTypes
    <3>3. lun' = "empty" \/ mediaFaults' > 0
      BY <1>3, <2>1 DEF ClearImage, Lenient
    <3>4. ReliesOn(r)'
      BY <1>0, <1>2, <1>3, <1>5, <3>1, <3>2, <3>3 DEF ReliesOn
    <3> QED BY <1>0, <1>6, <3>1, <3>3, <3>4 DEF NothingUnrecorded
  <2>2. CASE StopNbd(r)
    <3>1. mediaPc[r] = "stop" /\ UNCHANGED <<mediaState, lun, cdrom, reader, mediaFaults>> /\ nbd' = "off"
      BY <2>2 DEF StopNbd
    <3>2. pc = "idle_mode"
      BY <1>5, <2>2 DEF StopNbd, MediaGoto, MediaIInv, MediaTypes
    <3>3. ReliesOn(r)'
      BY <1>0, <1>2, <1>5, <3>1, <3>2 DEF ReliesOn
    <3> QED BY <1>0, <1>6, <3>1, <3>3 DEF NothingUnrecorded
  <2>3. CASE ResetMode(r)
    <3>1. mediaPc[r] = "idle_mode" /\ UNCHANGED <<mediaState, lun, reader, nbd>>
      BY <2>3 DEF ResetMode
    <3>2. pc = "forget"
      BY <1>5, <2>3 DEF ResetMode, MediaGoto, MediaIInv, MediaTypes
    <3>3. mediaFaults' = 0 => mediaFaults = 0
      BY <1>3
    <3>4. ReliesOn(r)'
      BY <1>0, <1>2, <1>5, <3>1, <3>2, <3>3 DEF ReliesOn
    <3> QED BY <1>0, <1>3, <1>6, <3>1, <3>4 DEF NothingUnrecorded
  <2>4. CASE ForgetState(r)
    <3>1. mediaPc[r] = "forget" /\ UNCHANGED <<lun, cdrom, reader, nbd, mediaFaults>>
      BY <2>4 DEF ForgetState
    <3>2. pc = "unread"
      BY <1>5, <2>4 DEF ForgetState, MediaGoto, MediaIInv, MediaTypes
    <3>3. ReliesOn(r)'
      BY <1>0, <1>2, <1>5, <3>1, <3>2 DEF ReliesOn
    <3>4. nbd' = "off" /\ (mediaFaults' > 0 \/ lun' = "empty")
      BY <1>0, <1>3, <3>1 DEF ReliesOn
    <3> QED BY <1>5, <3>2, <3>3, <3>4 DEF NothingUnrecorded
  <2>5. CASE DropReader(r)
    <3>1. mediaPc[r] = "unread" /\ UNCHANGED <<mediaState, lun, cdrom, nbd, mediaFaults>> /\ reader' = "none"
      BY <2>5 DEF DropReader
    <3>2. pc = "ok"
      BY <1>5, <2>5 DEF DropReader, MediaGoto, MediaIInv, MediaTypes
    <3>3. ReliesOn(r)'
      BY <1>5, <3>2 DEF ReliesOn
    <3> QED BY <1>0, <1>6, <3>1, <3>3 DEF NothingUnrecorded
  <2> QED BY <2>1, <2>2, <2>3, <2>4, <2>5
<1> QED BY <1>1, <1>2, <1>4, <1>7, MediaGoesOn

\* The handshake of the server: a mount that has started it is still waiting to hand its device to
\* the LUN, or is over, and its reader is there.
LEMMA HandshakeStep ==
  ASSUME MediaIInv, NbdHandshake
  PROVE  MediaIInv'
<1>1. /\ nbd = "starting" /\ nbd' = (IF reader = "none" THEN "dead" ELSE reader)
      /\ UNCHANGED <<mediaState, lun, cdrom, reader, mediaPc, mediaArgs, mediaFaults, mediaRestarts>>
  BY DEF NbdHandshake
<1>2. MediaTypes'
  BY <1>1 DEF MediaIInv, MediaTypes, MediaTypeOK
<1>3. \A r \in MediaRequests : ReliesOn(r)'
  BY <1>1, MediaAssumption DEF MediaIInv, ReliesOn
<1>4. NothingUnrecorded'
  BY <1>1 DEF MediaIInv, NothingUnrecorded
<1> QED BY <1>1, <1>2, <1>3, <1>4 DEF MediaIInv, MediaActive

\* A restart of the process forgets the requests, the server and the state.
LEMMA MediaRestartStep ==
  ASSUME MediaIInv, RestartMedia
  PROVE  MediaIInv'
<1> USE DEF MediaEnded, Mounting, Unmounting
<1>1. /\ reader' = "none" /\ nbd' = "off" /\ mediaState' = RestoredState(lun', cdrom')
      /\ mediaRestarts' \in 0..MaxMediaRestarts
      /\ mediaPc' = [r \in MediaRequests |-> IF mediaPc[r] = "new" THEN "new" ELSE "lost"]
      /\ UNCHANGED <<mediaArgs, mediaFaults>>
  BY MediaAssumption DEF RestartMedia, MediaIInv, MediaTypes, MediaTypeOK
<1>2. lun' \in {lun, "empty"} /\ cdrom' \in {cdrom, FALSE}
  BY DEF RestartMedia
<1>3. \A r \in MediaRequests : mediaPc'[r] \in {"new", "lost"}
  BY <1>1
<1>4. MediaTypes'
  <2>1. mediaPc' \in [MediaRequests -> MediaEnded \cup Mounting \cup Unmounting]
    BY <1>1
  <2>2. mediaState'.source \in {"none", "http", "webrtc", "storage"}
    BY <1>1 DEF RestoredState, NoMedia
  <2>3. cdrom' \in BOOLEAN
    BY <1>2 DEF MediaIInv, MediaTypes, MediaTypeOK
  <2>4. MediaTypeOK'
    BY <1>1, <1>2, <2>2, <2>3 DEF MediaIInv, MediaTypes, MediaTypeOK
  <2> QED BY <1>1, <2>1, <2>4 DEF MediaIInv, MediaTypes
<1>5. \A r \in MediaRequests : ReliesOn(r)'
  BY <1>3 DEF ReliesOn
<1>6. NothingUnrecorded'
  <2>1. lun' # "empty" => mediaState' # NoMedia
    BY <1>1 DEF RestoredState, NoMedia
  <2> QED BY <1>1, <2>1 DEF NothingUnrecorded
<1>7. MediaActive' = {}
  BY <1>3 DEF MediaActive
<1> QED BY <1>4, <1>5, <1>6, <1>7 DEF MediaIInv

\* Every step of the media component, one lemma per handler.
LEMMA MediaNextStep ==
  ASSUME MediaIInv, MaxMediaActive = 1, MediaNext
  PROVE  MediaIInv'
<1>1. ASSUME NEW r \in MediaRequests, MediaStep(r) PROVE MediaIInv'
  <2>1. CASE StartMedia(r, "unmount", FALSE, "none")
    BY <2>1, MediaStartStep
  <2>2. ASSUME NEW kind \in Remote, NEW cd \in BOOLEAN, StartMedia(r, kind, cd, "none") PROVE MediaIInv'
    BY <2>2, MediaStartStep DEF Remote
  <2>3. ASSUME NEW cd \in BOOLEAN, NEW image \in Images, StartMedia(r, "storage", cd, image) PROVE MediaIInv'
    BY <2>3, MediaStartStep
  <2> QED BY <1>1, <2>1, <2>2, <2>3, MountStep, PresentStep, UnmountStep DEF MediaStep
<1> QED BY <1>1, HandshakeStep, MediaRestartStep DEF MediaNext

\* The inductive invariant, of requests one at a time.
LEMMA MediaInductive ==
  ASSUME MaxMediaActive = 1
  PROVE  MediaSpec => []MediaIInv
<1>1. MediaInit => MediaIInv
  <2> SUFFICES ASSUME MediaInit PROVE MediaIInv
    OBVIOUS
  <2>1. \A r \in MediaRequests : mediaPc[r] = "new" /\ mediaArgs[r].kind = "unmount"
    BY DEF MediaInit
  <2>2. MediaTypes
    <3>1. mediaPc \in [MediaRequests -> MediaEnded \cup Mounting \cup Unmounting]
      BY DEF MediaInit, MediaEnded
    <3>2. mediaArgs \in [MediaRequests -> [kind : Remote \cup {"storage", "unmount"}, cdrom : BOOLEAN,
                                      image : {"none"} \cup Images]]
      BY DEF MediaInit
    <3>3. cdrom \in BOOLEAN
      BY Zenon DEF MediaInit
    <3>4. mediaState.source = "none"
      BY DEF MediaInit, NoMedia
    <3>5. MediaTypeOK
      BY <3>3, <3>4, MediaAssumption DEF MediaInit, MediaTypeOK
    <3> QED BY <2>1, <3>1, <3>2, <3>5 DEF MediaTypes
  <2>3. \A r \in MediaRequests : ReliesOn(r)
    BY <2>1, EndedReliesOnNothing DEF MediaEnded
  <2> QED BY <2>1, <2>2, <2>3 DEF MediaIInv, MediaActive, NothingUnrecorded, MediaInit
<1>2. MediaIInv /\ [MediaNext]_mediaVars => MediaIInv'
  <2> SUFFICES ASSUME MediaIInv, [MediaNext]_mediaVars PROVE MediaIInv'
    OBVIOUS
  <2>1. CASE UNCHANGED mediaVars
    BY <2>1 DEF mediaVars, MediaIInv, MediaTypes, MediaTypeOK, MediaActive, ReliesOn, NothingUnrecorded
  <2> QED BY <2>1, MediaNextStep
<1> QED BY <1>1, <1>2, PTL DEF MediaSpec

\* Between requests nothing is served or shown to the host that the state does not report, however
\* many mounts and unmounts fail and at which of their steps, as long as they come one at a time.
THEOREM MediaInvHolds == MaxMediaActive = 1 => (MediaSpec => []MediaInv)
<1> SUFFICES ASSUME MaxMediaActive = 1 PROVE MediaSpec => []MediaInv
  OBVIOUS
<1>1. MediaIInv => MediaInv
  <2> SUFFICES ASSUME MediaIInv PROVE MediaInv
    OBVIOUS
  <2>1. MediaIdle => \A r \in MediaRequests : mediaPc[r] \notin {"unread", "record"}
    BY DEF MediaIdle, MediaActive
  <2>2. NothingServedUnreported
    BY <2>1 DEF MediaIInv, NothingUnrecorded, NothingServedUnreported
  <2>3. VisibleIsReported
    BY <2>1 DEF MediaIInv, NothingUnrecorded, VisibleIsReported
  <2> QED BY <2>2, <2>3 DEF MediaIInv, MediaTypes, MediaInv
<1> QED BY <1>1, MediaInductive, PTL

\* A mount that answers success presents its own medium in its own mode, through the server with its
\* own reader when it is remote.
THEOREM MountReturnsPresentedHolds == MaxMediaActive = 1 => (MediaSpec => MountReturnsPresented)
<1> SUFFICES ASSUME MaxMediaActive = 1 PROVE MediaSpec => MountReturnsPresented
  OBVIOUS
<1> DEFINE Returns == \A r \in MediaRequests :
       (mediaPc[r] # "ok" /\ mediaPc'[r] = "ok" /\ mediaArgs[r].kind # "unmount")
         => Presented' /\ cdrom' = mediaState'.cdrom /\ mediaState'.of \in {r, mediaArgs[r].image}
<1>1. MediaIInv /\ [MediaNext]_mediaVars => [Returns]_mediaVars
  <2> SUFFICES ASSUME MediaIInv, MediaNext, NEW r \in MediaRequests,
                      mediaPc[r] # "ok", mediaPc'[r] = "ok", mediaArgs[r].kind # "unmount"
               PROVE  Presented' /\ cdrom' = mediaState'.cdrom /\ mediaState'.of \in {r, mediaArgs[r].image}
    BY Zenon
  <2>0. ReliesOn(r) /\ mediaPc \in [MediaRequests -> MediaEnded \cup Mounting \cup Unmounting]
    BY DEF MediaIInv, MediaTypes
  <2>1. ASSUME NEW s \in MediaRequests, MediaStep(s)
        PROVE  s = r /\ (SetImage(r) \/ RecordStorage(r) \/ DropReader(r))
    <3>1. PICK pc : MediaGoto(s, pc)
      BY <2>1 DEF MediaStep, StartMedia, SetMode, ProbeUrl, ClaimMedia, InstallReader, StartNbd, SetImage,
         RecordStorage, ClearImage, StopNbd, ResetMode, ForgetState, DropReader, MediaFail
    <3>2. s = r
      BY <2>0, <3>1 DEF MediaGoto
    <3>3. /\ ~StartMedia(s, "unmount", FALSE, "none")
          /\ ~\E kind \in Remote, cd \in BOOLEAN : StartMedia(s, kind, cd, "none")
          /\ ~\E cd \in BOOLEAN, image \in Images : StartMedia(s, "storage", cd, image)
      BY <2>0, <3>2 DEF StartMedia, MediaGoto
    <3>4. ~SetMode(s) /\ ~ProbeUrl(s) /\ ~ClaimMedia(s) /\ ~InstallReader(s) /\ ~StartNbd(s)
      BY <2>0, <3>2 DEF SetMode, ProbeUrl, ClaimMedia, InstallReader, StartNbd, MediaFail, MediaGoto
    <3>5. ~ClearImage(s) /\ ~StopNbd(s) /\ ~ResetMode(s) /\ ~ForgetState(s)
      BY <2>0, <3>2 DEF ClearImage, StopNbd, ResetMode, ForgetState, MediaGoto
    <3> QED BY <2>1, <3>2, <3>3, <3>4, <3>5 DEF MediaStep
  <2>2. ~NbdHandshake /\ ~RestartMedia
    BY <2>0 DEF NbdHandshake, RestartMedia
  <2>3. SetImage(r) \/ RecordStorage(r) \/ DropReader(r)
    BY <2>1, <2>2 DEF MediaNext
  <2>4. ~DropReader(r)
    BY <2>0 DEF DropReader, ReliesOn, Unmounting
  <2>5. CASE SetImage(r)
    <3>1. /\ mediaPc[r] = "image" /\ lun' = Target(r) /\ mediaArgs[r].kind \in Remote
          /\ UNCHANGED <<mediaState, cdrom, reader, nbd>>
      BY <2>0, <2>5 DEF SetImage, MediaFail, MediaGoto
    <3>2. mediaState = [source |-> mediaArgs[r].kind, cdrom |-> mediaArgs[r].cdrom, of |-> r]
          /\ cdrom = mediaArgs[r].cdrom /\ reader = r /\ nbd \in {"starting", r}
      BY <2>0, <3>1 DEF ReliesOn, Mounting
    <3>3. mediaState.source \in Remote /\ mediaState.of = r /\ mediaState.cdrom = cdrom
      BY <3>1, <3>2
    <3> QED BY <3>1, <3>2, <3>3 DEF Presented, Target
  <2>6. CASE RecordStorage(r)
    <3>1. /\ mediaPc[r] = "record" /\ UNCHANGED <<lun, cdrom>>
          /\ mediaState' = [source |-> "storage", cdrom |-> mediaArgs[r].cdrom, of |-> mediaArgs[r].image]
      BY <2>6 DEF RecordStorage
    <3>2. lun = mediaArgs[r].image /\ cdrom = mediaArgs[r].cdrom
      BY <2>0, <3>1 DEF ReliesOn, Mounting
    <3>3. mediaState'.source = "storage" /\ mediaState'.cdrom = cdrom /\ mediaState'.of = lun
      BY <3>1, <3>2
    <3> QED BY <3>1, <3>2, <3>3 DEF Presented, Remote
  <2> QED BY <2>3, <2>4, <2>5, <2>6
<1> QED BY <1>1, MediaInductive, PTL DEF MediaSpec, MountReturnsPresented

-----------------------------------------------------------------------------
(* Uploads *)

UploadSpec == UploadInit /\ [][UploadNext]_upVars

Opened == {"insert", "sending", "complete", "rename"}
Handles == [inode : {"none"} \cup Uploads, already : Nat, err : BOOLEAN]
UpPcs == UpEnded \cup Opened \cup {"measure", "open"}

UploadTypes ==
  /\ partFile \in {"none"} \cup Uploads /\ finalFile \in {"none"} \cup Uploads
  /\ content \in [Uploads -> Seq(Nat)]
  /\ pending \subseteq Uploads
  /\ handle \in [Uploads -> Handles]
  /\ upPc \in [Uploads -> UpPcs]
  /\ via \in [Uploads -> {"http", "channel"}]
  /\ nextChunk \in [Uploads -> Nat \ {0}]
  /\ deleter \in {"idle", "part", "final"}
  /\ disturbed \subseteq {"overlap", "diskError", "fromStart"}

\* PENDING_UPLOADS has one entry at most, of an attempt that is sending or about to complete.
OnePending ==
  /\ \A u, v \in pending : u = v
  /\ \A u \in pending : upPc[u] \in {"sending", "complete"}

\* An inode is nobody's before its attempt creates it, and a file has one name.
FilesApart ==
  /\ \A u \in Uploads : upPc[u] \in {"new", "measure", "open"} =>
       /\ content[u] = <<>> /\ u \notin {partFile, finalFile}
       /\ \A v \in Uploads : handle[v].inode # u
  /\ partFile # "none" => partFile # finalFile

\* An attempt renames when its count is the size.
RenamesAtSize == \A u \in Uploads : upPc[u] = "rename" => handle[u].already = Chunks

\* Attempts and deletions that do not overlap: the file an attempt has opened stays NAME.incomplete,
\* and its entry stays in the table while it sends.
Undisputed ==
  "overlap" \notin disturbed =>
    /\ \A u, v \in UpActive : u = v
    /\ deleter # "idle" => UpActive = {}
    /\ \A u \in Uploads : upPc[u] \in Opened => partFile # "none" /\ handle[u].inode = partFile
    /\ \A u \in Uploads : upPc[u] = "sending" => u \in pending

\* Then the length measured is the length of the file opened, and the count goes on from there.
Counted ==
  disturbed \cap {"overlap", "diskError"} = {} =>
    \A u \in Uploads :
      /\ ~handle[u].err
      /\ upPc[u] = "open" => handle[u].already = IF partFile = "none" THEN 0 ELSE Len(content[partFile])
      /\ upPc[u] \in Opened => handle[u].already = Len(content[partFile])

\* And when clients go on after what is there, the partial file is a beginning of the source file.
PartIsPrefix ==
  disturbed = {} =>
    /\ partFile # "none" => \A i \in 1..Len(content[partFile]) : content[partFile][i] = i
    /\ \A u \in Uploads : upPc[u] = "sending" => nextChunk[u] = handle[u].already + 1

UploadIInv ==
  UploadTypes /\ OnePending /\ FilesApart /\ RenamesAtSize /\ Undisputed /\ Counted /\ PartIsPrefix /\ PublishedIsWhole

\* Where attempts that do not overlap are, when u is the one under way or about to be.
LEMMA UpAlone ==
  ASSUME UploadIInv, "overlap" \notin disturbed, NEW u \in Uploads, upPc[u] \notin UpEnded \/ UpActive = {}
  PROVE  \A v \in Uploads : v # u => upPc[v] \in UpEnded /\ upPc[v] \notin Opened \cup {"measure", "open"}
BY DEF UploadIInv, Undisputed, UpActive, UpEnded, Opened

\* The place of u changes, and no file, handle or position.
LEMMA UpMoveStep ==
  ASSUME UploadIInv, NEW u \in Uploads, NEW pc \in UpPcs, UpGoto(u, pc),
         UNCHANGED <<partFile, finalFile, content, handle, via, nextChunk, deleter>>,
         \/ /\ upPc[u] = "new" /\ pc \in {"measure", "refused"} /\ pending' = pending
            /\ disturbed' = IF UpActive # {} \/ deleter # "idle" THEN disturbed \cup {"overlap"} ELSE disturbed
         \/ /\ upPc[u] = "sending" /\ pc = "complete" /\ UNCHANGED <<pending, disturbed>>
         \/ /\ upPc[u] = "complete" /\ pc \in {"failed", "rename", "done"} /\ pending' = pending \ {u}
            /\ pc = "rename" => handle[u].already = Chunks
            /\ UNCHANGED disturbed
  PROVE  UploadIInv'
<1> USE DEF UploadIInv
<1>1. \A v \in Uploads : upPc'[v] = IF v = u THEN pc ELSE upPc[v]
  BY DEF UpGoto, UploadTypes
<1>2. UploadTypes'
  <2>1. upPc' \in [Uploads -> UpPcs]
    BY DEF UpGoto, UploadTypes
  <2> QED BY <2>1 DEF UploadTypes
<1>3. disturbed \subseteq disturbed' /\ (disturbed' = disturbed \/ "overlap" \in disturbed')
  OBVIOUS
<1>4. OnePending'
  <2>1. pending' \subseteq pending /\ pending \subseteq Uploads
    BY DEF UploadTypes
  <2> QED BY <1>1, <2>1 DEF OnePending
<1>5. FilesApart' /\ RenamesAtSize'
  BY <1>1 DEF FilesApart, RenamesAtSize
<1>6. Undisputed'
  <2> SUFFICES ASSUME "overlap" \notin disturbed' PROVE Undisputed'
    BY DEF Undisputed
  <2>1. "overlap" \notin disturbed /\ (upPc[u] \notin UpEnded \/ UpActive = {})
    BY <1>3 DEF UpEnded
  <2>2. \A v \in Uploads : v # u => upPc[v] \in UpEnded
    BY <2>1, UpAlone
  <2>3. \A v \in UpActive' : v = u
    BY <1>1, <2>2 DEF UpActive
  <2>4. deleter' # "idle" => UpActive' = {}
    <3>1. deleter # "idle" => UpActive = {} /\ upPc[u] # "new"
      BY <2>1 DEF Undisputed
    <3>2. deleter = "idle"
      BY <3>1 DEF UpActive, UpEnded
    <3> QED BY <3>2
  <2>5. \A v \in Uploads : upPc'[v] \in Opened => partFile' # "none" /\ handle'[v].inode = partFile'
    BY <1>1, <2>1 DEF Undisputed, Opened
  <2>6. \A v \in Uploads : upPc'[v] = "sending" => v \in pending'
    BY <1>1, <2>1 DEF Undisputed
  <2> QED BY <2>3, <2>4, <2>5, <2>6 DEF Undisputed
<1>7. Counted'
  BY <1>1, <1>3 DEF Counted, Opened
<1>8. PartIsPrefix' /\ PublishedIsWhole'
  BY <1>1, <1>3 DEF PartIsPrefix, PublishedIsWhole
<1> QED BY <1>2, <1>4, <1>5, <1>6, <1>7, <1>8

\* The handle of u after an assignment to one of its fields.
LEMMA MeasureStep ==
  ASSUME UploadIInv, NEW u \in Uploads, MeasurePart(u)
  PROVE  UploadIInv'
<1> USE DEF UploadIInv
<1> DEFINE n == IF partFile = "none" THEN 0 ELSE Len(content[partFile])
<1>0. /\ upPc[u] = "measure" /\ handle' = [handle EXCEPT ![u].already = n] /\ UpGoto(u, "open")
      /\ UNCHANGED <<partFile, finalFile, content, pending, via, nextChunk, deleter, disturbed>>
  BY DEF MeasurePart
<1>1. \A v \in Uploads : upPc'[v] = IF v = u THEN "open" ELSE upPc[v]
  BY <1>0 DEF UpGoto, UploadTypes
<1>2. n \in Nat
  BY DEF UploadTypes
<1> HIDE DEF n
<1>3. /\ handle' \in [Uploads -> Handles]
      /\ handle'[u].already = n /\ handle'[u].inode = handle[u].inode /\ handle'[u].err = handle[u].err
      /\ \A v \in Uploads : v # u => handle'[v] = handle[v]
  <2> DEFINE new == [handle[u] EXCEPT !.already = n]
  <2>1. handle \in [Uploads -> Handles] /\ handle[u] \in Handles
    BY DEF UploadTypes
  <2>2. new \in Handles /\ new.already = n /\ new.inode = handle[u].inode /\ new.err = handle[u].err
    BY <1>2, <2>1 DEF Handles
  <2>3. handle' = [handle EXCEPT ![u] = new]
    BY <1>0
  <2> HIDE DEF new
  <2> QED BY <2>1, <2>2, <2>3
<1>4. UploadTypes'
  <2>1. upPc' \in [Uploads -> UpPcs]
    BY <1>0 DEF UpGoto, UploadTypes, UpPcs
  <2> QED BY <1>0, <1>3, <2>1 DEF UploadTypes
<1>5. OnePending' /\ RenamesAtSize'
  <2>1. pending \subseteq Uploads
    BY DEF UploadTypes
  <2> QED BY <1>0, <1>1, <1>3, <2>1 DEF OnePending, RenamesAtSize
<1>6. FilesApart'
  <2>1. \A v \in Uploads : handle'[v].inode = handle[v].inode
    BY <1>3
  <2> QED BY <1>0, <1>1, <2>1 DEF FilesApart
<1>7. Undisputed'
  <2> SUFFICES ASSUME "overlap" \notin disturbed PROVE Undisputed'
    BY <1>0 DEF Undisputed
  <2>1. UpActive' = UpActive
    BY <1>0, <1>1 DEF UpActive, UpEnded
  <2>2. \A v \in Uploads : v # u => upPc[v] \notin Opened
    BY <1>0, UpAlone DEF UpEnded
  <2> QED BY <1>0, <1>1, <2>1, <2>2 DEF Undisputed, Opened
<1>8. Counted'
  BY <1>0, <1>1, <1>3 DEF Counted, Opened, n
<1>9. PartIsPrefix' /\ PublishedIsWhole'
  BY <1>0, <1>1, <1>3 DEF PartIsPrefix, PublishedIsWhole
<1> QED BY <1>4, <1>5, <1>6, <1>7, <1>8, <1>9

\* NAME.incomplete is opened, or created: then it is empty, and an inode nothing refers to.
LEMMA OpenStep ==
  ASSUME UploadIInv, NEW u \in Uploads, OpenPart(u)
  PROVE  UploadIInv'
<1> USE DEF UploadIInv
<1>0. /\ upPc[u] = "open" /\ partFile' = (IF partFile = "none" THEN u ELSE partFile)
      /\ handle' = [handle EXCEPT ![u].inode = partFile'] /\ UpGoto(u, "insert")
      /\ UNCHANGED <<finalFile, content, pending, via, nextChunk, deleter, disturbed>>
  BY DEF OpenPart
<1>1. \A v \in Uploads : upPc'[v] = IF v = u THEN "insert" ELSE upPc[v]
  BY <1>0 DEF UpGoto, UploadTypes
<1>2. partFile' \in Uploads /\ partFile' # "none"
  BY <1>0, UploadAssumption DEF UploadTypes
<1>3. /\ handle' \in [Uploads -> Handles]
      /\ handle'[u].already = handle[u].already /\ handle'[u].inode = partFile' /\ handle'[u].err = handle[u].err
      /\ \A v \in Uploads : v # u => handle'[v] = handle[v]
  <2> DEFINE new == [handle[u] EXCEPT !.inode = partFile']
  <2>1. handle \in [Uploads -> Handles] /\ handle[u] \in Handles
    BY DEF UploadTypes
  <2>2. new \in Handles /\ new.already = handle[u].already /\ new.inode = partFile' /\ new.err = handle[u].err
    BY <1>2, <2>1 DEF Handles
  <2>3. handle' = [handle EXCEPT ![u] = new]
    BY <1>0
  <2> HIDE DEF new
  <2> QED BY <2>1, <2>2, <2>3
<1>4. UploadTypes'
  <2>1. upPc' \in [Uploads -> UpPcs]
    BY <1>0 DEF UpGoto, UploadTypes, UpPcs, Opened
  <2> QED BY <1>0, <1>2, <1>3, <2>1 DEF UploadTypes
<1>5. OnePending' /\ RenamesAtSize'
  <2>1. pending \subseteq Uploads
    BY DEF UploadTypes
  <2> QED BY <1>0, <1>1, <1>3, <2>1 DEF OnePending, RenamesAtSize
<1>6. content[u] = <<>> /\ u # finalFile /\ u # partFile
  BY <1>0 DEF FilesApart
<1>7. FilesApart'
  <2>1. ASSUME NEW v \in Uploads, upPc'[v] \in {"new", "measure", "open"}
        PROVE  content'[v] = <<>> /\ v \notin {partFile', finalFile'} /\ \A w \in Uploads : handle'[w].inode # v
    <3>1. v # u /\ upPc[v] \in {"new", "measure", "open"}
      BY <1>1, <2>1
    <3>2. content[v] = <<>> /\ v \notin {partFile, finalFile} /\ \A w \in Uploads : handle[w].inode # v
      BY <3>1 DEF FilesApart
    <3> QED BY <1>0, <1>3, <3>1, <3>2
  <2>2. partFile' # finalFile'
    BY <1>0, <1>6 DEF FilesApart
  <2> QED BY <2>1, <2>2 DEF FilesApart
<1>8. Undisputed'
  <2> SUFFICES ASSUME "overlap" \notin disturbed PROVE Undisputed'
    BY <1>0 DEF Undisputed
  <2>1. UpActive' = UpActive
    BY <1>0, <1>1 DEF UpActive, UpEnded
  <2>2. \A v \in Uploads : v # u => upPc[v] \notin Opened
    BY <1>0, UpAlone DEF UpEnded
  <2>3. \A v \in Uploads : upPc'[v] \in Opened => v = u
    BY <1>1, <2>2
  <2>4. \A v \in Uploads : upPc'[v] # "sending"
    BY <1>1, <2>2 DEF Opened
  <2> QED BY <1>0, <1>2, <1>3, <2>1, <2>3, <2>4 DEF Undisputed
<1>9. Counted'
  <2> SUFFICES ASSUME disturbed \cap {"overlap", "diskError"} = {} PROVE Counted'
    BY <1>0 DEF Counted
  <2>1. \A v \in Uploads : v # u => upPc'[v] \notin Opened \cup {"open"}
    BY <1>0, <1>1, UpAlone DEF UpEnded
  <2>2. \A v \in Uploads : ~handle'[v].err
    BY <1>3 DEF Counted
  <2>3. handle'[u].already = Len(content'[partFile'])
    <3>1. handle[u].already = IF partFile = "none" THEN 0 ELSE Len(content[partFile])
      BY <1>0 DEF Counted
    <3>2. Len(<<>>) = 0
      OBVIOUS
    <3> QED BY <1>0, <1>3, <1>6, <3>1, <3>2
  <2>4. upPc'[u] = "insert"
    BY <1>1
  <2> QED BY <2>1, <2>2, <2>3, <2>4 DEF Counted
<1>10. PartIsPrefix' /\ PublishedIsWhole'
  <2>1. PublishedIsWhole'
    BY <1>0 DEF PublishedIsWhole
  <2>2. \A v \in Uploads : upPc'[v] = "sending" => upPc[v] = "sending" /\ handle'[v] = handle[v]
    BY <1>1, <1>3
  <2>3. disturbed = {} => \A i \in 1..Len(content'[partFile']) : content'[partFile'][i] = i
    <3>1. CASE partFile = "none"
      BY <1>0, <1>6, <3>1
    <3>2. CASE partFile # "none"
      BY <1>0, <3>2 DEF PartIsPrefix
    <3> QED BY <3>1, <3>2
  <2> QED BY <1>0, <2>1, <2>2, <2>3 DEF PartIsPrefix
<1> QED BY <1>4, <1>5, <1>7, <1>8, <1>9, <1>10

\* The registration of an upload that has opened its file.
LEMMA InsertStep ==
  ASSUME UploadIInv, NEW u \in Uploads, InsertUpload(u)
  PROVE  UploadIInv'
<1> USE DEF UploadIInv
<1> DEFINE n == IF via[u] = "http" THEN handle[u].already + 1 ELSE 1
<1>0. /\ upPc[u] = "insert" /\ pending' = {u} /\ UpGoto(u, "sending") /\ nextChunk' = [nextChunk EXCEPT ![u] = n]
      /\ disturbed' = IF via[u] = "channel" /\ handle[u].already > 0 THEN disturbed \cup {"fromStart"} ELSE disturbed
      /\ UNCHANGED <<partFile, finalFile, content, handle, via, deleter>>
  BY DEF InsertUpload, Disturb
<1>1. \A v \in Uploads : upPc'[v] = IF v = u THEN "sending" ELSE upPc[v]
  BY <1>0 DEF UpGoto, UploadTypes
<1>2. handle[u].already \in Nat /\ n \in Nat \ {0} /\ via[u] \in {"http", "channel"}
  BY DEF UploadTypes, Handles
<1>3. disturbed' = {} => n = handle[u].already + 1
  BY <1>0, <1>2
<1> HIDE DEF n
<1>4. UploadTypes'
  <2>1. upPc' \in [Uploads -> UpPcs] /\ nextChunk' \in [Uploads -> Nat \ {0}]
    BY <1>0, <1>2 DEF UpGoto, UploadTypes, UpPcs, Opened
  <2> QED BY <1>0, <2>1 DEF UploadTypes
<1>5. OnePending' /\ RenamesAtSize' /\ FilesApart'
  BY <1>0, <1>1 DEF OnePending, RenamesAtSize, FilesApart
<1>6. disturbed \subseteq disturbed' /\ ("overlap" \in disturbed' => "overlap" \in disturbed)
      /\ ("diskError" \in disturbed' => "diskError" \in disturbed)
  BY <1>0
<1>7. Undisputed'
  <2> SUFFICES ASSUME "overlap" \notin disturbed PROVE Undisputed'
    BY <1>6 DEF Undisputed
  <2>1. UpActive' = UpActive
    BY <1>0, <1>1 DEF UpActive, UpEnded
  <2>2. \A v \in Uploads : v # u => upPc[v] \notin Opened
    BY <1>0, UpAlone DEF UpEnded
  <2>3. \A v \in Uploads : upPc'[v] = "sending" => v = u
    BY <1>1, <2>2 DEF Opened
  <2> QED BY <1>0, <1>1, <2>1, <2>3 DEF Undisputed, Opened
<1>8. Counted'
  BY <1>0, <1>1, <1>6 DEF Counted, Opened
<1>9. PartIsPrefix'
  <2> SUFFICES ASSUME disturbed' = {} PROVE PartIsPrefix'
    BY DEF PartIsPrefix
  <2>1. disturbed = {}
    BY <1>6
  <2>2. nextChunk'[u] = handle'[u].already + 1 /\ \A v \in Uploads : v # u => nextChunk'[v] = nextChunk[v]
    BY <1>0, <1>3 DEF UploadTypes
  <2> QED BY <1>0, <1>1, <2>1, <2>2 DEF PartIsPrefix
<1>10. PublishedIsWhole'
  BY <1>0, <1>6 DEF PublishedIsWhole
<1> QED BY <1>4, <1>5, <1>7, <1>8, <1>9, <1>10

\* A chunk arrives: it is written to the file of the handle, or the write fails in the background, or
\* there is no entry any more or an error to report.
LEMMA SendStep ==
  ASSUME UploadIInv, NEW u \in Uploads, SendChunk(u)
  PROVE  UploadIInv'
<1> USE DEF UploadIInv
<1>0. /\ upPc[u] = "sending" /\ nextChunk' = [nextChunk EXCEPT ![u] = @ + 1]
      /\ UNCHANGED <<partFile, finalFile, pending, via, deleter>>
  BY DEF SendChunk
<1>1. PICK pc \in {"sending", "complete"} : UpGoto(u, pc)
  BY DEF SendChunk
<1>2. \A v \in Uploads : upPc'[v] = IF v = u THEN pc ELSE upPc[v]
  BY <1>1 DEF UpGoto, UploadTypes
<1>3. handle \in [Uploads -> Handles] /\ handle[u] \in Handles /\ handle[u].already \in Nat
  BY DEF UploadTypes, Handles
<1>4. nextChunk' \in [Uploads -> Nat \ {0}] /\ upPc' \in [Uploads -> UpPcs]
      /\ nextChunk'[u] = nextChunk[u] + 1 /\ \A v \in Uploads : v # u => nextChunk'[v] = nextChunk[v]
  BY <1>0, <1>1 DEF UploadTypes, UpGoto, UpPcs, Opened
\* what becomes of the handle and the file in the three cases
<1>5. /\ handle' \in [Uploads -> Handles] /\ handle'[u].inode = handle[u].inode
      /\ \A v \in Uploads : v # u => handle'[v] = handle[v]
      /\ \/ /\ u \in pending /\ ~handle'[u].err /\ handle'[u].already = handle[u].already + 1
            /\ content' = [content EXCEPT ![handle[u].inode] = Append(@, nextChunk[u])] /\ disturbed' = disturbed
         \/ content' = content /\ disturbed' = disturbed \cup {"diskError"}
         \/ /\ u \notin pending \/ handle[u].err
            /\ ~handle'[u].err /\ handle'[u].already = handle[u].already
            /\ content' = content /\ disturbed' = disturbed
  <2>1. CASE u \in pending /\ ~handle[u].err /\ AppendUpload(u, TRUE) /\ disturbed' = disturbed
    <3> DEFINE more == [handle[u] EXCEPT !.already = @ + 1]
               new == [more EXCEPT !.err = FALSE]
    <3>0. more \in Handles /\ more.inode = handle[u].inode /\ more.already = handle[u].already + 1
      BY <1>3 DEF Handles
    <3>1. new \in Handles /\ new.inode = handle[u].inode /\ ~new.err /\ new.already = handle[u].already + 1
      <4> HIDE DEF more
      <4> QED BY <3>0 DEF Handles
    <3>2. /\ handle' = [handle EXCEPT ![u] = new]
          /\ content' = [content EXCEPT ![handle[u].inode] = Append(@, nextChunk[u])]
      BY <2>1 DEF AppendUpload
    <3> HIDE DEF new
    <3> QED BY <1>3, <2>1, <3>1, <3>2
  <2>2. CASE AppendUpload(u, FALSE) /\ disturbed' = disturbed \cup {"diskError"}
    <3> DEFINE more == [handle[u] EXCEPT !.already = @ + 1]
               new == [more EXCEPT !.err = TRUE]
    <3>0. more \in Handles /\ more.inode = handle[u].inode /\ more.already = handle[u].already + 1
      BY <1>3 DEF Handles
    <3>1. new \in Handles /\ new.inode = handle[u].inode
      <4> HIDE DEF more
      <4> QED BY <3>0 DEF Handles
    <3>2. handle' = [handle EXCEPT ![u] = new] /\ content' = content
      BY <2>2 DEF AppendUpload
    <3> HIDE DEF new
    <3> QED BY <1>3, <2>2, <3>1, <3>2
  <2>3. CASE /\ ~(u \in pending /\ ~handle[u].err)
             /\ handle' = [handle EXCEPT ![u].err = FALSE] /\ UNCHANGED <<content, disturbed>>
    <3> DEFINE new == [handle[u] EXCEPT !.err = FALSE]
    <3>1. new \in Handles /\ new.inode = handle[u].inode /\ ~new.err /\ new.already = handle[u].already
      BY <1>3 DEF Handles
    <3>2. handle' = [handle EXCEPT ![u] = new]
      BY <2>3
    <3> HIDE DEF new
    <3> QED BY <1>3, <2>3, <3>1, <3>2
  <2> QED BY <2>1, <2>2, <2>3 DEF SendChunk, Disturb
<1>6. content' \in [Uploads -> Seq(Nat)] /\ \A v \in Uploads : v # handle[u].inode => content'[v] = content[v]
  <2>1. ASSUME handle[u].inode \in Uploads PROVE Append(content[handle[u].inode], nextChunk[u]) \in Seq(Nat)
    BY <2>1, AppendProperties DEF UploadTypes
  <2>2. CASE content' = content
    BY <2>2 DEF UploadTypes
  <2>3. CASE content' = [content EXCEPT ![handle[u].inode] = Append(@, nextChunk[u])]
    <3>1. CASE handle[u].inode \in Uploads
      BY <2>1, <2>3, <3>1 DEF UploadTypes
    <3>2. CASE handle[u].inode \notin Uploads
      BY <2>3, <3>2 DEF UploadTypes
    <3> QED BY <3>1, <3>2
  <2> QED BY <1>5, <2>2, <2>3
<1>7. UploadTypes'
  BY <1>0, <1>4, <1>5, <1>6 DEF UploadTypes
<1>8. OnePending' /\ RenamesAtSize'
  <2>1. pending \subseteq Uploads
    BY DEF UploadTypes
  <2> QED BY <1>0, <1>2, <1>5, <2>1 DEF OnePending, RenamesAtSize
<1>9. FilesApart'
  <2>1. \A v \in Uploads : handle'[v].inode = handle[v].inode
    BY <1>5
  <2>2. ASSUME NEW v \in Uploads, upPc'[v] \in {"new", "measure", "open"}
        PROVE  content'[v] = <<>> /\ v \notin {partFile', finalFile'} /\ \A w \in Uploads : handle'[w].inode # v
    <3>1. upPc[v] \in {"new", "measure", "open"}
      BY <1>2, <2>2
    <3>2. content[v] = <<>> /\ v \notin {partFile, finalFile} /\ \A w \in Uploads : handle[w].inode # v
      BY <3>1 DEF FilesApart
    <3>3. handle[u].inode # v
      BY <3>2
    <3> QED BY <1>0, <1>6, <2>1, <3>2, <3>3
  <2> QED BY <1>0, <2>2 DEF FilesApart
<1>10. disturbed \subseteq disturbed' /\ ("overlap" \in disturbed' => "overlap" \in disturbed)
  BY <1>5
<1>11. Undisputed'
  <2> SUFFICES ASSUME "overlap" \notin disturbed PROVE Undisputed'
    BY <1>10 DEF Undisputed
  <2>1. UpActive' = UpActive
    BY <1>0, <1>2 DEF UpActive, UpEnded
  <2>2. \A v \in Uploads : handle'[v].inode = handle[v].inode
    BY <1>5
  <2> QED BY <1>0, <1>2, <2>1, <2>2 DEF Undisputed, Opened
<1>12. Counted'
  <2> SUFFICES ASSUME disturbed' \cap {"overlap", "diskError"} = {} PROVE Counted'
    BY DEF Counted
  <2>1. disturbed \cap {"overlap", "diskError"} = {} /\ "diskError" \notin disturbed'
    BY <1>10
  <2>2. \A v \in Uploads : v # u => upPc'[v] \notin Opened \cup {"open"}
    BY <1>0, <1>2, <2>1, UpAlone DEF UpEnded
  <2>3. \A v \in Uploads : ~handle'[v].err
    BY <1>5, <2>1 DEF Counted
  <2>4. handle[u].inode = partFile /\ partFile \in Uploads /\ handle[u].already = Len(content[partFile])
    BY <1>0, <2>1 DEF Undisputed, Counted, Opened, UploadTypes
  <2>5. handle'[u].already = Len(content'[partFile])
    <3>1. content[partFile] \in Seq(Nat) /\ nextChunk[u] \in Nat
      BY <2>4 DEF UploadTypes
    <3>2. Len(Append(content[partFile], nextChunk[u])) = Len(content[partFile]) + 1
      BY <3>1, AppendProperties
    <3>3. CASE content' = [content EXCEPT ![handle[u].inode] = Append(@, nextChunk[u])]
               /\ handle'[u].already = handle[u].already + 1
      BY <2>4, <3>2, <3>3 DEF UploadTypes
    <3>4. CASE content' = content /\ handle'[u].already = handle[u].already
      BY <2>4, <3>4
    <3> QED BY <1>5, <2>1, <3>3, <3>4
  <2> QED BY <1>0, <1>2, <2>2, <2>3, <2>5 DEF Counted
<1>13. PartIsPrefix' /\ PublishedIsWhole'
  <2> SUFFICES ASSUME disturbed' = {} PROVE PartIsPrefix' /\ PublishedIsWhole'
    BY DEF PartIsPrefix, PublishedIsWhole
  <2>1. disturbed = {} /\ "diskError" \notin disturbed'
    BY <1>10
  <2>2. u \in pending /\ ~handle[u].err /\ handle[u].inode = partFile /\ partFile \in Uploads /\ partFile # finalFile
        /\ handle[u].already = Len(content[partFile]) /\ nextChunk[u] = handle[u].already + 1
    BY <1>0, <2>1 DEF Undisputed, Counted, PartIsPrefix, Opened, UploadTypes, FilesApart
  <2>3. /\ handle'[u].already = handle[u].already + 1
        /\ content' = [content EXCEPT ![handle[u].inode] = Append(@, nextChunk[u])]
    BY <1>5, <2>1, <2>2
  <2>4. content[partFile] \in Seq(Nat) /\ nextChunk[u] \in Nat /\ content'[partFile] = Append(content[partFile], nextChunk[u])
    BY <2>2, <2>3 DEF UploadTypes
  <2>5. \A i \in 1..Len(content'[partFile]) : content'[partFile][i] = i
    <3>1. Len(content'[partFile]) = Len(content[partFile]) + 1 /\ Len(content[partFile]) \in Nat
      BY <2>4, AppendProperties
    <3>2. \A i \in 1..Len(content[partFile]) : content'[partFile][i] = content[partFile][i]
      BY <2>4, AppendProperties
    <3>3. content'[partFile][Len(content[partFile]) + 1] = nextChunk[u]
      BY <2>4, AppendProperties
    <3>4. \A i \in 1..Len(content[partFile]) : content[partFile][i] = i
      BY <2>1, <2>2, UploadAssumption DEF PartIsPrefix
    <3> QED BY <2>2, <3>1, <3>2, <3>3, <3>4
  <2>6. \A v \in Uploads : v # u => upPc'[v] # "sending"
    BY <1>0, <1>2, <2>1, UpAlone DEF UpEnded
  <2>7. nextChunk'[u] = handle'[u].already + 1
    BY <1>3, <1>4, <2>2, <2>3
  <2>8. PublishedIsWhole'
    BY <1>0, <1>6, <2>1, <2>2 DEF PublishedIsWhole, UploadTypes
  <2> QED BY <1>0, <1>2, <2>5, <2>6, <2>7, <2>8 DEF PartIsPrefix
<1> QED BY <1>7, <1>8, <1>9, <1>11, <1>12, <1>13

\* The file is published: while nothing unforeseen happened it is the one the attempt has counted, and
\* as long as the source file.
LEMMA RenameStep ==
  ASSUME UploadIInv, NEW u \in Uploads, CompleteRename(u)
  PROVE  UploadIInv'
<1> USE DEF UploadIInv
<1>0. /\ upPc[u] = "rename" /\ UNCHANGED <<content, pending, handle, via, nextChunk, deleter, disturbed>>
      /\ \/ partFile = "none" /\ UNCHANGED <<partFile, finalFile>>
         \/ partFile # "none" /\ finalFile' = partFile /\ partFile' = "none"
  BY DEF CompleteRename
<1>1. PICK pc \in {"failed", "done"} : UpGoto(u, pc)
  BY DEF CompleteRename
<1>2. \A v \in Uploads : upPc'[v] = IF v = u THEN pc ELSE upPc[v]
  BY <1>1 DEF UpGoto, UploadTypes
<1>3. UploadTypes'
  <2>1. upPc' \in [Uploads -> UpPcs]
    BY <1>1 DEF UpGoto, UploadTypes, UpPcs, UpEnded
  <2>2. partFile' \in {"none"} \cup Uploads /\ finalFile' \in {"none"} \cup Uploads
    BY <1>0 DEF UploadTypes
  <2> QED BY <1>0, <2>1, <2>2 DEF UploadTypes
<1>4. OnePending' /\ RenamesAtSize'
  <2>1. pending \subseteq Uploads
    BY DEF UploadTypes
  <2> QED BY <1>0, <1>2, <2>1 DEF OnePending, RenamesAtSize
<1>5. FilesApart'
  BY <1>0, <1>2, UploadAssumption DEF FilesApart
<1>6. ASSUME "overlap" \notin disturbed
      PROVE  \A v \in Uploads : upPc'[v] \in UpEnded /\ upPc'[v] \notin Opened \cup {"measure", "open"}
  BY <1>0, <1>2, <1>6, UpAlone DEF UpEnded, Opened
<1>7. Undisputed'
  <2> SUFFICES ASSUME "overlap" \notin disturbed PROVE Undisputed'
    BY <1>0 DEF Undisputed
  <2>1. UpActive' = {}
    BY <1>6 DEF UpActive
  <2> QED BY <1>6, <2>1 DEF Undisputed, Opened
<1>8. Counted'
  BY <1>0, <1>6 DEF Counted
<1>9. PartIsPrefix'
  BY <1>0, <1>6 DEF PartIsPrefix, Opened
<1>10. PublishedIsWhole'
  <2> SUFFICES ASSUME disturbed = {}, partFile # "none", finalFile' = partFile PROVE content[partFile] = Whole
    BY <1>0 DEF PublishedIsWhole
  <2>1. Len(content[partFile]) = Chunks
    BY <1>0 DEF RenamesAtSize, Counted, Opened
  <2>2. content[partFile] \in Seq(Nat) /\ \A i \in 1..Chunks : content[partFile][i] = i
    BY <2>1 DEF UploadTypes, PartIsPrefix
  <2>3. content[partFile] = [i \in 1..Chunks |-> content[partFile][i]]
    BY <2>1, <2>2
  <2> QED BY <2>2, <2>3 DEF Whole
<1> QED BY <1>3, <1>4, <1>5, <1>7, <1>8, <1>9, <1>10

\* A deletion: the request, then the removal of the file.
LEMMA DeleteSteps ==
  ASSUME UploadIInv, RemoveFile \/ \E path \in {"part", "final"} : DeleteFile(path)
  PROVE  UploadIInv'
<1> USE DEF UploadIInv
<1>1. ASSUME NEW path \in {"part", "final"}, DeleteFile(path) PROVE UploadIInv'
  <2>0. /\ deleter' = path /\ pending' = {} /\ disturbed \subseteq disturbed'
        /\ disturbed' = disturbed \/ "overlap" \in disturbed'
        /\ disturbed' \subseteq disturbed \cup {"overlap"}
        /\ "overlap" \notin disturbed' => UpActive = {}
        /\ UNCHANGED <<partFile, finalFile, content, handle, upPc, via, nextChunk>>
    BY <1>1 DEF DeleteFile, Disturb
  <2>1. UploadTypes'
    BY <2>0 DEF UploadTypes
  <2>2. OnePending' /\ FilesApart' /\ RenamesAtSize'
    BY <2>0 DEF OnePending, FilesApart, RenamesAtSize
  <2>3. Undisputed'
    <3> SUFFICES ASSUME "overlap" \notin disturbed' PROVE Undisputed'
      BY DEF Undisputed
    <3>1. UpActive' = {}
      BY <2>0 DEF UpActive
    <3>2. \A u \in Uploads : upPc[u] \notin Opened
      BY <2>0 DEF UpActive, UpEnded, Opened
    <3> QED BY <2>0, <3>1, <3>2 DEF Undisputed, Opened
  <2>4. Counted' /\ PartIsPrefix' /\ PublishedIsWhole'
    BY <2>0 DEF Counted, PartIsPrefix, PublishedIsWhole
  <2> QED BY <2>1, <2>2, <2>3, <2>4
<1>2. CASE RemoveFile
  <2>0. /\ deleter # "idle" /\ deleter' = "idle" /\ partFile' \in {partFile, "none"} /\ finalFile' \in {finalFile, "none"}
        /\ UNCHANGED <<content, pending, handle, upPc, via, nextChunk, disturbed>>
    BY <1>2 DEF RemoveFile
  <2>1. UploadTypes'
    BY <2>0 DEF UploadTypes
  <2>2. OnePending' /\ RenamesAtSize'
    BY <2>0 DEF OnePending, RenamesAtSize
  <2>3. FilesApart'
    BY <2>0, UploadAssumption DEF FilesApart
  <2>4. ASSUME "overlap" \notin disturbed
        PROVE  UpActive = {} /\ \A u \in Uploads : upPc[u] \notin Opened \cup {"open"}
    BY <2>0, <2>4 DEF Undisputed, UpActive, UpEnded, Opened
  <2>5. Undisputed'
    BY <2>0, <2>4 DEF Undisputed, UpActive, Opened
  <2>6. Counted'
    BY <2>0, <2>4 DEF Counted
  <2>7. PartIsPrefix' /\ PublishedIsWhole'
    BY <2>0 DEF PartIsPrefix, PublishedIsWhole
  <2> QED BY <2>1, <2>2, <2>3, <2>5, <2>6, <2>7
<1> QED BY <1>1, <1>2

\* A restart forgets the handles and keeps the files.
LEMMA UploadRestartStep ==
  ASSUME UploadIInv, RestartUploads
  PROVE  UploadIInv'
<1> USE DEF UploadIInv
<1>0. /\ pending' = {} /\ deleter' = "idle"
      /\ upPc' = [u \in Uploads |-> IF upPc[u] \in UpEnded THEN upPc[u] ELSE "lost"]
      /\ UNCHANGED <<partFile, finalFile, content, handle, via, nextChunk, disturbed>>
  BY DEF RestartUploads
<1>1. \A u \in Uploads : upPc'[u] \in UpEnded /\ upPc'[u] \in {upPc[u], "lost"}
  BY <1>0 DEF UpEnded
<1>2. \A u \in Uploads : upPc'[u] \notin Opened \cup {"measure", "open"}
  BY <1>1 DEF UpEnded, Opened
<1>3. UploadTypes'
  <2>1. upPc' \in [Uploads -> UpPcs]
    BY <1>0 DEF UpPcs, UpEnded
  <2> QED BY <1>0, <2>1 DEF UploadTypes
<1>4. OnePending' /\ RenamesAtSize' /\ FilesApart'
  BY <1>0, <1>1, <1>2 DEF OnePending, RenamesAtSize, FilesApart, Opened
<1>5. UpActive' = {}
  BY <1>1 DEF UpActive
<1>6. Undisputed' /\ Counted'
  BY <1>0, <1>2, <1>5 DEF Undisputed, Counted, Opened
<1>7. PartIsPrefix' /\ PublishedIsWhole'
  BY <1>0, <1>2 DEF PartIsPrefix, PublishedIsWhole, Opened
<1> QED BY <1>3, <1>4, <1>6, <1>7

\* Every step of the uploads, one lemma per handler.
LEMMA UploadNextStep ==
  ASSUME UploadIInv, UploadNext
  PROVE  UploadIInv'
<1>1. ASSUME NEW u \in Uploads, StartUpload(u) PROVE UploadIInv'
  <2>1. PICK pc \in {"measure", "refused"} : UpGoto(u, pc)
    BY <1>1 DEF StartUpload
  <2> QED BY <1>1, <2>1, UpMoveStep DEF StartUpload, Disturb, UpPcs, UpEnded
<1>2. ASSUME NEW u \in Uploads, EndUpload(u) PROVE UploadIInv'
  BY <1>2, UpMoveStep DEF EndUpload, UpPcs, Opened
<1>3. ASSUME NEW u \in Uploads, CompleteTake(u) PROVE UploadIInv'
  <2>1. PICK pc \in {"failed", "rename", "done"} : UpGoto(u, pc) /\ (pc = "rename" => handle[u].already = Chunks)
    BY <1>3 DEF CompleteTake
  <2> QED BY <1>3, <2>1, UpMoveStep DEF CompleteTake, UpPcs, UpEnded, Opened
<1> QED BY <1>1, <1>2, <1>3, MeasureStep, OpenStep, InsertStep, SendStep, RenameStep, DeleteSteps, UploadRestartStep
        DEF UploadNext, UploadStep

\* A set with one element at most.
LEMMA AtMostOneElement ==
  ASSUME NEW S, \A x, y \in S : x = y
  PROVE  Cardinality(S) <= 1
<1>1. CASE S = {}
  BY <1>1, FS_EmptySet
<1>2. ASSUME NEW x \in S PROVE Cardinality(S) <= 1
  <2>1. S = {x}
    OBVIOUS
  <2> QED BY <2>1, FS_Singleton
<1> QED BY <1>1, <1>2

\* A published image is the whole source file and its count the length of the file, however many
\* attempts, cuts, deletions and restarts there were, unless attempts overlapped, the disk failed or a
\* client began anew; the table never keeps the handle of an attempt that is over.
THEOREM UploadInvHolds == UploadSpec => []UploadInv
<1>1. UploadInit => UploadIInv
  <2> SUFFICES ASSUME UploadInit PROVE UploadIInv
    OBVIOUS
  <2>1. /\ \A u \in Uploads : upPc[u] = "new" /\ content[u] = <<>> /\ handle[u] = NoHandle
        /\ NoHandle.inode = "none" /\ ~NoHandle.err /\ NoHandle \in Handles
    BY DEF UploadInit, NoHandle, Handles
  <2>2. UploadTypes
    <3>1. content \in [Uploads -> Seq(Nat)] /\ handle \in [Uploads -> Handles]
      BY <2>1 DEF UploadInit
    <3>2. upPc \in [Uploads -> UpPcs] /\ nextChunk \in [Uploads -> Nat \ {0}]
      BY DEF UploadInit, UpPcs, UpEnded
    <3> QED BY <3>1, <3>2 DEF UploadInit, UploadTypes
  <2>3. FilesApart
    BY <2>1, UploadAssumption DEF UploadInit, FilesApart
  <2>4. UpActive = {} /\ \A u \in Uploads : upPc[u] \notin Opened \cup {"open"}
    BY <2>1 DEF UpActive, UpEnded, Opened
  <2>5. Undisputed /\ Counted
    BY <2>1, <2>4 DEF Undisputed, Counted, Opened
  <2> QED BY <2>1, <2>2, <2>3, <2>5 DEF UploadIInv, UploadInit, OnePending, RenamesAtSize, PartIsPrefix, PublishedIsWhole
<1>2. UploadIInv /\ [UploadNext]_upVars => UploadIInv'
  <2> SUFFICES ASSUME UploadIInv, [UploadNext]_upVars PROVE UploadIInv'
    OBVIOUS
  <2>1. CASE UNCHANGED upVars
    BY <2>1 DEF upVars, UploadIInv, UploadTypes, OnePending, FilesApart, RenamesAtSize, Undisputed, UpActive, Counted,
       PartIsPrefix, PublishedIsWhole
  <2> QED BY <2>1, UploadNextStep
<1>3. UploadIInv => UploadInv
  <2> SUFFICES ASSUME UploadIInv PROVE UploadInv
    OBVIOUS
  <2> USE DEF UploadIInv
  <2>1. Cardinality(pending) <= 1
    BY AtMostOneElement DEF OnePending
  <2>2. UploadTypeOK
    BY <2>1 DEF UploadTypes, UploadTypeOK, Handles
  <2>3. CountIsLength
    <3>1. pending \subseteq Uploads
      BY DEF UploadTypes
    <3> QED BY <3>1 DEF CountIsLength, OnePending, Undisputed, Counted, Opened
  <2>4. EndedReleasesHandle
    BY DEF EndedReleasesHandle, OnePending, UpEnded
  <2> QED BY <2>2, <2>3, <2>4 DEF UploadInv
<1> QED BY <1>1, <1>2, <1>3, PTL DEF UploadSpec

-----------------------------------------------------------------------------
(* The gadget *)

GadgetSpec == GadgetInit /\ [][GadgetNext]_gadgetVars

ItemNames == Range(Items)

GadgetTypes ==
  /\ udcOwner \in {"none", "ours", "other"} /\ gadgetFaults \in Nat
  /\ links \in Seq(GadgetFunctions) /\ IsInjective(links)
  /\ written \subseteq ItemNames /\ todo \in Seq(ItemNames) /\ enabled \subseteq GadgetFunctions
  /\ gadgetPc \in {"off", "start", "items", "reorder", "bind", "bound", "failed"}

\* What the set-up has achieved at each of its places: while it writes, the enabled items that are
\* not written are still to come, and what is about to be bound is in the links.
SetupGoesOn ==
  /\ gadgetPc = "items" => \A item \in ItemNames : ItemEnabled(item) => item \in written \cup Range(todo)
  /\ gadgetPc \in {"reorder", "bind"} => \A item \in ItemNames : ItemEnabled(item) => item \in written
  /\ gadgetPc = "bind" => links = LinkOrder(enabled)

GadgetIInv == GadgetTypes /\ SetupGoesOn /\ HostSeesWholeGadget /\ CleanSetupBinds

\* Removing a name keeps the others apart, and the name does not come back.
LEMMA WithoutIsApart ==
  ASSUME NEW S, NEW s \in Seq(S), IsInjective(s), NEW f
  PROVE  /\ Without(s, f) \in Seq(S) /\ IsInjective(Without(s, f))
         /\ \A i \in 1..Len(Without(s, f)) : Without(s, f)[i] # f
<1>1. CASE ~ \E i \in 1..Len(s) : s[i] = f
  BY <1>1 DEF Without
<1>2. CASE \E i \in 1..Len(s) : s[i] = f
  <2> DEFINE n == CHOOSE i \in 1..Len(s) : s[i] = f
             low == SubSeq(s, 1, n - 1)
             up == SubSeq(s, n + 1, Len(s))
  <2>1. n \in 1..Len(s) /\ s[n] = f /\ Len(s) \in Nat
    BY <1>2
  <2>2. Without(s, f) = low \o up
    BY <1>2 DEF Without, RemoveAt
  <2> HIDE DEF n
  <2>3. /\ low \in Seq(S) /\ Len(low) = n - 1 /\ \A i \in 1..(n - 1) : low[i] = s[i]
    BY <2>1
  <2>4. /\ up \in Seq(S) /\ Len(up) = Len(s) - n /\ \A i \in 1..(Len(s) - n) : up[i] = s[n + i]
    BY <2>1
  <2> HIDE DEF low, up
  <2>5. low \o up \in Seq(S) /\ Len(low \o up) = Len(s) - 1
    <3>1. low \o up \in Seq(S) /\ Len(low \o up) = Len(low) + Len(up)
      BY <2>3, <2>4, ConcatProperties
    <3> QED BY <2>1, <2>3, <2>4, <3>1
  <2>6. \A i \in 1..(Len(s) - 1) : (low \o up)[i] = IF i < n THEN s[i] ELSE s[i + 1]
    BY <2>1, <2>3, <2>4
  <2>7. \A i, j \in 1..Len(s) : s[i] = s[j] => i = j
    BY DEF IsInjective
  <2>8. IsInjective(low \o up)
    <3>1. ASSUME NEW i \in 1..(Len(s) - 1), NEW j \in 1..(Len(s) - 1), (low \o up)[i] = (low \o up)[j]
          PROVE  i = j
      <4>1. (IF i < n THEN s[i] ELSE s[i + 1]) = (IF j < n THEN s[j] ELSE s[j + 1])
        BY <2>6, <3>1
      <4>2. (IF i < n THEN i ELSE i + 1) = (IF j < n THEN j ELSE j + 1)
        BY <2>1, <2>7, <4>1
      <4> QED BY <2>1, <4>2
    <3>2. DOMAIN (low \o up) = 1..(Len(s) - 1)
      BY <2>5
    <3> QED BY <3>1, <3>2 DEF IsInjective
  <2>9. \A i \in 1..Len(low \o up) : (low \o up)[i] # f
    <3>1. SUFFICES ASSUME NEW i \in 1..(Len(s) - 1) PROVE (low \o up)[i] # f
      BY <2>5
    <3> DEFINE k == IF i < n THEN i ELSE i + 1
    <3>2. i \in Nat /\ k \in 1..Len(s) /\ k # n
      BY <2>1
    <3>3. (low \o up)[i] = s[k]
      BY <2>6
    <3> HIDE DEF k
    <3> QED BY <2>1, <2>7, <3>2, <3>3
  <2> QED BY <2>2, <2>5, <2>8, <2>9
<1> QED BY <1>1, <1>2

\* A new name at the end keeps the names apart.
LEMMA AppendIsApart ==
  ASSUME NEW S, NEW s \in Seq(S), IsInjective(s), NEW f \in S, \A i \in 1..Len(s) : s[i] # f
  PROVE  Append(s, f) \in Seq(S) /\ IsInjective(Append(s, f))
<1>1. Append(s, f) \in Seq(S) /\ Len(Append(s, f)) = Len(s) + 1 /\ Len(s) \in Nat
  OBVIOUS
<1>2. \A i \in 1..(Len(s) + 1) : Append(s, f)[i] = IF i <= Len(s) THEN s[i] ELSE f
  OBVIOUS
<1>3. \A i, j \in 1..Len(s) : s[i] = s[j] => i = j
  BY DEF IsInjective
<1> QED BY <1>1, <1>2, <1>3 DEF IsInjective

\* One more function of LinkOrder.
LEMMA OneMoreLink ==
  ASSUME NEW S, NEW s \in Seq(S), IsInjective(s), NEW f, f \notin S, NEW devs
  PROVE  LET t == s \o (IF f \in devs THEN <<f>> ELSE << >>)
         IN  t \in Seq(S \cup {f}) /\ IsInjective(t)
<1>0. s \in Seq(S \cup {f}) /\ \A i \in 1..Len(s) : s[i] # f
  OBVIOUS
<1>1. CASE f \in devs
  <2>1. s \o <<f>> = Append(s, f)
    OBVIOUS
  <2>2. Append(s, f) \in Seq(S \cup {f}) /\ IsInjective(Append(s, f))
    BY <1>0, AppendIsApart
  <2> QED BY <1>1, <2>1, <2>2
<1>2. CASE f \notin devs
  BY <1>0, <1>2
<1> QED BY <1>1, <1>2

\* The functions, the items and the order in which the items are written.
LEMMA FunctionNames ==
  /\ GadgetFunctions = {"keyboard", "absolute_mouse", "relative_mouse", "mass_storage_base"}
  /\ ItemNames = GadgetFunctions \cup {"base", "base_info", "config_c1", "mass_storage_lun0"}
  /\ WriteOrder \in Seq(ItemNames) /\ Range(WriteOrder) = ItemNames
<1>1. FunctionOrder = <<"keyboard", "absolute_mouse", "relative_mouse", "mass_storage_base">>
  BY DEF FunctionOrder
<1>2. GadgetFunctions = {"keyboard", "absolute_mouse", "relative_mouse", "mass_storage_base"}
  BY <1>1 DEF GadgetFunctions, Range
<1> DEFINE First == <<"base", "base_info", "config_c1">>
           Lun == <<"mass_storage_lun0">>
           Names == GadgetFunctions \cup {"base", "base_info", "config_c1", "mass_storage_lun0"}
<1>3. /\ First \in Seq(Names) /\ Len(First) = 3 /\ Range(First) = {"base", "base_info", "config_c1"}
      /\ Lun \in Seq(Names) /\ Range(Lun) = {"mass_storage_lun0"}
      /\ FunctionOrder \in Seq(Names)
  <2>1. First \in Seq(Names) /\ Len(First) = 3
    OBVIOUS
  <2>2. Range(First) = {First[1], First[2], First[3]}
    BY <2>1 DEF Range
  <2>3. Lun \in Seq(Names) /\ Len(Lun) = 1
    OBVIOUS
  <2>4. Range(Lun) = {Lun[1]}
    BY <2>3 DEF Range
  <2>5. FunctionOrder \in Seq(Names)
    BY <1>1, <1>2
  <2> QED BY <2>1, <2>2, <2>3, <2>4, <2>5
<1>4. Items = (First \o FunctionOrder) \o Lun
  BY DEF Items
<1> HIDE DEF First, Lun
<1>5. First \o FunctionOrder \in Seq(Names) /\ Range(First \o FunctionOrder) = Range(First) \cup GadgetFunctions
  <2> HIDE DEF Names
  <2> QED BY <1>3, ConcatProperties, RangeConcatenation DEF GadgetFunctions
<1>6. Items \in Seq(Names) /\ ItemNames = Names
  <2>1. Items \in Seq(Names) /\ Range(Items) = Range(First \o FunctionOrder) \cup Range(Lun)
    <3> HIDE DEF Names
    <3> DEFINE front == First \o FunctionOrder
    <3>1. front \in Seq(Names) /\ Lun \in Seq(Names) /\ Items = front \o Lun
      BY <1>3, <1>4, <1>5
    <3> HIDE DEF front
    <3>2. Items \in Seq(Names) /\ Range(Items) = Range(front) \cup Range(Lun)
      BY <3>1, ConcatProperties, RangeConcatenation
    <3> QED BY <3>2 DEF front
  <2> QED BY <1>3, <1>5, <2>1 DEF ItemNames
<1>7. Len(Items) >= 2
  <2> HIDE DEF Names
  <2> DEFINE front == First \o FunctionOrder
  <2>1. front \in Seq(Names) /\ Len(front) = Len(First) + Len(FunctionOrder)
    BY <1>3, <1>5, ConcatProperties
  <2>2. Len(FunctionOrder) \in Nat /\ Len(Lun) \in Nat /\ Len(First) = 3
    BY <1>3, LenProperties
  <2>3. Items = front \o Lun
    BY <1>4
  <2> HIDE DEF front
  <2>4. Len(Items) = Len(front) + Len(Lun)
    BY <1>3, <2>1, <2>3, ConcatProperties
  <2>5. ASSUME NEW a \in Nat, NEW b \in Nat, NEW c \in Nat, a = 3 + b PROVE a + c >= 2
    BY <2>5
  <2>6. Len(front) \in Nat /\ Len(front) = 3 + Len(FunctionOrder)
    BY <2>1, <2>2
  <2> HIDE DEF Lun
  <2> QED BY <2>2, <2>4, <2>5, <2>6, Zenon
<1>8. SubSeq(Items, 1, 2) \in Seq(Names) /\ Range(SubSeq(Items, 1, 2)) \subseteq Names
  <2> HIDE DEF Names
  <2>1. \A i \in 1..2 : Items[i] \in Names
    BY <1>6, <1>7
  <2>2. SubSeq(Items, 1, 2) \in Seq(Names)
    BY <2>1, SubSeqProperties
  <2> QED BY <2>2, RangeOfSeq
<1>9. WriteOrder \in Seq(Names) /\ Range(WriteOrder) = Names
  <2> HIDE DEF Names
  <2>1. WriteOrder \in Seq(Names)
    BY <1>6, <1>8, ConcatProperties DEF WriteOrder
  <2>2. Range(WriteOrder) = Range(SubSeq(Items, 1, 2)) \cup Range(Items)
    BY <1>6, <1>8, RangeConcatenation DEF WriteOrder
  <2> QED BY <1>6, <1>8, <2>1, <2>2 DEF ItemNames
<1> QED BY <1>2, <1>6, <1>9

\* The links of a build are its functions, each once.
LEMMA LinkOrderIsApart ==
  ASSUME NEW devs
  PROVE  LinkOrder(devs) \in Seq(GadgetFunctions) /\ IsInjective(LinkOrder(devs))
<1> DEFINE One(f) == IF f \in devs THEN <<f>> ELSE << >>
           l1 == << >> \o One("keyboard")
           l2 == l1 \o One("absolute_mouse")
           l3 == l2 \o One("relative_mouse")
           l4 == l3 \o One("mass_storage_base")
           S1 == {} \cup {"keyboard"}
           S2 == S1 \cup {"absolute_mouse"}
           S3 == S2 \cup {"relative_mouse"}
           S4 == S3 \cup {"mass_storage_base"}
<1>1. l1 \in Seq(S1) /\ IsInjective(l1)
  <2>1. CASE "keyboard" \in devs
    <3>1. l1 = <<"keyboard">>
      BY <2>1
    <3>2. <<"keyboard">> \in Seq(S1) /\ DOMAIN <<"keyboard">> = 1..1
      OBVIOUS
    <3>3. IsInjective(<<"keyboard">>)
      BY <3>2 DEF IsInjective
    <3> HIDE DEF l1, S1
    <3> QED BY <3>1, <3>2, <3>3
  <2>2. CASE "keyboard" \notin devs
    <3>1. l1 = << >>
      BY <2>2
    <3> QED BY <3>1 DEF IsInjective
  <2> QED BY <2>1, <2>2
<1>2. l2 \in Seq(S2) /\ IsInjective(l2)
  <2>1. "absolute_mouse" \notin S1
    OBVIOUS
  <2> HIDE DEF S1, l1
  <2> QED BY <1>1, <2>1, OneMoreLink
<1>3. l3 \in Seq(S3) /\ IsInjective(l3)
  <2>1. "relative_mouse" \notin S2
    OBVIOUS
  <2> HIDE DEF S2, l2
  <2> QED BY <1>2, <2>1, OneMoreLink
<1>4. l4 \in Seq(S4) /\ IsInjective(l4)
  <2>1. "mass_storage_base" \notin S3
    OBVIOUS
  <2> HIDE DEF S3, l3
  <2> QED BY <1>3, <2>1, OneMoreLink
<1>5. S4 = GadgetFunctions
  BY FunctionNames
<1>6. l4 = LinkOrder(devs)
  <2>1. l1 = One("keyboard")
    OBVIOUS
  <2> QED BY <2>1 DEF LinkOrder
<1> QED BY <1>4, <1>5, <1>6

\* Before the first set-up.
LEMMA GadgetInitially == GadgetInit => GadgetIInv
<1> SUFFICES ASSUME GadgetInit PROVE GadgetIInv
  OBVIOUS
<1>1. GadgetTypes
  <2>1. << >> \in Seq(GadgetFunctions) /\ << >> \in Seq(ItemNames) /\ IsInjective(<< >>)
    BY DEF IsInjective
  <2> QED BY <2>1 DEF GadgetInit, GadgetTypes
<1> QED BY <1>1 DEF GadgetInit, GadgetIInv, SetupGoesOn, HostSeesWholeGadget, CleanSetupBinds

\* A set-up that fails unbinds, and only a failed write or an attached medium makes it fail.
LEMMA GadgetSetupFails ==
  ASSUME GadgetIInv, SetupFails, gadgetFaults' \in Nat, gadgetFaults' = 0 => lunOpen /\ gadgetFaults = 0,
         links' \in Seq(GadgetFunctions), IsInjective(links'), UNCHANGED <<written, lunOpen, todo, enabled>>
  PROVE  GadgetIInv'
<1>1. gadgetPc' = "failed" /\ udcOwner' \in {"none", "other"}
  BY DEF SetupFails, GadgetIInv, GadgetTypes
<1>2. GadgetTypes'
  BY <1>1 DEF GadgetIInv, GadgetTypes
<1> QED BY <1>1, <1>2 DEF GadgetIInv, SetupGoesOn, HostSeesWholeGadget, CleanSetupBinds

\* An item is written: it comes back at the end of the links, and is no longer to do.
LEMMA GadgetWriteStep ==
  ASSUME GadgetIInv, WriteItem
  PROVE  GadgetIInv'
<1> DEFINE item == Head(todo)
<1>0. /\ gadgetPc = "items" /\ todo # << >> /\ UNCHANGED <<enabled, boundFor, setups>>
      /\ todo \in Seq(ItemNames) /\ item \in ItemNames /\ Tail(todo) \in Seq(ItemNames)
      /\ links \in Seq(GadgetFunctions) /\ IsInjective(links) /\ gadgetFaults \in Nat
  BY DEF WriteItem, GadgetIInv, GadgetTypes
<1>1. Without(links, item) \in Seq(GadgetFunctions) /\ IsInjective(Without(links, item))
  BY <1>0, WithoutIsApart
<1>2. CASE GadgetFault /\ links' \in {links, Without(links, item)} /\ UNCHANGED <<written, lunOpen, todo>>
  <2>1. gadgetFaults' \in Nat /\ gadgetFaults' # 0 /\ SetupFails
    BY <1>0, <1>2 DEF GadgetFault
  <2> QED BY <1>0, <1>1, <1>2, <2>1, GadgetSetupFails
<1>3. CASE LunRefuses(item) /\ SetupFails /\ UNCHANGED <<links, written, lunOpen, todo, gadgetFaults>>
  BY <1>0, <1>3, GadgetSetupFails DEF LunRefuses
<1>4. CASE /\ links' = IF item \in enabled THEN Append(Without(links, item), item) ELSE Without(links, item)
           /\ written' = IF ItemEnabled(item) THEN written \cup {item} ELSE written
           /\ lunOpen' = IF item = "mass_storage_lun0" /\ ItemEnabled(item) THEN FALSE ELSE lunOpen
           /\ todo' = Tail(todo)
           /\ gadgetPc' = IF todo' = << >> THEN "reorder" ELSE "items"
           /\ UNCHANGED <<udcOwner, gadgetFaults>>
  <2>1. links' \in Seq(GadgetFunctions) /\ IsInjective(links')
    <3>1. item \in enabled => item \in GadgetFunctions
      BY DEF GadgetIInv, GadgetTypes
    <3>2. \A i \in 1..Len(Without(links, item)) : Without(links, item)[i] # item
      BY <1>0, WithoutIsApart
    <3>3. item \in enabled => /\ Append(Without(links, item), item) \in Seq(GadgetFunctions)
                              /\ IsInjective(Append(Without(links, item), item))
      BY <1>1, <3>1, <3>2, AppendIsApart
    <3> QED BY <1>1, <1>4, <3>3
  <2>2. GadgetTypes'
    BY <1>0, <1>4, <2>1 DEF GadgetIInv, GadgetTypes
  <2>3. udcOwner # "ours"
    BY <1>0 DEF GadgetIInv, HostSeesWholeGadget
  <2>4. \A x \in ItemNames : ItemEnabled(x)' = ItemEnabled(x)
    BY <1>0 DEF ItemEnabled
  <2>5. Range(todo) = {item} \cup Range(Tail(todo))
    <3>1. \A i \in 1..Len(todo) : todo[i] = item \/ (i - 1 \in 1..Len(Tail(todo)) /\ Tail(todo)[i - 1] = todo[i])
      BY <1>0
    <3>2. \A i \in 1..Len(Tail(todo)) : i + 1 \in 1..Len(todo) /\ Tail(todo)[i] = todo[i + 1]
      BY <1>0
    <3>3. 1 \in 1..Len(todo) /\ todo[1] = item
      BY <1>0
    <3> DEFINE rest == Tail(todo)
    <3>4. Range(todo) = {todo[i] : i \in 1..Len(todo)} /\ Range(rest) = {rest[i] : i \in 1..Len(rest)}
      BY <1>0, RangeEquality
    <3>5. rest \in Seq(ItemNames) /\ Len(rest) \in Nat /\ Len(todo) \in Nat
      BY <1>0
    <3> HIDE DEF rest, item
    <3>6. Range(todo) \subseteq {item} \cup Range(rest)
      BY <3>1, <3>4 DEF rest
    <3>7. {item} \cup Range(rest) \subseteq Range(todo)
      BY <3>2, <3>3, <3>4 DEF rest
    <3> QED BY <3>6, <3>7 DEF rest
  <2>6. \A x \in ItemNames : ItemEnabled(x) => x \in written' \cup Range(todo')
    BY <1>0, <1>4, <2>5 DEF GadgetIInv, SetupGoesOn
  <2>7. todo' = << >> => Range(todo') = {}
    BY DEF Range
  <2>8. SetupGoesOn'
    BY <1>4, <2>4, <2>6, <2>7 DEF SetupGoesOn
  <2> QED BY <1>4, <2>2, <2>3, <2>8 DEF GadgetIInv, HostSeesWholeGadget, CleanSetupBinds
<1> QED BY <1>2, <1>3, <1>4 DEF WriteItem

\* Every step of the gadget: set-up, binding, unbinding and failure.
LEMMA GadgetStep ==
  ASSUME GadgetIInv, GadgetNext
  PROVE  GadgetIInv'
<1>0. links \in Seq(GadgetFunctions) /\ IsInjective(links) /\ gadgetFaults \in Nat
  BY DEF GadgetIInv, GadgetTypes
<1>1. ASSUME NEW devs \in DeviceConfigs, StartProcess(devs) PROVE GadgetIInv'
  <2>1. devs \subseteq GadgetFunctions
    BY GadgetAssumption
  <2>2. GadgetTypes'
    BY <1>1, <2>1 DEF StartProcess, GadgetIInv, GadgetTypes
  <2> QED BY <1>1, <2>2 DEF StartProcess, GadgetIInv, SetupGoesOn, HostSeesWholeGadget, CleanSetupBinds
<1>2. CASE BeginSetup
  <2>1. CASE GadgetFault /\ UNCHANGED todo
    <3>1. gadgetFaults' \in Nat /\ gadgetFaults' # 0 /\ SetupFails
      BY <1>0, <2>1 DEF GadgetFault
    <3> QED BY <1>0, <1>2, <2>1, <3>1, GadgetSetupFails DEF BeginSetup
  <2>2. CASE udcOwner' = "none" /\ todo' = WriteOrder /\ gadgetPc' = "items" /\ UNCHANGED gadgetFaults
    <3>1. GadgetTypes'
      BY <1>2, <2>2, FunctionNames DEF BeginSetup, GadgetIInv, GadgetTypes
    <3>2. SetupGoesOn'
      BY <2>2, FunctionNames DEF SetupGoesOn
    <3> QED BY <2>2, <3>1, <3>2 DEF GadgetIInv, HostSeesWholeGadget, CleanSetupBinds
  <2> QED BY <1>2, <2>1, <2>2 DEF BeginSetup
<1>3. CASE WriteItem
  BY <1>3, GadgetWriteStep
<1>4. CASE Reorder
  <2> DEFINE order == LinkOrder(enabled)
  <2>0. order \in Seq(GadgetFunctions) /\ IsInjective(order) /\ UNCHANGED <<written, lunOpen, enabled, boundFor, todo>>
    BY <1>4, LinkOrderIsApart DEF Reorder
  <2>1. CASE links' = order /\ gadgetPc' = "bind" /\ UNCHANGED <<udcOwner, gadgetFaults>>
    <3>1. GadgetTypes'
      BY <2>0, <2>1 DEF GadgetIInv, GadgetTypes
    <3>2. gadgetPc = "reorder"
      BY <1>4 DEF Reorder
    <3>3. SetupGoesOn'
      BY <2>0, <2>1, <3>2 DEF GadgetIInv, SetupGoesOn, ItemEnabled
    <3> QED BY <2>0, <2>1, <3>1, <3>2, <3>3 DEF GadgetIInv, HostSeesWholeGadget, CleanSetupBinds
  <2>2. CASE GadgetFault /\ \E n \in 0..Len(order) : links' = SubSeq(order, 1, n)
    <3> HIDE DEF order
    <3>1. PICK n \in 0..Len(order) : links' = SubSeq(order, 1, n)
      BY <2>2
    <3>2. links' \in Seq(GadgetFunctions) /\ Len(links') = n /\ \A i \in 1..n : links'[i] = order[i]
      BY <2>0, <3>1
    <3>3. \A i, j \in 1..Len(order) : order[i] = order[j] => i = j
      BY <2>0 DEF IsInjective
    <3>4. IsInjective(links')
      BY <2>0, <3>2, <3>3 DEF IsInjective
    <3>5. gadgetFaults' \in Nat /\ gadgetFaults' # 0 /\ SetupFails
      BY <1>0, <2>2 DEF GadgetFault
    <3> QED BY <2>0, <3>2, <3>4, <3>5, GadgetSetupFails
  <2> QED BY <1>4, <2>1, <2>2 DEF Reorder
<1>5. CASE Bind
  <2>0. gadgetPc = "bind" /\ UNCHANGED <<links, written, lunOpen, enabled, todo, setups>>
    BY <1>5 DEF Bind
  <2>1. CASE udcOwner' = "ours" /\ boundFor' = enabled /\ gadgetPc' = "bound" /\ UNCHANGED gadgetFaults
    <3>1. GadgetTypes'
      BY <2>0, <2>1 DEF GadgetIInv, GadgetTypes
    <3>2. HostSeesWholeGadget'
      BY <2>0, <2>1 DEF GadgetIInv, SetupGoesOn, HostSeesWholeGadget
    <3>3. CleanSetupBinds'
      BY <2>0, <2>1 DEF GadgetIInv, SetupGoesOn, CleanSetupBinds, ItemEnabled, ItemNames
    <3> QED BY <2>1, <3>1, <3>2, <3>3 DEF GadgetIInv, SetupGoesOn
  <2>2. CASE GadgetFault /\ UNCHANGED boundFor
    <3>1. gadgetFaults' \in Nat /\ gadgetFaults' # 0 /\ SetupFails
      BY <1>0, <2>2 DEF GadgetFault
    <3> QED BY <1>0, <2>0, <2>2, <3>1, GadgetSetupFails
  <2> QED BY <1>5, <2>1, <2>2 DEF Bind
<1>6. CASE OtherBinds \/ AttachMedium
  <2>1. GadgetTypes'
    BY <1>6 DEF OtherBinds, AttachMedium, GadgetIInv, GadgetTypes
  <2> QED BY <1>6, <2>1 DEF OtherBinds, AttachMedium, GadgetIInv, SetupGoesOn, HostSeesWholeGadget, CleanSetupBinds, ItemEnabled
<1>7. CASE ProcessDies
  <2>1. GadgetTypes'
    BY <1>7 DEF ProcessDies, GadgetIInv, GadgetTypes
  <2> QED BY <1>7, <2>1 DEF ProcessDies, GadgetIInv, SetupGoesOn, HostSeesWholeGadget, CleanSetupBinds
<1> QED BY <1>1, <1>2, <1>3, <1>4, <1>5, <1>6, <1>7 DEF GadgetNext

\* The host sees a whole gadget or none, and a set-up without failures binds all of it, for any
\* number of builds, processes that die half way and failing writes.
THEOREM GadgetInvHolds == GadgetSpec => []GadgetInv
<1>1. GadgetIInv => GadgetInv
  <2> SUFFICES ASSUME GadgetIInv PROVE GadgetInv
    OBVIOUS
  <2>1. Range(links) \subseteq GadgetFunctions
    BY RangeOfSeq DEF GadgetIInv, GadgetTypes
  <2> QED BY <2>1 DEF GadgetIInv, GadgetTypes, GadgetInv, GadgetTypeOK, ItemNames
<1>2. GadgetIInv /\ [GadgetNext]_gadgetVars => GadgetIInv'
  <2> SUFFICES ASSUME GadgetIInv, [GadgetNext]_gadgetVars PROVE GadgetIInv'
    OBVIOUS
  <2>1. CASE UNCHANGED gadgetVars
    BY <2>1 DEF gadgetVars, GadgetIInv, GadgetTypes, SetupGoesOn, HostSeesWholeGadget, CleanSetupBinds, ItemEnabled
  <2> QED BY <2>1, GadgetStep
<1> QED BY <1>1, <1>2, GadgetInitially, PTL DEF GadgetSpec

-----------------------------------------------------------------------------
(* Power *)

PowerSpec == PowerInit /\ [][PowerNext]_powerVars

SelPlaces == [at : SelEnded \cup {"unmount", "unexport", "mount", "pin", "record"}, pin : 0..4]
Pins == {"power", "reset", "powerLed", "hddLed"}

PowerTypes ==
  /\ atxMounted \in BOOLEAN /\ activeExt \in {"atx", "other"}
  /\ exported \subseteq Pins /\ high \subseteq Buttons
  /\ powerFaults \in 0..MaxPowerFaults
  /\ selPc \in [Selects -> SelPlaces] /\ selTo \in [Selects -> {"atx", "other"}]
  /\ \A s \in Selects : selPc[s].at = "pin" => selPc[s].pin \in 1..4
  /\ pressPc \in [Presses -> PressEnded \cup {"held"}] /\ pressPin \in [Presses -> Buttons]
  /\ dcPin \in BOOLEAN /\ dcGauge \in BOOLEAN
  /\ dcPc \in [DcSets -> SelEnded \cup {"read", "gauge"}]
  /\ dcTo \in [DcSets -> BOOLEAN] /\ dcRead \in [DcSets -> BOOLEAN]

\* Until a press and a change of the extension have met or a release has failed, whoever holds a
\* button can still let it go: every high pin has a press that holds it, and no press meets a change.
HeldByPress ==
  powerUpsets \cap {"pressDuringSelect", "releaseFailed"} = {} =>
    /\ Pressing = {} \/ Selecting = {}
    /\ \A pin \in high : \E p \in Presses : pressPc[p] = "held" /\ pressPin[p] = pin
    /\ \A p \in Presses : pressPc[p] = "held" => pressPin[p] \in exported

MountedAsActive == (atxMounted <=> activeExt = "atx") /\ (Buttons \subseteq exported <=> activeExt = "atx")

\* What a change of the extension has achieved at each of its places.
ChangeGoesOn(s) ==
  LET at == selPc[s].at
  IN  /\ at = "unmount" => MountedAsActive /\ activeExt = "atx" /\ selTo[s] = "other"
      /\ at = "unexport" => ~atxMounted /\ selTo[s] = "other"
      /\ at = "mount" => MountedAsActive /\ selTo[s] = "atx"
      /\ at = "pin" => atxMounted /\ selTo[s] = "atx" /\ \A i \in 1..(selPc[s].pin - 1) : AtxPins[i] \in exported
      /\ at = "record" => (atxMounted <=> selTo[s] = "atx") /\ (Buttons \subseteq exported <=> selTo[s] = "atx")

\* Changes that do not overlap and whose mounts work.
OneChange ==
  powerUpsets \cap {"selectOverlap", "mountFailed"} = {} =>
    /\ \A s, t \in Selecting : s = t
    /\ \A s \in Selecting : ChangeGoesOn(s)
    /\ Selecting = {} => MountedAsActive

OneDcSet ==
  "dcOverlap" \notin powerUpsets =>
    /\ \A d, e \in DcBusy : d = e
    /\ \A d \in DcSets : dcPc[d] = "gauge" => dcRead[d] = dcPin
    /\ DcBusy = {} => dcGauge = dcPin

PowerIInv == PowerTypes /\ HeldByPress /\ OneChange /\ OneDcSet

\* The pins of the ATX extension, buttons first.
LEMMA PinNames ==
  /\ Len(AtxPins) = 4 /\ AtxPins[1] = "power" /\ AtxPins[2] = "reset"
  /\ \A i \in 1..4 : AtxPins[i] \in Pins
BY DEF AtxPins, Pins

\* Before the first request.
LEMMA PowerInitially == PowerInit => PowerIInv
<1> SUFFICES ASSUME PowerInit PROVE PowerIInv
  OBVIOUS
<1>1. selPc \in [Selects -> SelPlaces] /\ \A s \in Selects : selPc[s].at = "new"
  <2>1. At("new") \in SelPlaces /\ At("new").at = "new"
    BY DEF At, SelPlaces, SelEnded
  <2> HIDE DEF At
  <2> QED BY <2>1 DEF PowerInit
<1>2. PowerTypes
  <2>1. atxMounted \in BOOLEAN /\ dcPin \in BOOLEAN /\ dcGauge \in BOOLEAN
    BY Zenon DEF PowerInit
  <2>2. dcTo \in [DcSets -> BOOLEAN] /\ dcRead \in [DcSets -> BOOLEAN]
    BY Zenon DEF PowerInit
  <2>3. powerFaults \in 0..MaxPowerFaults
    BY PowerAssumption DEF PowerInit
  <2> QED BY <1>1, <2>1, <2>2, <2>3 DEF PowerInit, PowerTypes, SelEnded, PressEnded, Pins, Buttons
<1>3. Pressing = {} /\ Selecting = {} /\ DcBusy = {}
  BY <1>1 DEF PowerInit, Pressing, Selecting, DcBusy, SelEnded, PressEnded
<1>4. MountedAsActive
  BY DEF PowerInit, MountedAsActive, Buttons
<1>5. HeldByPress
  BY <1>3 DEF PowerInit, HeldByPress
<1>6. OneChange
  BY <1>3, <1>4 DEF OneChange
<1>7. OneDcSet
  BY <1>3 DEF PowerInit, OneDcSet
<1> QED BY <1>2, <1>5, <1>6, <1>7 DEF PowerIInv

-----------------------------------------------------------------------------
\* A request of the DC output does not touch the buttons, and the other way round.
LEMMA DcStays ==
  ASSUME OneDcSet, UNCHANGED dcVars, "dcOverlap" \in powerUpsets => "dcOverlap" \in powerUpsets'
  PROVE  OneDcSet'
BY DEF OneDcSet, dcVars, DcBusy

\* A step of the DC extension leaves the ATX part as it was.
LEMMA AtxStays ==
  ASSUME HeldByPress, OneChange, UNCHANGED atxVars, powerUpsets \subseteq powerUpsets'
  PROVE  HeldByPress' /\ OneChange'
<1>1. Pressing' = Pressing /\ Selecting' = Selecting
  BY DEF atxVars, Pressing, Selecting
<1>2. HeldByPress'
  BY <1>1 DEF HeldByPress, atxVars
<1>3. MountedAsActive' = MountedAsActive /\ \A s : ChangeGoesOn(s)' = ChangeGoesOn(s)
  BY DEF MountedAsActive, ChangeGoesOn, atxVars
<1> QED BY <1>1, <1>2, <1>3 DEF OneChange

\* The steps of a DC request: write, read back, gauge.
LEMMA DcStep ==
  ASSUME PowerIInv, DcNext
  PROVE  PowerIInv'
<1>0. /\ PowerTypes /\ HeldByPress /\ OneChange /\ OneDcSet
  BY DEF PowerIInv
<1>1. ASSUME NEW d \in DcSets, NEW on \in BOOLEAN, DcWrite(d, on) PROVE PowerIInv'
  <2>1. /\ dcPc[d] = "new" /\ UNCHANGED <<atxVars, dcGauge, dcRead>> /\ powerUpsets \subseteq powerUpsets'
        /\ ("dcOverlap" \notin powerUpsets' => "dcOverlap" \notin powerUpsets /\ DcBusy = {})
    BY <1>1 DEF DcWrite, Upset
  <2>2. HeldByPress' /\ OneChange'
    BY <1>0, <2>1, AtxStays
  <2>3. CASE dcPin' = on /\ dcPc' = [dcPc EXCEPT ![d] = "read"] /\ UNCHANGED powerFaults
    <3>1. dcTo' \in [DcSets -> BOOLEAN] /\ dcPin' \in BOOLEAN
      BY <1>0, <1>1, <2>3, Zenon DEF DcWrite, PowerTypes
    <3>2. dcPc' \in [DcSets -> SelEnded \cup {"read", "gauge"}]
      BY <1>0, <2>3 DEF PowerTypes
    <3>3. PowerTypes'
      BY <1>0, <2>1, <2>3, <3>1, <3>2 DEF PowerTypes, atxVars
    <3>4. DcBusy' = DcBusy \cup {d}
      BY <1>0, <2>3 DEF DcBusy, SelEnded, PowerTypes
    <3>5. OneDcSet'
      BY <1>0, <2>1, <2>3, <3>4 DEF OneDcSet, DcBusy, PowerTypes, SelEnded
    <3> QED BY <2>2, <3>3, <3>5 DEF PowerIInv
  <2>4. CASE PowerFault /\ dcPc' = [dcPc EXCEPT ![d] = "failed"] /\ UNCHANGED dcPin
    <3>1. dcTo' \in [DcSets -> BOOLEAN]
      BY <1>0, <1>1, Zenon DEF DcWrite, PowerTypes
    <3>2. dcPc' \in [DcSets -> SelEnded \cup {"read", "gauge"}]
      BY <1>0, <2>4 DEF PowerTypes, SelEnded
    <3>3. powerFaults' \in 0..MaxPowerFaults
      BY <1>0, <2>4, PowerAssumption DEF PowerFault, PowerTypes
    <3>4. PowerTypes'
      BY <1>0, <2>1, <2>4, <3>1, <3>2, <3>3 DEF PowerTypes, atxVars
    <3>5. DcBusy' = DcBusy
      BY <1>0, <2>1, <2>4 DEF DcBusy, SelEnded, PowerTypes
    <3>6. OneDcSet'
      BY <1>0, <2>1, <2>4, <3>5 DEF OneDcSet, PowerTypes
    <3> QED BY <2>2, <3>4, <3>6 DEF PowerIInv
  <2> QED BY <1>1, <2>3, <2>4 DEF DcWrite
<1>2. ASSUME NEW d \in DcSets, DcReadBack(d) PROVE PowerIInv'
  <2>1. /\ UNCHANGED <<atxVars, dcPin, dcGauge, dcTo, powerUpsets, powerFaults>> /\ dcPc[d] = "read"
        /\ dcPc' = [dcPc EXCEPT ![d] = "gauge"] /\ dcRead' = [dcRead EXCEPT ![d] = dcPin]
    BY <1>2 DEF DcReadBack
  <2>2. HeldByPress' /\ OneChange'
    BY <1>0, <2>1, AtxStays
  <2>3. dcRead' \in [DcSets -> BOOLEAN]
    BY <1>0, <2>1, Zenon DEF PowerTypes
  <2>4. dcPc' \in [DcSets -> SelEnded \cup {"read", "gauge"}]
    BY <1>0, <2>1 DEF PowerTypes
  <2>5. PowerTypes'
    BY <1>0, <2>1, <2>3, <2>4 DEF PowerTypes, atxVars
  <2>6. DcBusy' = DcBusy /\ d \in DcBusy
    BY <1>0, <2>1 DEF DcBusy, SelEnded, PowerTypes
  <2>7. OneDcSet'
    <3>1. \A e \in DcSets : dcPc'[e] = "gauge" => e = d \/ dcPc[e] = "gauge"
      BY <1>0, <2>1 DEF PowerTypes
    <3>2. \A e \in DcSets : e # d => dcRead'[e] = dcRead[e]
      BY <1>0, <2>1 DEF PowerTypes
    <3>3. dcRead'[d] = dcPin
      BY <1>0, <2>1 DEF PowerTypes
    <3> QED BY <1>0, <2>1, <2>6, <3>1, <3>2, <3>3 DEF OneDcSet
  <2> QED BY <2>2, <2>5, <2>7 DEF PowerIInv
<1>3. ASSUME NEW d \in DcSets, DcSetGauge(d) PROVE PowerIInv'
  <2>1. /\ UNCHANGED <<atxVars, dcPin, dcTo, dcRead, powerUpsets, powerFaults>> /\ dcPc[d] = "gauge"
        /\ dcPc' = [dcPc EXCEPT ![d] = "done"] /\ dcGauge' = dcRead[d]
    BY <1>3 DEF DcSetGauge
  <2>2. HeldByPress' /\ OneChange'
    BY <1>0, <2>1, AtxStays
  <2>3. dcGauge' \in BOOLEAN
    BY <1>0, <2>1, Zenon DEF PowerTypes
  <2>4. dcPc' \in [DcSets -> SelEnded \cup {"read", "gauge"}]
    BY <1>0, <2>1 DEF PowerTypes, SelEnded
  <2>5. PowerTypes'
    BY <1>0, <2>1, <2>3, <2>4 DEF PowerTypes, atxVars
  <2>6. DcBusy' = DcBusy \ {d} /\ d \in DcBusy
    BY <1>0, <2>1 DEF DcBusy, SelEnded, PowerTypes
  <2>7. OneDcSet'
    <3>1. \A e \in DcSets : dcPc'[e] = "gauge" => dcPc[e] = "gauge"
      BY <1>0, <2>1 DEF PowerTypes
    <3>2. "dcOverlap" \notin powerUpsets => dcRead[d] = dcPin
      BY <1>0, <2>1 DEF OneDcSet
    <3> QED BY <1>0, <2>1, <2>6, <3>1, <3>2 DEF OneDcSet
  <2> QED BY <2>2, <2>5, <2>7 DEF PowerIInv
<1> QED BY <1>1, <1>2, <1>3 DEF DcNext

-----------------------------------------------------------------------------
\* While a change of the extension is under way nobody presses, unless they have met.
LEMMA ChangeHolds ==
  ASSUME PowerTypes, HeldByPress, NEW s \in Selecting, UNCHANGED <<pressPc, pressPin>>, high' \subseteq high,
         powerUpsets \subseteq powerUpsets'
  PROVE  HeldByPress'
<1>1. Pressing' = Pressing
  BY DEF Pressing
<1>2. \A p \in Presses : pressPc[p] = "held" => p \in Pressing
  BY DEF Pressing, PressEnded
<1> QED BY <1>1, <1>2 DEF HeldByPress

\* The one change under way takes a step, and reaches a place where it has achieved what it should.
LEMMA ChangeStep ==
  ASSUME PowerTypes, OneChange, NEW s \in Selecting, NEW pc \in SelPlaces, SelGoto(s, pc),
         powerUpsets \subseteq powerUpsets', pc.at = "pin" => pc.pin \in 1..4,
         powerUpsets' \cap {"selectOverlap", "mountFailed"} = {} =>
           IF pc.at \in SelEnded THEN MountedAsActive' ELSE ChangeGoesOn(s)'
  PROVE  OneChange' /\ selPc' \in [Selects -> SelPlaces]
         /\ \A t \in Selects : selPc'[t].at = "pin" => selPc'[t].pin \in 1..4
<1>0. s \in Selects /\ selPc \in [Selects -> SelPlaces]
  BY DEF Selecting, PowerTypes
<1>1. selPc' \in [Selects -> SelPlaces] /\ selPc'[s] = pc /\ \A t \in Selects : t # s => selPc'[t] = selPc[t]
  BY <1>0 DEF SelGoto
<1>2. \A t \in Selects : selPc'[t].at = "pin" => selPc'[t].pin \in 1..4
  BY <1>0, <1>1 DEF PowerTypes
<1>3. Selecting' \ {s} = Selecting \ {s} /\ (s \in Selecting' <=> pc.at \notin SelEnded)
  BY <1>0, <1>1 DEF Selecting
<1>4. OneChange'
  <2> SUFFICES ASSUME powerUpsets' \cap {"selectOverlap", "mountFailed"} = {}
               PROVE  /\ \A t, u \in Selecting' : t = u
                      /\ \A t \in Selecting' : ChangeGoesOn(t)'
                      /\ Selecting' = {} => MountedAsActive'
    BY DEF OneChange
  <2>1. Selecting' \subseteq {s}
    BY <1>3 DEF OneChange
  <2> QED BY <1>3, <2>1
<1> QED BY <1>1, <1>2, <1>4

\* The start of a change of the extension.
LEMMA SelectStep ==
  ASSUME PowerIInv, NEW s \in Selects, NEW to \in {"atx", "other"}, SelectExtension(s, to)
  PROVE  PowerIInv'
<1>0. /\ PowerTypes /\ HeldByPress /\ OneChange /\ OneDcSet /\ selPc \in [Selects -> SelPlaces]
      /\ selPc[s].at = "new" /\ selTo' = [selTo EXCEPT ![s] = to] /\ powerUpsets \subseteq powerUpsets'
      /\ UNCHANGED <<atxMounted, activeExt, exported, high, pressPc, pressPin, dcVars, powerFaults>>
  BY DEF PowerIInv, PowerTypes, SelectExtension, Upset
<1> DEFINE place == IF activeExt = "atx" /\ to # "atx" THEN "unmount" ELSE IF to = "atx" THEN "mount" ELSE "record"
<1>1. /\ place \in {"unmount", "mount", "record"} /\ At(place) \in SelPlaces /\ At(place).at = place
      /\ selPc' = [selPc EXCEPT ![s] = At(place)]
  BY DEF SelectExtension, SelGoto, At, SelPlaces
<1>2. selPc' \in [Selects -> SelPlaces] /\ selPc'[s].at = place /\ \A t \in Selects : t # s => selPc'[t] = selPc[t]
  <2> HIDE DEF place, At
  <2> QED BY <1>0, <1>1
<1>3. /\ \A t \in Selects : selPc'[t].at = "pin" => selPc'[t].pin \in 1..4
  <2> HIDE DEF place
  <2> QED BY <1>0, <1>1, <1>2 DEF PowerTypes
<1>4. selTo' \in [Selects -> {"atx", "other"}] /\ selTo'[s] = to
  BY <1>0 DEF PowerTypes
<1>5. PowerTypes'
  <2> HIDE DEF place
  <2> QED BY <1>0, <1>2, <1>3, <1>4 DEF PowerTypes, dcVars
<1>6. Selecting' = Selecting \cup {s} /\ s \notin Selecting
  <2> HIDE DEF place
  <2> QED BY <1>0, <1>1, <1>2 DEF Selecting, SelEnded
<1>7. HeldByPress'
  <2>1. Pressing' = Pressing
    BY <1>0 DEF Pressing
  <2>2. Pressing # {} => "pressDuringSelect" \in powerUpsets'
    BY DEF SelectExtension, Upset
  <2> QED BY <1>0, <2>1, <2>2 DEF HeldByPress
<1>8. OneChange'
  <2> SUFFICES ASSUME powerUpsets' \cap {"selectOverlap", "mountFailed"} = {}
               PROVE  /\ \A t, u \in Selecting' : t = u
                      /\ \A t \in Selecting' : ChangeGoesOn(t)'
                      /\ Selecting' = {} => MountedAsActive'
    BY DEF OneChange
  <2>1. Selecting = {}
    BY DEF SelectExtension, Upset
  <2>2. MountedAsActive /\ MountedAsActive'
    BY <1>0, <2>1 DEF OneChange, MountedAsActive
  <2>3. ChangeGoesOn(s)'
    BY <1>0, <1>2, <1>4, <2>2 DEF ChangeGoesOn, MountedAsActive, PowerTypes
  <2> QED BY <1>6, <2>1, <2>3
<1>9. OneDcSet'
  BY <1>0, DcStays
<1> QED BY <1>5, <1>7, <1>8, <1>9 DEF PowerIInv

\* The steps that unmount, give the pins back, mount and record an extension.
LEMMA ExtensionStep ==
  ASSUME PowerIInv, NEW s \in Selects, UnmountAtx(s) \/ UnexportAtx(s) \/ MountAtx(s) \/ RecordExtension(s)
  PROVE  PowerIInv'
<1>0. /\ PowerTypes /\ HeldByPress /\ OneChange /\ OneDcSet
      /\ UNCHANGED <<selTo, pressPc, pressPin, dcVars, powerUpsets, powerFaults>>
  BY DEF PowerIInv, UnmountAtx, UnexportAtx, MountAtx, RecordExtension
<1>1. s \in Selecting /\ high' \subseteq high
  BY DEF Selecting, SelEnded, UnmountAtx, UnexportAtx, MountAtx, RecordExtension
<1>2. HeldByPress' /\ OneDcSet'
  BY <1>0, <1>1, ChangeHolds, DcStays
<1>3. powerUpsets \cap {"selectOverlap", "mountFailed"} = {} => ChangeGoesOn(s)
  BY <1>0, <1>1 DEF OneChange
<1>4. \A p \in {"unexport", "record", "done"} : At(p) \in SelPlaces /\ At(p).at = p
  BY DEF At, SelPlaces, SelEnded
<1> HIDE DEF At
<1>5. CASE UnmountAtx(s)
  <2> DEFINE place == IF atxMounted THEN "unexport" ELSE "record"
  <2>1. /\ place \in {"unexport", "record"} /\ selPc[s].at = "unmount" /\ SelGoto(s, At(place))
        /\ atxMounted' = FALSE /\ UNCHANGED <<activeExt, exported>>
    BY <1>5 DEF UnmountAtx
  <2>2. atxMounted' \in BOOLEAN
    BY <2>1, Zenon
  <2>3. selPc'[s] = At(place)
    BY <1>0, <1>1, <2>1 DEF SelGoto, PowerTypes, Selecting
  <2>4. ASSUME powerUpsets' \cap {"selectOverlap", "mountFailed"} = {} PROVE ChangeGoesOn(s)'
    <3>1. place = "unexport" /\ selTo[s] = "other"
      BY <1>0, <1>3, <2>1, <2>4 DEF ChangeGoesOn, MountedAsActive
    <3> QED BY <1>0, <1>4, <2>1, <2>3, <3>1 DEF ChangeGoesOn
  <2>5. /\ OneChange' /\ selPc' \in [Selects -> SelPlaces]
        /\ \A t \in Selects : selPc'[t].at = "pin" => selPc'[t].pin \in 1..4
    <3> HIDE DEF place
    <3>1. At(place) \in SelPlaces /\ At(place).at \notin SelEnded \cup {"pin"}
      BY <1>4, <2>1 DEF SelEnded
    <3> QED BY <1>0, <1>1, <2>1, <2>4, <3>1, ChangeStep
  <2>6. PowerTypes'
    BY <1>0, <1>1, <2>1, <2>2, <2>5 DEF PowerTypes, dcVars
  <2> QED BY <1>2, <2>5, <2>6 DEF PowerIInv
<1>6. CASE UnexportAtx(s)
  <2>1. selPc[s].at = "unexport" /\ SelGoto(s, At("record")) /\ exported' = {} /\ UNCHANGED <<atxMounted, activeExt>>
    BY <1>6 DEF UnexportAtx
  <2>2. selPc'[s] = At("record")
    BY <1>0, <1>1, <2>1 DEF SelGoto, PowerTypes, Selecting
  <2>3. ASSUME powerUpsets' \cap {"selectOverlap", "mountFailed"} = {} PROVE ChangeGoesOn(s)'
    <3>1. ~atxMounted /\ selTo[s] = "other"
      BY <1>0, <1>3, <2>1, <2>3 DEF ChangeGoesOn
    <3>2. ~(Buttons \subseteq exported')
      BY <2>1 DEF Buttons
    <3> QED BY <1>0, <1>4, <2>1, <2>2, <3>1, <3>2 DEF ChangeGoesOn
  <2>4. /\ OneChange' /\ selPc' \in [Selects -> SelPlaces]
        /\ \A t \in Selects : selPc'[t].at = "pin" => selPc'[t].pin \in 1..4
    <3>1. At("record") \in SelPlaces /\ At("record").at \notin SelEnded \cup {"pin"}
      BY <1>4 DEF SelEnded
    <3> QED BY <1>0, <1>1, <2>1, <2>3, <3>1, ChangeStep
  <2>5. PowerTypes'
    BY <1>0, <1>1, <2>1, <2>4 DEF PowerTypes, dcVars
  <2> QED BY <1>2, <2>4, <2>5 DEF PowerIInv
<1>7. CASE MountAtx(s)
  <2> DEFINE pc == IF atxMounted THEN At("record") ELSE [at |-> "pin", pin |-> 1]
  <2>1. selPc[s].at = "mount" /\ SelGoto(s, pc) /\ atxMounted' = TRUE /\ UNCHANGED <<activeExt, exported>>
    BY <1>7 DEF MountAtx
  <2>2. /\ pc \in SelPlaces /\ pc.at \in {"record", "pin"} /\ (pc.at = "pin" => pc.pin = 1)
        /\ (pc.at = "record" => atxMounted)
    BY <1>4 DEF SelPlaces
  <2>3. atxMounted' \in BOOLEAN
    BY <2>1, Zenon
  <2> HIDE DEF pc
  <2>4. selPc'[s] = pc
    BY <1>0, <1>1, <2>1 DEF SelGoto, PowerTypes, Selecting
  <2>5. ASSUME powerUpsets' \cap {"selectOverlap", "mountFailed"} = {} PROVE ChangeGoesOn(s)'
    <3>1. MountedAsActive /\ selTo[s] = "atx"
      BY <1>0, <1>3, <2>1, <2>5 DEF ChangeGoesOn
    <3> QED BY <1>0, <2>1, <2>2, <2>4, <3>1 DEF ChangeGoesOn, MountedAsActive
  <2>6. /\ OneChange' /\ selPc' \in [Selects -> SelPlaces]
        /\ \A t \in Selects : selPc'[t].at = "pin" => selPc'[t].pin \in 1..4
    <3>1. pc.at \notin SelEnded /\ (pc.at = "pin" => pc.pin \in 1..4)
      BY <2>2 DEF SelEnded
    <3> QED BY <1>0, <1>1, <2>1, <2>2, <2>5, <3>1, ChangeStep
  <2>7. PowerTypes'
    BY <1>0, <1>1, <2>1, <2>3, <2>6 DEF PowerTypes, dcVars
  <2> QED BY <1>2, <2>6, <2>7 DEF PowerIInv
<1>8. CASE RecordExtension(s)
  <2>1. selPc[s].at = "record" /\ SelGoto(s, At("done")) /\ activeExt' = selTo[s] /\ UNCHANGED <<atxMounted, exported>>
    BY <1>8 DEF RecordExtension
  <2>2. ASSUME powerUpsets' \cap {"selectOverlap", "mountFailed"} = {} PROVE MountedAsActive'
    BY <1>0, <1>3, <2>1, <2>2 DEF ChangeGoesOn, MountedAsActive
  <2>3. /\ OneChange' /\ selPc' \in [Selects -> SelPlaces]
        /\ \A t \in Selects : selPc'[t].at = "pin" => selPc'[t].pin \in 1..4
    <3>1. At("done") \in SelPlaces /\ At("done").at \in SelEnded /\ At("done").at # "pin"
      BY <1>4 DEF SelEnded
    <3> QED BY <1>0, <1>1, <2>1, <2>2, <3>1, ChangeStep
  <2>4. PowerTypes'
    BY <1>0, <1>1, <2>1, <2>3 DEF PowerTypes, dcVars
  <2> QED BY <1>2, <2>3, <2>4 DEF PowerIInv
<1> QED BY <1>5, <1>6, <1>7, <1>8

\* The steps that export the pins of the ATX extension.
LEMMA InitPinStep ==
  ASSUME PowerIInv, NEW s \in Selects, InitPin(s)
  PROVE  PowerIInv'
<1> DEFINE n == selPc[s].pin
<1>0. /\ PowerTypes /\ HeldByPress /\ OneChange /\ OneDcSet /\ powerUpsets \subseteq powerUpsets'
      /\ UNCHANGED <<atxMounted, activeExt, selTo, pressPc, pressPin, dcVars>>
  BY DEF PowerIInv, InitPin, Upset
<1>1. selPc[s].at = "pin" /\ n \in 1..4 /\ AtxPins[n] \in Pins
  BY <1>0, PinNames DEF InitPin, PowerTypes
<1>2. s \in Selecting /\ high' \subseteq high
  BY <1>1 DEF Selecting, SelEnded, InitPin
<1>3. HeldByPress'
  BY <1>0, <1>2, ChangeHolds
<1>4. OneDcSet'
  BY <1>0, DcStays
<1>5. powerUpsets \cap {"selectOverlap", "mountFailed"} = {} => ChangeGoesOn(s)
  BY <1>0, <1>2 DEF OneChange
<1>6. \A p \in {"record", "failed"} : At(p) \in SelPlaces /\ At(p).at = p
  BY DEF At, SelPlaces, SelEnded
<1> HIDE DEF At, n
<1>7. CASE PowerFault /\ Upset({"mountFailed"}) /\ SelGoto(s, At("failed")) /\ UNCHANGED <<exported, high>>
  <2>1. "mountFailed" \in powerUpsets'
    BY <1>7 DEF Upset
  <2>2. /\ OneChange' /\ selPc' \in [Selects -> SelPlaces]
        /\ \A t \in Selects : selPc'[t].at = "pin" => selPc'[t].pin \in 1..4
    <3>1. At("failed") \in SelPlaces /\ At("failed").at # "pin"
      BY <1>6
    <3> QED BY <1>0, <1>2, <1>7, <2>1, <3>1, ChangeStep
  <2>3. powerFaults' \in 0..MaxPowerFaults
    BY <1>0, <1>7, PowerAssumption DEF PowerFault, PowerTypes
  <2>4. PowerTypes'
    BY <1>0, <1>7, <2>2, <2>3 DEF PowerTypes, dcVars
  <2> QED BY <1>3, <1>4, <2>2, <2>4 DEF PowerIInv
<1>8. CASE /\ exported' = exported \cup {AtxPins[n]} /\ high' = high \ {AtxPins[n]}
           /\ SelGoto(s, IF n = Len(AtxPins) THEN At("record") ELSE [at |-> "pin", pin |-> n + 1])
           /\ UNCHANGED <<powerUpsets, powerFaults>>
  <2> DEFINE pc == IF n = 4 THEN At("record") ELSE [at |-> "pin", pin |-> n + 1]
  <2>1. SelGoto(s, pc)
    BY <1>8, PinNames
  <2>2. /\ pc \in SelPlaces /\ pc.at \in {"record", "pin"} /\ (pc.at = "pin" => pc.pin = n + 1 /\ n + 1 \in 1..4)
        /\ (pc.at = "record" => n = 4)
    BY <1>1, <1>6 DEF SelPlaces
  <2> HIDE DEF pc
  <2>3. selPc'[s] = pc
    BY <1>0, <1>2, <2>1 DEF SelGoto, PowerTypes, Selecting
  <2>4. ASSUME powerUpsets' \cap {"selectOverlap", "mountFailed"} = {} PROVE ChangeGoesOn(s)'
    <3>1. atxMounted /\ selTo[s] = "atx" /\ \A i \in 1..(n - 1) : AtxPins[i] \in exported
      BY <1>1, <1>5, <1>8, <2>4 DEF ChangeGoesOn, n
    <3>2. \A i \in 1..n : AtxPins[i] \in exported'
      BY <1>1, <1>8, <3>1
    <3>3. n = 4 => Buttons \subseteq exported'
      BY <3>2, PinNames DEF Buttons
    <3>4. pc.at = "pin" => \A i \in 1..(pc.pin - 1) : AtxPins[i] \in exported'
      BY <1>1, <2>2, <3>2
    <3> QED BY <1>0, <2>2, <2>3, <3>1, <3>3, <3>4 DEF ChangeGoesOn
  <2>5. /\ OneChange' /\ selPc' \in [Selects -> SelPlaces]
        /\ \A t \in Selects : selPc'[t].at = "pin" => selPc'[t].pin \in 1..4
    <3>1. pc.at \notin SelEnded /\ (pc.at = "pin" => pc.pin \in 1..4)
      BY <2>2 DEF SelEnded
    <3> QED BY <1>0, <1>2, <2>1, <2>2, <2>4, <3>1, ChangeStep
  <2>6. PowerTypes'
    BY <1>0, <1>1, <1>8, <2>5 DEF PowerTypes, dcVars
  <2> QED BY <1>3, <1>4, <2>5, <2>6 DEF PowerIInv
<1> QED BY <1>7, <1>8 DEF InitPin, n

\* A press: the pin up, the hold, the pin down.
LEMMA PressStep ==
  ASSUME PowerIInv, NEW p \in Presses, PressUp(p) \/ \E pin \in Buttons : PressDown(p, pin)
  PROVE  PowerIInv'
<1>0. /\ PowerTypes /\ HeldByPress /\ OneChange /\ OneDcSet /\ powerUpsets \subseteq powerUpsets'
      /\ UNCHANGED <<atxMounted, activeExt, exported, selPc, selTo, dcVars>>
  BY DEF PowerIInv, PressUp, PressDown, Upset
<1>1. Selecting' = Selecting
  BY <1>0 DEF Selecting
<1>2. OneChange'
  <2>1. (MountedAsActive' <=> MountedAsActive) /\ \A s : ChangeGoesOn(s)' <=> ChangeGoesOn(s)
    BY <1>0 DEF MountedAsActive, ChangeGoesOn
  <2> QED BY <1>0, <1>1, <2>1 DEF OneChange
<1>3. OneDcSet'
  BY <1>0, DcStays
<1>4. \A q \in Presses : q \in Pressing <=> pressPc[q] = "held"
  BY <1>0 DEF Pressing, PowerTypes, PressEnded
<1>5. ASSUME NEW pin \in Buttons, PressDown(p, pin) PROVE PowerIInv'
  <2>1. /\ pressPc[p] = "new" /\ pressPin' = [pressPin EXCEPT ![p] = pin] /\ UNCHANGED powerFaults
        /\ (Selecting # {} => "pressDuringSelect" \in powerUpsets')
    BY <1>5 DEF PressDown, Upset
  <2>2. \/ /\ pin \in exported /\ high' = high \cup {pin} /\ pressPc' = [pressPc EXCEPT ![p] = "held"]
        \/ /\ pin \notin exported /\ high' = high /\ pressPc' = [pressPc EXCEPT ![p] = "failed"]
    BY <1>5 DEF PressDown, PressGoto
  <2>3. /\ pressPc' \in [Presses -> PressEnded \cup {"held"}] /\ pressPin' \in [Presses -> Buttons]
        /\ high' \subseteq Buttons
    BY <1>0, <2>1, <2>2 DEF PowerTypes, PressEnded
  <2>4. PowerTypes'
    BY <1>0, <2>1, <2>3 DEF PowerTypes, dcVars
  <2>5. /\ \A q \in Presses : q # p => pressPc'[q] = pressPc[q] /\ pressPin'[q] = pressPin[q]
        /\ pressPin'[p] = pin
        /\ (pressPc'[p] = "held" /\ pin \in exported /\ high' = high \cup {pin}) \/ (pressPc'[p] # "held" /\ high' = high)
    BY <1>0, <2>1, <2>2 DEF PowerTypes
  <2>6. HeldByPress'
    <3> SUFFICES ASSUME powerUpsets' \cap {"pressDuringSelect", "releaseFailed"} = {}
                 PROVE  /\ Pressing' = {} \/ Selecting' = {}
                        /\ \A b \in high' : \E q \in Presses : pressPc'[q] = "held" /\ pressPin'[q] = b
                        /\ \A q \in Presses : pressPc'[q] = "held" => pressPin'[q] \in exported'
      BY DEF HeldByPress
    <3>1. Selecting = {} /\ powerUpsets \cap {"pressDuringSelect", "releaseFailed"} = {}
      BY <1>0, <2>1
    <3>2. \A b \in high : \E q \in Presses : pressPc[q] = "held" /\ pressPin[q] = b
      BY <1>0, <3>1 DEF HeldByPress
    <3>3. \A b \in high' : \E q \in Presses : pressPc'[q] = "held" /\ pressPin'[q] = b
      BY <2>1, <2>5, <3>2
    <3>4. \A q \in Presses : pressPc'[q] = "held" => pressPin'[q] \in exported'
      BY <1>0, <2>5, <3>1 DEF HeldByPress
    <3> QED BY <1>1, <3>1, <3>3, <3>4
  <2> QED BY <1>2, <1>3, <2>4, <2>6 DEF PowerIInv
<1>6. CASE PressUp(p)
  <2>1. pressPc[p] = "held" /\ UNCHANGED pressPin /\ high' \subseteq high /\ \A b \in high \ high' : b = pressPin[p]
    BY <1>6 DEF PressUp
  <2>2. pressPc' \in [Presses -> PressEnded \cup {"held"}] /\ pressPc'[p] # "held"
        /\ \A q \in Presses : q # p => pressPc'[q] = pressPc[q]
    BY <1>0, <1>6 DEF PressUp, PressGoto, PowerTypes, PressEnded
  <2>3. powerFaults' \in 0..MaxPowerFaults
    BY <1>0, <1>6, PowerAssumption DEF PressUp, PowerFault, PowerTypes
  <2>4. PowerTypes'
    BY <1>0, <2>1, <2>2, <2>3 DEF PowerTypes, dcVars
  <2>5. HeldByPress'
    <3> SUFFICES ASSUME powerUpsets' \cap {"pressDuringSelect", "releaseFailed"} = {}
                 PROVE  /\ Pressing' = {} \/ Selecting' = {}
                        /\ \A b \in high' : \E q \in Presses : pressPc'[q] = "held" /\ pressPin'[q] = b
                        /\ \A q \in Presses : pressPc'[q] = "held" => pressPin'[q] \in exported'
      BY DEF HeldByPress
    <3>1. /\ powerUpsets \cap {"pressDuringSelect", "releaseFailed"} = {} /\ Selecting = {}
          /\ pressPin[p] \in exported
      BY <1>0, <1>4, <2>1 DEF HeldByPress
    <3>2. high' = high \ {pressPin[p]}
      BY <1>6, <3>1 DEF PressUp, Upset
    <3>3. \A b \in high' : \E q \in Presses : pressPc'[q] = "held" /\ pressPin'[q] = b
      BY <1>0, <2>1, <2>2, <3>1, <3>2 DEF HeldByPress
    <3>4. \A q \in Presses : pressPc'[q] = "held" => pressPin'[q] \in exported'
      BY <1>0, <2>1, <2>2, <3>1 DEF HeldByPress
    <3> QED BY <1>1, <3>1, <3>3, <3>4
  <2> QED BY <1>2, <1>3, <2>4, <2>5 DEF PowerIInv
<1> QED BY <1>5, <1>6

\* No button is left pressed, the mounted extension is the active one and the gauge shows the pin,
\* for any number of requests and presses that do not run into each other.
THEOREM PowerInvHolds == PowerSpec => []PowerInv
<1>1. PowerIInv => PowerInv
  <2> SUFFICES ASSUME PowerIInv PROVE PowerInv
    OBVIOUS
  <2>1. PowerTypeOK
    <3>1. Pins \subseteq {AtxPins[i] : i \in 1..4}
      BY DEF Pins, AtxPins
    <3> QED BY <3>1 DEF PowerIInv, PowerTypes, PowerTypeOK
  <2>2. NoButtonStuck
    <3>1. \A p \in Presses : pressPc[p] = "held" => p \in Pressing
      BY DEF Pressing, PressEnded
    <3> QED BY <3>1 DEF PowerIInv, HeldByPress, NoButtonStuck
  <2>3. ActiveIsMounted
    BY DEF PowerIInv, OneChange, MountedAsActive, ActiveIsMounted
  <2>4. GaugeFollowsPin
    BY DEF PowerIInv, OneDcSet, GaugeFollowsPin
  <2> QED BY <2>1, <2>2, <2>3, <2>4 DEF PowerInv
<1>2. PowerIInv /\ [PowerNext]_powerVars => PowerIInv'
  <2> SUFFICES ASSUME PowerIInv, [PowerNext]_powerVars PROVE PowerIInv'
    OBVIOUS
  <2>1. CASE UNCHANGED powerVars
    <3>1. UNCHANGED <<atxVars, dcVars, powerUpsets, powerFaults>>
      BY <2>1 DEF powerVars, atxVars, dcVars
    <3>2. PowerTypes'
      BY <3>1 DEF PowerIInv, PowerTypes, atxVars, dcVars
    <3> QED BY <3>1, <3>2, AtxStays, DcStays DEF PowerIInv
  <2>2. CASE AtxNext
    BY <2>2, SelectStep, ExtensionStep, InitPinStep, PressStep DEF AtxNext
  <2>3. CASE DcNext
    BY <2>3, DcStep
  <2> QED BY <2>1, <2>2, <2>3 DEF PowerNext
<1> QED BY <1>1, <1>2, PowerInitially, PTL DEF PowerSpec

-----------------------------------------------------------------------------
(* The backlight *)

BacklightSpec == BacklightInit /\ [][BacklightNext]_lightVars

LightTypes ==
  /\ BacklightTypeOK /\ dimOn \in BOOLEAN /\ offOn \in BOOLEAN
  /\ dimTo \in [Wakes -> 0..255] /\ seenMax \in [Wakes -> 0..255]
  /\ setting \in [LightSettings -> {"new", "write", "done"}] /\ setMax \in [LightSettings -> 0..255]

\* A wake whose token is not cancelled and that has had timers is the newest one: its timers are the
\* only ones that can fire, and that have fired without being late.
TimersAreNewest == \A w \in Wakes \ stale : (\E k \in TimerKinds : timers[w][k] # "none") => w = lightToken

LitIfAccepted == LightRefused(maxBright) \/ panel = maxBright

\* As long as nothing overlapped and no timer was late: one wake or change of the settings at a
\* time, which works with the configured maximum, and the panel lit by the last one.
OneAtWork ==
  lightUpsets = {} =>
    /\ \A v, w \in WakeBusy : v = w
    /\ \A s, t \in SettingBusy : s = t
    /\ WakeBusy = {} \/ SettingBusy = {}
    /\ \A w \in WakeBusy : seenMax[w] = maxBright
    /\ \A w \in Wakes : wake[w] = "tickers" => LitIfAccepted
    /\ \A s \in SettingBusy : setMax[s] = maxBright
    /\ (WakeBusy = {} /\ SettingBusy = {} /\ lightToken # "none" /\ NoneFired(lightToken)) => LitIfAccepted

LightIInv == LightTypes /\ TimersAreNewest /\ OneAtWork

TimerPlaces == {"none", "armed", "fired", "over"}

\* Before the first wake.
LEMMA BacklightInitially == BacklightInit => LightIInv
<1> SUFFICES ASSUME BacklightInit PROVE LightIInv
  OBVIOUS
<1>1. BacklightTypeOK
  BY BacklightAssumption DEF BacklightInit, BacklightTypeOK
<1>2. LightTypes
  BY <1>1 DEF BacklightInit, LightTypes
<1>3. TimersAreNewest
  BY DEF BacklightInit, TimersAreNewest
<1>4. WakeBusy = {} /\ SettingBusy = {} /\ lightToken = "none" /\ \A w \in Wakes : wake[w] # "tickers"
  BY DEF BacklightInit, WakeBusy, SettingBusy
<1>5. OneAtWork
  BY <1>4 DEF OneAtWork
<1> QED BY <1>2, <1>3, <1>5 DEF LightIInv

-----------------------------------------------------------------------------
\* The steps of a wake: the token, the panel, the timers.
LEMMA WakeStep ==
  ASSUME LightIInv, NEW w \in Wakes, (\E force \in BOOLEAN : WakeStart(w, force)) \/ WakeLight(w) \/ StartTickers(w)
  PROVE  LightIInv'
<1>0. LightTypes /\ TimersAreNewest /\ OneAtWork /\ UNCHANGED <<maxBright, dimOn, offOn, setting, setMax>>
  BY DEF LightIInv, WakeStart, WakeLight, StartTickers
<1>1. /\ maxBright \in Brightnesses /\ maxBright \in 0..255 /\ panel \in 0..255 /\ wake \in [Wakes -> {"new", "light", "tickers", "done"}]
      /\ timers \in [Wakes -> [TimerKinds -> TimerPlaces]]
      /\ dimTo \in [Wakes -> 0..255] /\ seenMax \in [Wakes -> 0..255]
  BY <1>0, BacklightAssumption DEF LightTypes, BacklightTypeOK, TimerPlaces
<1>2. SettingBusy' = SettingBusy
  BY <1>0 DEF SettingBusy
<1>3. ASSUME NEW force \in BOOLEAN, WakeStart(w, force) PROVE LightIInv'
  <2>1. /\ wake[w] = "new" /\ UNCHANGED <<panel, lightToken, stale, timers, dimTo>>
        /\ wake' = [wake EXCEPT ![w] = IF maxBright = 0 /\ ~force THEN "done" ELSE "light"]
        /\ seenMax' = [seenMax EXCEPT ![w] = maxBright]
        /\ (lightUpsets' = {} => lightUpsets = {} /\ WakeBusy = {} /\ SettingBusy = {})
    BY <1>3 DEF WakeStart
  <2>2. /\ wake' \in [Wakes -> {"new", "light", "tickers", "done"}] /\ seenMax' \in [Wakes -> 0..255]
        /\ wake'[w] \in {"done", "light"} /\ seenMax'[w] = maxBright
        /\ \A v \in Wakes : v # w => wake'[v] = wake[v] /\ seenMax'[v] = seenMax[v]
    BY <1>1, <2>1
  <2>3. LightTypes'
    BY <1>0, <2>1, <2>2 DEF LightTypes, BacklightTypeOK
  <2>4. TimersAreNewest'
    BY <1>0, <2>1 DEF TimersAreNewest
  <2>5. WakeBusy' = WakeBusy \cup {w} \/ WakeBusy' = WakeBusy
    BY <2>1, <2>2 DEF WakeBusy
  <2>6. OneAtWork'
    <3> SUFFICES ASSUME lightUpsets' = {} PROVE OneAtWork'
      BY DEF OneAtWork
    <3>1. lightUpsets = {} /\ WakeBusy = {} /\ SettingBusy' = {} /\ WakeBusy' \subseteq {w}
      BY <1>2, <2>1, <2>5
    <3>2. \A v \in Wakes : wake'[v] # "tickers"
      BY <2>2, <3>1 DEF WakeBusy
    <3>3. (LitIfAccepted' <=> LitIfAccepted) /\ (NoneFired(lightToken)' <=> NoneFired(lightToken))
      BY <1>0, <2>1 DEF LitIfAccepted, LightRefused, NoneFired
    <3>4. (WakeBusy' = {} /\ SettingBusy' = {} /\ lightToken' # "none" /\ NoneFired(lightToken)') => LitIfAccepted'
      BY <1>0, <2>1, <3>1, <3>3 DEF OneAtWork
    <3> QED BY <1>0, <2>2, <3>1, <3>2, <3>4 DEF OneAtWork
  <2> QED BY <2>3, <2>4, <2>6 DEF LightIInv
<1>4. CASE WakeLight(w)
  <2>1. /\ wake[w] = "light" /\ panel' = Lit(seenMax[w]) /\ wake' = [wake EXCEPT ![w] = "tickers"]
        /\ UNCHANGED <<lightToken, stale, timers, dimTo, seenMax, lightUpsets>>
    BY <1>4 DEF WakeLight
  <2>2. wake' \in [Wakes -> {"new", "light", "tickers", "done"}] /\ panel' \in 0..255
    BY <1>1, <2>1 DEF Lit
  <2>3. LightTypes'
    BY <1>0, <2>1, <2>2 DEF LightTypes, BacklightTypeOK
  <2>4. TimersAreNewest'
    BY <1>0, <2>1 DEF TimersAreNewest
  <2>5. WakeBusy' = WakeBusy /\ w \in WakeBusy
    BY <1>1, <2>1 DEF WakeBusy
  <2>6. OneAtWork'
    <3> SUFFICES ASSUME lightUpsets' = {} PROVE OneAtWork'
      BY DEF OneAtWork
    <3>1. seenMax[w] = maxBright
      BY <1>0, <2>1, <2>5 DEF OneAtWork
    <3>2. LitIfAccepted'
      BY <1>0, <2>1, <3>1 DEF LitIfAccepted, Lit, LightRefused
    <3> QED BY <1>0, <1>2, <2>1, <2>5, <3>2 DEF OneAtWork
  <2> QED BY <2>3, <2>4, <2>6 DEF LightIInv
<1>5. CASE StartTickers(w)
  <2>1. /\ wake[w] = "tickers" /\ wake' = [wake EXCEPT ![w] = "done"] /\ UNCHANGED <<seenMax, lightUpsets>>
    BY <1>5 DEF StartTickers
  <2>2. wake' \in [Wakes -> {"new", "light", "tickers", "done"}] /\ wake'[w] = "done"
        /\ \A v \in Wakes : v # w => wake'[v] = wake[v]
    BY <1>1, <2>1
  <2>3. WakeBusy' = WakeBusy \ {w} /\ w \in WakeBusy
    BY <2>1, <2>2 DEF WakeBusy
  <2>4. lightUpsets' = {} => WakeBusy' = {} /\ SettingBusy' = {} /\ LitIfAccepted
    BY <1>0, <1>2, <2>1, <2>3 DEF OneAtWork
  <2>5. ASSUME lightUpsets' = {} => LitIfAccepted' PROVE OneAtWork'
    <3>1. lightUpsets' = {} => \A v \in Wakes : wake'[v] # "tickers"
      BY <2>4 DEF WakeBusy
    <3> QED BY <2>4, <2>5, <3>1 DEF OneAtWork
  <2>6. CASE maxBright = 0
    <3>1. panel' = 0 /\ UNCHANGED <<lightToken, stale, timers, dimTo>>
      BY <1>5, <2>6 DEF StartTickers
    <3>2. LightTypes'
      BY <1>0, <2>1, <2>2, <3>1 DEF LightTypes, BacklightTypeOK
    <3>3. TimersAreNewest'
      BY <1>0, <3>1 DEF TimersAreNewest
    <3>4. LitIfAccepted'
      BY <1>0, <2>6, <3>1 DEF LitIfAccepted
    <3> QED BY <2>5, <3>2, <3>3, <3>4 DEF LightIInv
  <2>7. CASE maxBright # 0
    <3> DEFINE fresh == [k \in TimerKinds |-> IF (k = "dim" /\ dimOn) \/ (k = "off" /\ offOn) THEN "armed" ELSE "none"]
    <3>1. /\ lightToken' = w /\ stale' = stale \cup ({lightToken} \ {"none"}) /\ UNCHANGED panel
          /\ timers' = [timers EXCEPT ![w] = fresh] /\ dimTo' = [dimTo EXCEPT ![w] = maxBright \div 2]
      BY <1>5, <2>7 DEF StartTickers
    <3>2. fresh \in [TimerKinds -> TimerPlaces]
      BY DEF TimerPlaces
    <3> HIDE DEF fresh
    <3>3. timers' \in [Wakes -> [TimerKinds -> TimerPlaces]] /\ \A v \in Wakes : v # w => timers'[v] = timers[v]
      BY <1>1, <3>1, <3>2
    <3>4. maxBright \div 2 \in 0..255
      BY <1>1
    <3>5. dimTo' \in [Wakes -> 0..255]
      BY <1>1, <3>1, <3>4
    <3>6. LightTypes'
      BY <1>0, <2>1, <2>2, <3>1, <3>3, <3>5 DEF LightTypes, BacklightTypeOK, TimerPlaces
    <3>7. TimersAreNewest'
      <4> SUFFICES ASSUME NEW v \in Wakes \ stale', \E k \in TimerKinds : timers'[v][k] # "none", v # w
                   PROVE  FALSE
        BY <3>1 DEF TimersAreNewest
      <4>1. v = lightToken
        BY <1>0, <3>1, <3>3 DEF TimersAreNewest
      <4> QED BY <3>1, <4>1, BacklightAssumption
    <3>8. LitIfAccepted' <=> LitIfAccepted
      BY <1>0, <3>1 DEF LitIfAccepted, LightRefused
    <3> QED BY <2>4, <2>5, <3>6, <3>7, <3>8 DEF LightIInv
  <2> QED BY <2>6, <2>7
<1> QED BY <1>3, <1>4, <1>5

\* A timer fires, in time or after its token was cancelled.
LEMMA TimerStep ==
  ASSUME LightIInv, NEW w \in Wakes, NEW k \in TimerKinds, TimerFires(w, k) \/ TimerWrites(w, k) \/ TimerDropped(w, k)
  PROVE  LightIInv'
<1>0. /\ LightTypes /\ TimersAreNewest /\ OneAtWork /\ lightUpsets \subseteq lightUpsets'
      /\ UNCHANGED <<maxBright, dimOn, offOn, lightToken, stale, dimTo, wake, seenMax, setting, setMax>>
  BY DEF LightIInv, TimerFires, TimerWrites, TimerDropped
<1>1. timers \in [Wakes -> [TimerKinds -> TimerPlaces]] /\ panel \in 0..255 /\ dimTo \in [Wakes -> 0..255]
  BY <1>0 DEF LightTypes, BacklightTypeOK, TimerPlaces
<1>2. timers[w][k] \in {"armed", "fired"} /\ \E to \in {"fired", "over"} : timers' = [timers EXCEPT ![w][k] = to]
  BY DEF TimerFires, TimerWrites, TimerDropped
<1>3. /\ timers' \in [Wakes -> [TimerKinds -> TimerPlaces]] /\ timers'[w][k] \in {"fired", "over"}
      /\ \A v \in Wakes, j \in TimerKinds : v # w \/ j # k => timers'[v][j] = timers[v][j]
  BY <1>1, <1>2 DEF TimerPlaces
<1>4. panel' \in 0..255
  <2>1. CASE TimerWrites(w, k)
    BY <1>1, <2>1 DEF TimerWrites, Lit
  <2>2. CASE TimerFires(w, k) \/ TimerDropped(w, k)
    BY <1>1, <2>2 DEF TimerFires, TimerDropped
  <2> QED BY <2>1, <2>2
<1>5. LightTypes'
  BY <1>0, <1>3, <1>4 DEF LightTypes, BacklightTypeOK, TimerPlaces
<1>6. TimersAreNewest'
  <2> SUFFICES ASSUME NEW v \in Wakes \ stale, \E j \in TimerKinds : timers'[v][j] # "none"
               PROVE  v = lightToken
    BY <1>0 DEF TimersAreNewest
  <2>1. \E j \in TimerKinds : timers[v][j] # "none"
    BY <1>2, <1>3
  <2> QED BY <1>0, <2>1 DEF TimersAreNewest
<1>7. WakeBusy' = WakeBusy /\ SettingBusy' = SettingBusy
  BY <1>0 DEF WakeBusy, SettingBusy
<1>8. ASSUME lightUpsets' = {}
      PROVE  /\ \A v \in Wakes : wake'[v] = "tickers" => LitIfAccepted'
             /\ (WakeBusy' = {} /\ SettingBusy' = {} /\ lightToken' # "none" /\ NoneFired(lightToken)') => LitIfAccepted'
  <2>0. lightUpsets = {}
    BY <1>0, <1>8
  <2>1. CASE TimerWrites(w, k)
    <3>1. w \notin stale /\ WakeBusy = {}
      BY <1>8, <2>1 DEF TimerWrites
    <3>2. w = lightToken
      BY <1>0, <1>2, <3>1 DEF TimersAreNewest
    <3>3. ~NoneFired(lightToken)'
      BY <1>0, <1>3, <3>2 DEF NoneFired
    <3> QED BY <1>7, <3>1, <3>3 DEF WakeBusy
  <2>2. CASE TimerFires(w, k) \/ TimerDropped(w, k)
    <3>1. UNCHANGED panel
      BY <2>2 DEF TimerFires, TimerDropped
    <3>2. LitIfAccepted' <=> LitIfAccepted
      BY <1>0, <3>1 DEF LitIfAccepted, LightRefused
    <3>3. lightToken # "none" /\ NoneFired(lightToken)' => NoneFired(lightToken)
      <4> SUFFICES ASSUME lightToken # "none", NoneFired(lightToken)', NEW j \in TimerKinds
                   PROVE  timers[lightToken][j] \in {"none", "armed"}
        BY DEF NoneFired
      <4>1. lightToken \in Wakes /\ timers'[lightToken][j] \in {"none", "armed"}
        BY <1>0 DEF NoneFired, LightTypes, BacklightTypeOK
      <4> QED BY <1>3, <4>1
    <3> QED BY <1>0, <1>7, <2>0, <3>2, <3>3 DEF OneAtWork
  <2> QED BY <2>1, <2>2
<1>9. OneAtWork'
  BY <1>0, <1>7, <1>8 DEF OneAtWork
<1> QED BY <1>5, <1>6, <1>9 DEF LightIInv

\* A change of the settings: the maximum, then the panel.
LEMMA SettingStep ==
  ASSUME LightIInv, NEW s \in LightSettings,
         WriteSettings(s) \/ \E b \in Brightnesses, dim, off \in BOOLEAN : StoreSettings(s, b, dim, off)
  PROVE  LightIInv'
<1>0. /\ LightTypes /\ TimersAreNewest /\ OneAtWork
      /\ UNCHANGED <<lightToken, stale, timers, dimTo, wake, seenMax>>
  BY DEF LightIInv, WriteSettings, StoreSettings
<1>1. TimersAreNewest'
  BY <1>0 DEF TimersAreNewest
<1>2. WakeBusy' = WakeBusy /\ (NoneFired(lightToken)' <=> NoneFired(lightToken))
  BY <1>0 DEF WakeBusy, NoneFired
<1>3. setting \in [LightSettings -> {"new", "write", "done"}] /\ setMax \in [LightSettings -> 0..255]
  BY <1>0 DEF LightTypes
<1>4. ASSUME NEW b \in Brightnesses, NEW dim \in BOOLEAN, NEW off \in BOOLEAN, StoreSettings(s, b, dim, off)
      PROVE  LightIInv'
  <2>1. /\ setting[s] = "new" /\ setting' = [setting EXCEPT ![s] = "write"]
        /\ setMax' = [setMax EXCEPT ![s] = b] /\ maxBright' = b /\ dimOn' = dim /\ offOn' = off /\ UNCHANGED panel
        /\ (lightUpsets' = {} => lightUpsets = {} /\ WakeBusy = {} /\ SettingBusy = {})
    BY <1>4 DEF StoreSettings
  <2>2. b \in 0..255
    BY BacklightAssumption
  <2>3. setting' \in [LightSettings -> {"new", "write", "done"}] /\ setMax' \in [LightSettings -> 0..255]
        /\ setMax'[s] = b
    BY <1>3, <2>1, <2>2
  <2>4. dimOn' \in BOOLEAN /\ offOn' \in BOOLEAN
    BY <2>1, Zenon
  <2>5. LightTypes'
    BY <1>0, <2>1, <2>3, <2>4 DEF LightTypes, BacklightTypeOK
  <2>6. SettingBusy' = SettingBusy \cup {s}
    BY <1>3, <2>1 DEF SettingBusy
  <2>7. OneAtWork'
    <3> SUFFICES ASSUME lightUpsets' = {} PROVE OneAtWork'
      BY DEF OneAtWork
    <3>1. WakeBusy' = {} /\ SettingBusy' = {s}
      BY <1>2, <2>1, <2>6
    <3>2. \A w \in Wakes : wake'[w] # "tickers"
      BY <3>1 DEF WakeBusy
    <3> QED BY <2>1, <2>3, <3>1, <3>2 DEF OneAtWork
  <2> QED BY <1>1, <2>5, <2>7 DEF LightIInv
<1>5. CASE WriteSettings(s)
  <2>1. /\ setting[s] = "write" /\ setting' = [setting EXCEPT ![s] = "done"] /\ panel' = setMax[s]
        /\ UNCHANGED <<maxBright, dimOn, offOn, setMax, lightUpsets>>
    BY <1>5 DEF WriteSettings
  <2>2. setting' \in [LightSettings -> {"new", "write", "done"}] /\ panel' \in 0..255
    BY <1>3, <2>1
  <2>3. LightTypes'
    BY <1>0, <2>1, <2>2 DEF LightTypes, BacklightTypeOK
  <2>4. SettingBusy' = SettingBusy \ {s} /\ s \in SettingBusy
    BY <1>3, <2>1 DEF SettingBusy
  <2>5. OneAtWork'
    <3> SUFFICES ASSUME lightUpsets' = {} PROVE OneAtWork'
      BY DEF OneAtWork
    <3>1. setMax[s] = maxBright /\ WakeBusy' = {} /\ SettingBusy' = {}
      BY <1>0, <1>2, <2>1, <2>4 DEF OneAtWork
    <3>2. LitIfAccepted'
      BY <2>1, <3>1 DEF LitIfAccepted
    <3> QED BY <3>1, <3>2 DEF OneAtWork
  <2> QED BY <1>1, <2>3, <2>5 DEF LightIInv
<1> QED BY <1>4, <1>5

\* Only the newest wake's timers can fire, and a woken panel is lit until one of them does, for any
\* number of wakes and changes of the settings.
THEOREM LightInvHolds == BacklightSpec => []LightInv
<1>1. LightIInv => LightInv
  <2> SUFFICES ASSUME LightIInv PROVE LightInv
    OBVIOUS
  <2>1. OnlyNewestTimers
    BY DEF LightIInv, TimersAreNewest, OnlyNewestTimers
  <2>2. WokenIsLit
    BY DEF LightIInv, OneAtWork, WokenIsLit, LightSettled, LitIfAccepted
  <2> QED BY <2>1, <2>2 DEF LightIInv, LightTypes, LightInv
<1>2. LightIInv /\ [BacklightNext]_lightVars => LightIInv'
  <2> SUFFICES ASSUME LightIInv, [BacklightNext]_lightVars PROVE LightIInv'
    OBVIOUS
  <2>1. CASE UNCHANGED lightVars
    BY <2>1 DEF lightVars, LightIInv, LightTypes, BacklightTypeOK, TimersAreNewest, OneAtWork, WakeBusy, SettingBusy,
       LitIfAccepted, LightRefused, NoneFired
  <2> QED BY <2>1, WakeStep, TimerStep, SettingStep DEF BacklightNext
<1> QED BY <1>1, <1>2, BacklightInitially, PTL DEF BacklightSpec

-----------------------------------------------------------------------------
(* The hardware side by side *)

\* Whole gadget or none, buttons let go, the mounted extension the active one, the gauge on the
\* pin, a woken panel lit: for any number of requests, presses, wakes, settings and faults, in the
\* composition that the runs check (src/app/src/hardware).
THEOREM HardwareInvHolds == MCSpec => []HardwareInv
<1> DEFINE hwVars == <<focus, mediaVars, upVars, gadgetVars, powerVars, lightVars>>
<1>1. MCInit => GadgetInit /\ PowerInit /\ BacklightInit
  BY DEF MCInit
<1>2. [MCNext]_hwVars => [GadgetNext]_gadgetVars
  BY DEF MCNext
<1>3. [MCNext]_hwVars => [PowerNext]_powerVars
  BY DEF MCNext, PowerNext
<1>4. [MCNext]_hwVars => [BacklightNext]_lightVars
  BY DEF MCNext
<1>5. GadgetInv /\ PowerInv /\ LightInv => HardwareInv
  BY DEF HardwareInv
<1>q. QED
  BY <1>1, <1>2, <1>3, <1>4, <1>5, GadgetInvHolds, PowerInvHolds, LightInvHolds, PTL
     DEF MCSpec, GadgetSpec, PowerSpec, BacklightSpec

-----------------------------------------------------------------------------
(* HID I/O, for any devices, senders, queue depth and number of toggles, and *)
(* with device nodes that may be late.  What suspend_io and resume_io have   *)
(* achieved stands because who is inside one of them holds io_transition:    *)
(* nobody else has touched io_suspended or the reader since.                 *)

\* Between taking and dropping io_transition, its holder is the caller that took it.
InsideHolds ==
    \A p \in Callers : opPc[p] \in {"sReader", "sSend", "sAck", "rWait"} => transition = p

\* What suspend_io and resume_io have achieved so far still stands.
Achieved ==
    \A p \in Callers :
        /\ opPc[p] \in {"sSend", "sAck"} => ~readerOpen
        /\ opPc[p] = "rWait" => ~suspended

IInv == TypeOK /\ InsideHolds /\ Achieved /\ SuspendedReaderClosed

-----------------------------------------------------------------------------
\* A queue with room takes one more command and stays within its depth.
LEMMA AppendBounded ==
    ASSUME NEW S, NEW s \in Seq(S), NEW x \in S, Len(s) < QueueDepth
    PROVE  Append(s, x) \in Seq(S) /\ Len(Append(s, x)) <= QueueDepth
  BY DepthAssumption

\* Taking the first command leaves a queue within its depth.
LEMMA TailBounded ==
    ASSUME NEW S, NEW s \in Seq(S), s # <<>>, Len(s) <= QueueDepth
    PROVE  Tail(s) \in Seq(S) /\ Len(Tail(s)) <= QueueDepth /\ Head(s) \in S
  BY DepthAssumption

\* The writer is busy with at most one report.
LEMMA AtMostOne ==
    ASSUME NEW d
    PROVE  Cardinality({d}) <= 1 /\ Cardinality({}) <= 1
<1>1. Cardinality({d}) = 1
  BY FS_Singleton, Zenon
<1>2. Cardinality({}) = 0
  BY FS_EmptySet, Zenon
<1> QED BY <1>1, <1>2

\* The steps of suspend_io and resume_io keep the type.
LEMMA OperationType ==
    ASSUME TypeOK, NEW p \in Callers, Operation(p)
    PROVE  TypeOK'
<1> USE DEF TypeOK, wrVars, usbVars, pollVars, togVars, Callers, Poller, Toggler, Free
<1>1. CASE SuspendLock(p)
  BY <1>1 DEF SuspendLock
<1>2. CASE SuspendReader(p)
  <2>1. readerOpen' \in BOOLEAN
    BY <1>2, Zenon DEF SuspendReader
  <2> QED BY <1>2, <2>1 DEF SuspendReader
<1>3. CASE SuspendSend(p)
  <2>1. CloseFiles(p) \in Commands
    BY DEF Commands
  <2>2. queue' \in Seq(Commands) /\ Len(queue') <= QueueDepth
    BY <1>3, <2>1, AppendBounded DEF SuspendSend
  <2> QED BY <1>3, <2>2 DEF SuspendSend
<1>4. CASE SuspendAck(p)
  BY <1>4 DEF SuspendAck
<1>5. CASE ResumeLock(p)
  <2>1. suspended' \in BOOLEAN
    BY <1>5, Zenon DEF ResumeLock
  <2> QED BY <1>5, <2>1 DEF ResumeLock
<1>6. CASE ResumeOpen(p)
  BY <1>6 DEF ResumeOpen
<1> QED BY <1>1, <1>2, <1>3, <1>4, <1>5, <1>6 DEF Operation

\* The writer's steps keep the type: what it takes from the queue is a report of a device.
LEMMA WriterType == ASSUME TypeOK, Writer PROVE TypeOK'
<1> USE DEF TypeOK, opVars, usbVars, pollVars, togVars, Callers, Poller, Toggler, Free
<1>1. CASE WriterClose
  <2>1. queue' \in Seq(Commands) /\ Len(queue') <= QueueDepth
    BY <1>1, TailBounded DEF WriterClose
  <2>2. ack' \in [Callers -> {"none", "ok", "lost"}]
    BY <1>1 DEF WriterClose
  <2> QED BY <1>1, <2>1, <2>2 DEF WriterClose
<1>2. CASE WriterTake
  <2>1. queue' \in Seq(Commands) /\ Len(queue') <= QueueDepth /\ Head(queue) \in Commands
    BY <1>2, TailBounded DEF WriterTake
  <2>2. Head(queue).who \in Devices
    BY <1>2, <2>1 DEF WriterTake, Commands, Report, CloseFiles
  <2>3. writing' \subseteq Devices /\ Cardinality(writing') <= 1
    BY <1>2, <2>2, AtMostOne DEF WriterTake
  <2> QED BY <1>2, <2>1, <2>3 DEF WriterTake
<1>3. CASE WriterWrite
  <2>1. writing' \subseteq Devices /\ Cardinality(writing') <= 1
    BY <1>3, AtMostOne DEF WriterWrite
  <2> QED BY <1>3, <2>1 DEF WriterWrite
<1>4. CASE WriterFail
  <2>1. writing' \subseteq Devices /\ Cardinality(writing') <= 1
    BY <1>4, AtMostOne DEF WriterFail
  <2>2. queue' \in Seq(Commands) /\ Len(queue') <= QueueDepth
    BY <1>4, DepthAssumption DEF WriterFail
  <2>3. ack' \in [Callers -> {"none", "ok", "lost"}]
    BY <1>4 DEF WriterFail
  <2> QED BY <1>4, <2>1, <2>2, <2>3 DEF WriterFail
<1> QED BY <1>1, <1>2, <1>3, <1>4 DEF Writer

\* Every step keeps every variable in its type.
LEMMA TypeStep == TypeOK /\ [Next]_vars => TypeOK'
<1> SUFFICES ASSUME TypeOK, [Next]_vars PROVE TypeOK'
  OBVIOUS
<1> USE DEF TypeOK, Callers, Poller, Toggler, Free
<1>1. ASSUME NEW p \in Callers, Operation(p) PROVE TypeOK'
  BY <1>1, OperationType
<1>2. CASE Writer
  BY <1>2, WriterType
<1>3. ASSUME NEW t \in Senders, NEW d \in Devices, EnqueueCheck(t, d) PROVE TypeOK'
  BY <1>3 DEF EnqueueCheck, usbVars, pollVars, togVars, opVars, wrVars
<1>4. ASSUME NEW r \in sender, EnqueueSend(r) PROVE TypeOK'
  <2>1. Report(r.dev) \in Commands
    BY DEF Commands
  <2>2. queue' \in Seq(Commands) /\ Len(queue') <= QueueDepth
    BY <1>4, <2>1, AppendBounded DEF EnqueueSend
  <2> QED BY <1>4, <2>2 DEF EnqueueSend, usbVars, pollVars, togVars, opVars
<1>5. CASE PollSample
  BY <1>5 DEF PollSample, usbVars, togVars, opVars, wrVars
<1>6. CASE PollSync
  BY <1>6 DEF PollSync, usbVars, togVars, wrVars
<1>7. CASE PollDone
  BY <1>7 DEF PollDone, Belief, usbVars, togVars, wrVars
<1>8. ASSUME NEW e \in BOOLEAN, ToggleStart(e) PROVE TypeOK'
  BY <1>8, TogglesAssumption DEF ToggleStart, usbVars, pollVars, wrVars
<1>9. CASE ToggleWrite
  BY <1>9 DEF ToggleWrite, pollVars, wrVars
<1>10. CASE ToggleDone
  BY <1>10 DEF ToggleDone, usbVars, pollVars, wrVars
<1>11. CASE HostAttach \/ HostDetach \/ MdevCreatesNodes
  <2>1. bound' \in BOOLEAN /\ nodes' \in BOOLEAN /\ link' \in BOOLEAN
    BY <1>11, Zenon DEF HostAttach, HostDetach, MdevCreatesNodes
  <2>2. UNCHANGED <<pollVars, togVars, opVars, wrVars, sender>>
    BY <1>11 DEF HostAttach, HostDetach, MdevCreatesNodes
  <2> QED BY <2>1, <2>2 DEF pollVars, togVars, opVars, wrVars
<1>12. CASE UNCHANGED vars
  BY <1>12 DEF vars, usbVars, pollVars, togVars, opVars, wrVars
<1> QED BY <1>1, <1>2, <1>3, <1>4, <1>5, <1>6, <1>7, <1>8, <1>9, <1>10, <1>11, <1>12 DEF Next, Poll

-----------------------------------------------------------------------------
\* suspend_io and resume_io keep the invariant: what the one has achieved is not undone by
\* the other, because both hold io_transition meanwhile.
LEMMA OperationStep ==
    ASSUME IInv, NEW p \in Callers, Operation(p)
    PROVE  InsideHolds' /\ Achieved' /\ SuspendedReaderClosed'
<1> USE DEF IInv, TypeOK, InsideHolds, Achieved, SuspendedReaderClosed, Callers, Poller, Toggler, Free
<1>1. CASE SuspendLock(p)
  BY <1>1 DEF SuspendLock
<1>2. CASE SuspendReader(p)
  BY <1>2 DEF SuspendReader
<1>3. CASE SuspendSend(p)
  BY <1>3 DEF SuspendSend
<1>4. CASE SuspendAck(p)
  BY <1>4 DEF SuspendAck
<1>5. CASE ResumeLock(p)
  BY <1>5 DEF ResumeLock
<1>6. CASE ResumeOpen(p)
  BY <1>6 DEF ResumeOpen
<1> QED BY <1>1, <1>2, <1>3, <1>4, <1>5, <1>6 DEF Operation

\* Nobody else touches io_suspended, io_transition or the reader; poller and toggle only move
\* to the start of an operation, or away from its end.
LEMMA OtherStep ==
    ASSUME IInv, [Next]_vars, \A p \in Callers : ~Operation(p)
    PROVE  InsideHolds' /\ Achieved' /\ SuspendedReaderClosed'
<1> USE DEF IInv, TypeOK, InsideHolds, Achieved, SuspendedReaderClosed, Callers, Poller, Toggler, Free
<1>1. CASE Writer
  <2>1. UNCHANGED opVars
    BY <1>1 DEF Writer, WriterClose, WriterTake, WriterWrite, WriterFail
  <2> QED BY <2>1 DEF opVars
<1>2. CASE (\E t \in Senders, d \in Devices : EnqueueCheck(t, d)) \/ \E r \in sender : EnqueueSend(r)
  <2>1. UNCHANGED opVars
    BY <1>2 DEF EnqueueCheck, EnqueueSend
  <2> QED BY <2>1 DEF opVars
<1>3. CASE PollSample
  BY <1>3 DEF PollSample, opVars
<1>4. CASE PollSync
  BY <1>4 DEF PollSync
<1>5. CASE PollDone
  BY <1>5 DEF PollDone
<1>6. ASSUME NEW e \in BOOLEAN, ToggleStart(e)
      PROVE  InsideHolds' /\ Achieved' /\ SuspendedReaderClosed'
  BY <1>6 DEF ToggleStart
<1>7. CASE ToggleWrite
  BY <1>7 DEF ToggleWrite
<1>8. CASE ToggleDone
  BY <1>8 DEF ToggleDone
<1>9. CASE HostAttach \/ HostDetach \/ MdevCreatesNodes
  BY <1>9 DEF HostAttach, HostDetach, MdevCreatesNodes, opVars
<1>10. CASE UNCHANGED vars
  BY <1>10 DEF vars, opVars
<1> QED BY <1>1, <1>2, <1>3, <1>4, <1>5, <1>6, <1>7, <1>8, <1>9, <1>10 DEF Next, Poll

\* The inductive invariant holds throughout.
LEMMA Invariance == Spec => []IInv
<1>1. Init => IInv
  <2> SUFFICES ASSUME Init PROVE IInv
    OBVIOUS
  <2> USE DEF Init
  <2>1. queue \in Seq(Commands) /\ Len(queue) <= QueueDepth
    BY DepthAssumption
  <2>2. writing \subseteq Devices /\ Cardinality(writing) <= 1 /\ files \subseteq Devices
    BY AtMostOne
  <2>3. toggles \in 0..MaxToggles
    BY TogglesAssumption
  <2>4. /\ suspended \in BOOLEAN /\ readerOpen \in BOOLEAN /\ sample \in BOOLEAN /\ wanted \in BOOLEAN
        /\ bound \in BOOLEAN /\ nodes \in BOOLEAN /\ link \in BOOLEAN
    BY Zenon
  <2>5. opOk \in [Callers -> BOOLEAN]
    BY Zenon
  <2>6. TypeOK
    BY <2>1, <2>2, <2>3, <2>4, <2>5 DEF TypeOK
  <2> QED BY <2>6 DEF IInv, InsideHolds, Achieved, SuspendedReaderClosed
<1>2. IInv /\ [Next]_vars => IInv'
  <2> SUFFICES ASSUME IInv, [Next]_vars PROVE IInv'
    OBVIOUS
  <2>1. TypeOK'
    BY TypeStep DEF IInv
  <2>2. CASE \E p \in Callers : Operation(p)
    BY <2>1, <2>2, OperationStep DEF IInv
  <2>3. CASE \A p \in Callers : ~Operation(p)
    BY <2>1, <2>3, OtherStep DEF IInv
  <2> QED BY <2>2, <2>3
<1> QED BY <1>1, <1>2, PTL DEF Spec

-----------------------------------------------------------------------------
\* The type invariant holds for any number of devices and senders; in it, the write queue of
\* hid.rs never holds more than HID_WRITE_QUEUE_DEPTH commands.
THEOREM TypeCorrect == Spec => []TypeOK
  BY Invariance, PTL DEF IInv

\* Suspended I/O leaves no LED reader in its gadget fd, however poller and toggle interleave
\* suspend_io and resume_io and however late the device nodes are.
THEOREM ReaderClosed == Spec => []SuspendedReaderClosed
  BY Invariance, PTL DEF IInv

=============================================================================
