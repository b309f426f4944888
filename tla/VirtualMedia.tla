---------------------------- MODULE VirtualMedia ----------------------------
(***************************************************************************)
(* Mounting and unmounting virtual media (hardware/usb/storage.rs): the    *)
(* LUN of the USB gadget, the remote image reader, the NBD server that     *)
(* exports it (hardware/block_device.rs) and the remembered media state,   *)
(* which no common lock ties together.  A mount or an unmount is a request *)
(* that changes them one after the other and may fail in between.          *)
(***************************************************************************)
EXTENDS Naturals, FiniteSets

CONSTANTS
  MediaRequests,     \* mount and unmount requests
  MaxMediaActive,    \* requests that may run at once (1: one RPC channel)
  Images,            \* files of IMAGES_FOLDER
  MaxMediaFaults,    \* bound on failing steps
  MaxMediaRestarts   \* bound on restarts of the process

ASSUME MediaAssumption ==
  /\ MaxMediaActive \in Nat /\ MaxMediaFaults \in Nat /\ MaxMediaRestarts \in Nat
  /\ MediaRequests \cap Images = {} /\ IsFiniteSet(MediaRequests) /\ "none" \notin MediaRequests

VARIABLES
  mediaState,     \* CURRENT_VIRTUAL_MEDIA_STATE
  lun,            \* lun.0/file: nothing, the NBD device or an image
  cdrom,          \* lun.0/cdrom
  reader,         \* CURRENT_READER, named by the mount that installed it
  nbd,            \* the NBD server: off, starting, dead, or the reader it exports
  mediaPc,        \* where each request is
  mediaArgs,      \* what each request asks for
  mediaFaults, mediaRestarts

mediaVars == <<mediaState, lun, cdrom, reader, nbd, mediaPc, mediaArgs, mediaFaults, mediaRestarts>>

NoMedia == [source |-> "none", cdrom |-> FALSE, of |-> "none"]
Remote == {"http", "webrtc"}
NbdDevice == "nbd"

\* The image a mount hands to the LUN.
Target(r) == IF mediaArgs[r].kind \in Remote THEN NbdDevice ELSE mediaArgs[r].image

MediaTypeOK ==
  /\ mediaState.source \in {"none", "http", "webrtc", "storage"}
  /\ lun \in {"empty", NbdDevice} \cup Images
  /\ cdrom \in BOOLEAN
  /\ reader \in {"none"} \cup MediaRequests
  /\ nbd \in {"off", "starting", "dead"} \cup MediaRequests
  /\ mediaFaults \in 0..MaxMediaFaults
  /\ mediaRestarts \in 0..MaxMediaRestarts

MediaInit ==
  /\ mediaState = NoMedia
  /\ lun = "empty" /\ cdrom = FALSE
  /\ reader = "none" /\ nbd = "off"
  /\ mediaPc = [r \in MediaRequests |-> "new"]
  /\ mediaArgs = [r \in MediaRequests |-> [kind |-> "unmount", cdrom |-> FALSE, image |-> "none"]]
  /\ mediaFaults = 0 /\ mediaRestarts = 0

MediaActive == {r \in MediaRequests : mediaPc[r] \notin {"new", "ok", "failed", "lost"}}
MediaGoto(r, pc) == mediaPc' = [mediaPc EXCEPT ![r] = pc]

\* One of the fallible steps of r fails: the request returns its error.
MediaFail(r) ==
  /\ mediaFaults < MaxMediaFaults
  /\ mediaFaults' = mediaFaults + 1
  /\ MediaGoto(r, "failed")

StartMedia(r, kind, cd, image) ==
  /\ mediaPc[r] = "new"
  /\ Cardinality(MediaActive) < MaxMediaActive
  /\ mediaArgs' = [mediaArgs EXCEPT ![r] = [kind |-> kind, cdrom |-> cd, image |-> image]]
  /\ MediaGoto(r, IF kind = "unmount" THEN "clear" ELSE "mode")
  /\ UNCHANGED <<mediaState, lun, cdrom, reader, nbd, mediaFaults, mediaRestarts>>

\* set_mass_storage_mode of a mount: before anything says that it may mount.
SetMode(r) ==
  /\ mediaPc[r] = "mode"
  /\ \/ /\ cdrom' = mediaArgs[r].cdrom
        /\ MediaGoto(r, CASE mediaArgs[r].kind = "http" -> "probe"
                          [] mediaArgs[r].kind = "webrtc" -> "claim"
                          [] OTHER -> "image")
        /\ UNCHANGED mediaFaults
     \/ MediaFail(r) /\ UNCHANGED cdrom
  /\ UNCHANGED <<mediaState, lun, reader, nbd, mediaArgs, mediaRestarts>>

\* HttpRangeReader::new asks the server for the size.
ProbeUrl(r) ==
  /\ mediaPc[r] = "probe"
  /\ \/ MediaGoto(r, "claim") /\ UNCHANGED mediaFaults
     \/ MediaFail(r)
  /\ UNCHANGED <<mediaState, lun, cdrom, reader, nbd, mediaArgs, mediaRestarts>>

\* Mutant: a remote mount takes over whatever is mounted.
ClaimAnyway(r) ==
  /\ mediaPc[r] = "claim" /\ MediaGoto(r, "reader")
  /\ mediaState' = [source |-> mediaArgs[r].kind, cdrom |-> mediaArgs[r].cdrom, of |-> r]
  /\ UNCHANGED <<lun, cdrom, reader, nbd, mediaArgs, mediaFaults, mediaRestarts>>

\* A remote mount is refused while anything is mounted, and claims the state otherwise.
ClaimMedia(r) ==
  /\ mediaPc[r] = "claim"
  /\ IF mediaState # NoMedia
     THEN MediaGoto(r, "failed") /\ UNCHANGED mediaState
     ELSE /\ mediaState' = [source |-> mediaArgs[r].kind, cdrom |-> mediaArgs[r].cdrom, of |-> r]
          /\ MediaGoto(r, "reader")
  /\ UNCHANGED <<lun, cdrom, reader, nbd, mediaArgs, mediaFaults, mediaRestarts>>

InstallReader(r) ==
  /\ mediaPc[r] = "reader"
  /\ reader' = r
  /\ MediaGoto(r, "nbd")
  /\ UNCHANGED <<mediaState, lun, cdrom, nbd, mediaArgs, mediaFaults, mediaRestarts>>

\* start_nbd: a device that is already started is left as it is.
StartNbd(r) ==
  /\ mediaPc[r] = "nbd"
  /\ \/ /\ nbd' = IF nbd = "off" THEN "starting" ELSE nbd
        /\ MediaGoto(r, "image")
        /\ UNCHANGED mediaFaults
     \/ nbd = "off" /\ MediaFail(r) /\ UNCHANGED nbd
  /\ UNCHANGED <<mediaState, lun, cdrom, reader, mediaArgs, mediaRestarts>>

\* run_server: the export keeps the reader that is current at the handshake.
NbdHandshake ==
  /\ nbd = "starting"
  /\ nbd' = IF reader = "none" THEN "dead" ELSE reader
  /\ UNCHANGED <<mediaState, lun, cdrom, reader, mediaPc, mediaArgs, mediaFaults, mediaRestarts>>

\* set_mass_storage_image: "\n" (its error ignored), then the path twice.
SetImage(r) ==
  /\ mediaPc[r] = "image"
  /\ \/ /\ lun' = Target(r)
        /\ MediaGoto(r, IF mediaArgs[r].kind \in Remote THEN "ok" ELSE "record")
        /\ UNCHANGED mediaFaults
     \/ MediaFail(r) /\ lun' \in {lun, "empty", Target(r)}
  /\ UNCHANGED <<mediaState, cdrom, reader, nbd, mediaArgs, mediaRestarts>>

\* mount_with_storage overwrites whatever was mounted.
RecordStorage(r) ==
  /\ mediaPc[r] = "record"
  /\ mediaState' = [source |-> "storage", cdrom |-> mediaArgs[r].cdrom, of |-> mediaArgs[r].image]
  /\ MediaGoto(r, "ok")
  /\ UNCHANGED <<lun, cdrom, reader, nbd, mediaArgs, mediaFaults, mediaRestarts>>

\* A step of unmount_image whose error is only logged: x is v afterwards, or as before.
Lenient(x, v) ==
  \/ x' = v /\ UNCHANGED mediaFaults
  \/ mediaFaults < MaxMediaFaults /\ mediaFaults' = mediaFaults + 1 /\ UNCHANGED x

ClearImage(r) ==
  /\ mediaPc[r] = "clear"
  /\ Lenient(lun, "empty")
  /\ MediaGoto(r, "stop")
  /\ UNCHANGED <<mediaState, cdrom, reader, nbd, mediaArgs, mediaRestarts>>

\* Mutant: the server of a finished handshake is left running.
StopNbdStartingOnly(r) ==
  /\ mediaPc[r] = "stop" /\ MediaGoto(r, "idle_mode")
  /\ nbd' = IF nbd = "starting" THEN "off" ELSE nbd
  /\ UNCHANGED <<mediaState, lun, cdrom, reader, mediaArgs, mediaFaults, mediaRestarts>>

\* stop_nbd closes the device and joins its threads.
StopNbd(r) ==
  /\ mediaPc[r] = "stop"
  /\ nbd' = "off"
  /\ MediaGoto(r, "idle_mode")
  /\ UNCHANGED <<mediaState, lun, cdrom, reader, mediaArgs, mediaFaults, mediaRestarts>>

ResetMode(r) ==
  /\ mediaPc[r] = "idle_mode"
  /\ Lenient(cdrom, FALSE)
  /\ MediaGoto(r, "forget")
  /\ UNCHANGED <<mediaState, lun, reader, nbd, mediaArgs, mediaRestarts>>

ForgetState(r) ==
  /\ mediaPc[r] = "forget"
  /\ mediaState' = NoMedia
  /\ MediaGoto(r, "unread")
  /\ UNCHANGED <<lun, cdrom, reader, nbd, mediaArgs, mediaFaults, mediaRestarts>>

DropReader(r) ==
  /\ mediaPc[r] = "unread"
  /\ reader' = "none"
  /\ MediaGoto(r, "ok")
  /\ UNCHANGED <<mediaState, lun, cdrom, nbd, mediaArgs, mediaFaults, mediaRestarts>>

\* set_initial_virtual_media_state: the LUN outlives the process.
RestoredState(file, cd) ==
  CASE file = "empty" -> NoMedia
    [] file = NbdDevice -> [source |-> "http", cdrom |-> cd, of |-> "restored"]
    [] OTHER -> [source |-> "storage", cdrom |-> cd, of |-> file]

\* The process dies and starts again.  The gadget's set-up puts the LUN back to
\* its idle attributes unless it fails on the way.
RestartMedia ==
  /\ mediaRestarts < MaxMediaRestarts
  /\ mediaRestarts' = mediaRestarts + 1
  /\ \/ lun' = "empty" /\ cdrom' = FALSE
     \/ UNCHANGED <<lun, cdrom>>
  /\ mediaState' = RestoredState(lun', cdrom')
  /\ reader' = "none" /\ nbd' = "off"
  /\ mediaPc' = [r \in MediaRequests |-> IF mediaPc[r] = "new" THEN "new" ELSE "lost"]
  /\ UNCHANGED <<mediaArgs, mediaFaults>>

MediaStep(r) ==
  \/ StartMedia(r, "unmount", FALSE, "none")
  \/ \E kind \in Remote, cd \in BOOLEAN : StartMedia(r, kind, cd, "none")
  \/ \E cd \in BOOLEAN, image \in Images : StartMedia(r, "storage", cd, image)
  \/ SetMode(r) \/ ProbeUrl(r) \/ ClaimMedia(r) \/ InstallReader(r) \/ StartNbd(r) \/ SetImage(r)
  \/ RecordStorage(r) \/ ClearImage(r) \/ StopNbd(r) \/ ResetMode(r) \/ ForgetState(r) \/ DropReader(r)

MediaNext == (\E r \in MediaRequests : MediaStep(r)) \/ NbdHandshake \/ RestartMedia

MediaIdle == MediaActive = {}

\* A medium is presented as described by mediaState: the LUN has its file, and a remote
\* one is exported by an NBD server that has, or will get, the reader of that very mount.
Presented ==
  IF mediaState.source \in Remote
  THEN /\ lun = NbdDevice
       /\ nbd \in {"starting", mediaState.of}
       /\ reader = mediaState.of
  ELSE lun = mediaState.of

\* A mount that answers success presents its own medium in its own mode, whatever mounts and
\* unmounts failed before it: the LUN has its file, and no NBD server with the reader of an
\* earlier mount answers the host (requests one at a time).
MountReturnsPresented ==
  [][\A r \in MediaRequests :
       (mediaPc[r] # "ok" /\ mediaPc'[r] = "ok" /\ mediaArgs[r].kind # "unmount")
         => Presented' /\ cdrom' = mediaState'.cdrom /\ mediaState'.of \in {r, mediaArgs[r].image}]_mediaVars

\* No NBD server runs and no reader is kept for a medium that the state does not mention,
\* however mounts and unmounts fail (requests one at a time).
NothingServedUnreported ==
  (MediaIdle /\ mediaState = NoMedia) => (nbd = "off" /\ reader = "none")

\* As long as no write to the LUN failed, a medium the host can see is in the state, also
\* after a restart that found the LUN as the last process left it.
VisibleIsReported == (MediaIdle /\ mediaFaults = 0 /\ lun # "empty") => mediaState # NoMedia

\* What holds of virtual media between requests, however they fail: nothing is served or shown
\* to the host that the reported state does not mention.
MediaInv == MediaTypeOK /\ NothingServedUnreported /\ VisibleIsReported

=============================================================================
