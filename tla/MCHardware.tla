----------------------------- MODULE MCHardware -----------------------------
(***************************************************************************)
(* The hardware the device drives: virtual media and its uploads, the        *)
(* gadget's set-up, the power extensions and the backlight.  They share no   *)
(* variable, so one instance checks them side by side: a behaviour chooses   *)
(* the component it is about in its first state (focus), and the others rest *)
(* in an initial state.                                                      *)
(***************************************************************************)
EXTENDS VirtualMedia, Uploads, GadgetSetup, Power, Backlight, TLC

VARIABLE focus

\* The devices of the full build, of one without storage and of one without a keyboard.
BuiltDevices ==
  {{"keyboard", "absolute_mouse", "relative_mouse", "mass_storage_base"},
   {"keyboard", "relative_mouse"}, {"absolute_mouse", "mass_storage_base"}}

MCInit ==
  /\ focus \in {"media", "uploads", "gadget", "atx", "dc", "light"}
  /\ MediaInit /\ UploadInit /\ GadgetInit /\ PowerInit /\ BacklightInit
  /\ focus # "uploads" => via = [u \in Uploads |-> "http"]
  /\ focus # "gadget" => udcOwner = "none"
  /\ focus # "light" => maxBright = 0 /\ ~dimOn /\ ~offOn

MCNext ==
  \/ focus = "media" /\ MediaNext /\ UNCHANGED <<focus, upVars, gadgetVars, powerVars, lightVars>>
  \/ focus = "uploads" /\ UploadNext /\ UNCHANGED <<focus, mediaVars, gadgetVars, powerVars, lightVars>>
  \/ focus = "gadget" /\ GadgetNext /\ UNCHANGED <<focus, mediaVars, upVars, powerVars, lightVars>>
  \/ focus = "atx" /\ AtxNext /\ UNCHANGED <<focus, mediaVars, upVars, gadgetVars, lightVars>>
  \/ focus = "dc" /\ DcNext /\ UNCHANGED <<focus, mediaVars, upVars, gadgetVars, lightVars>>
  \/ focus = "light" /\ BacklightNext /\ UNCHANGED <<focus, mediaVars, upVars, gadgetVars, powerVars>>

MCSpec == MCInit /\ [][MCNext]_<<focus, mediaVars, upVars, gadgetVars, powerVars, lightVars>>

MCSymmetry == Permutations(MediaRequests) \cup Permutations(Uploads)

\* The host sees a whole gadget or none, no button of it is left pressed, the extension that is
\* active is the one mounted, and the panel shows what its newest timers and settings say.
HardwareInv == GadgetInv /\ PowerInv /\ LightInv

=============================================================================
