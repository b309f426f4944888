----------------------------- MODULE MCHidMacro -----------------------------
(* Small instances of HidMacro. *)
EXTENDS HidMacro

\* Press then release, as execute_keyboard_macro builds each of its steps.
PressRelease == [m \in Macros |-> <<TRUE, FALSE>>]

\* dispatcher.rs:224-225: cancel_macro "Returns once the running macro has released its
\* keys".  No key pressed by a macro is down when the request returns.
CancelReleasesKeys ==
    [][\A c \in Cancellers : cancelPc[c] = "waiting" /\ cancelPc'[c] = "returned"
                            => keysDown \notin Macros]_vars
=============================================================================
