---------------------------- MODULE BrowserInput ----------------------------
(***************************************************************************)
(* Keyboard and mouse input from the page to the host (rkvm-web            *)
(* hid/mod.rs).  The listeners are attached once per page; they keep the    *)
(* keys they believe to be down (KbState) and send the whole state after    *)
(* every key event over the ordered "hidrpc" channel.  Every mouse event,   *)
(* a button press or release included, goes over the channel that neither   *)
(* keeps order nor sends again what is lost.  The connection the listeners  *)
(* send to is a slot that is empty while the page is not connected.         *)
(* The device applies a report as it arrives and leaves the keys of a       *)
(* session that ends as they are.                                           *)
(***************************************************************************)
EXTENDS Naturals, Sequences, FiniteSets

CONSTANTS
  Keys,           \* the keys of the keyboard
  ModifierKeys,   \* those that are modifiers: they take no slot of the report
  MaxKeyEvents,   \* bound on key events and combinations
  MaxMouseEvents, \* bound on mouse events
  KeySlots        \* HID_KEY_BUFFER_SIZE: non-modifier keys in a report

ASSUME InputAssumption ==
  ModifierKeys \subseteq Keys /\ KeySlots \in Nat \ {0} /\ MaxKeyEvents \in Nat /\ MaxMouseEvents \in Nat

VARIABLES
  pressed,        \* the keys the user holds down
  kb,             \* KbState: modifiers and keys
  uiOwns,         \* ui_owns_keyboard()
  slot,           \* the session slot holds a connection
  ordered,        \* reports on "hidrpc"
  hostKeys,       \* the keys the host sees down
  unsent,         \* the last change of kb found no connection, or was lost with it
  missed,         \* the window lost a key event: it was not in front
  keyEvents,
  button,         \* the mouse button, as the page knows it
  motion,         \* reports on "hidrpc-unreliable-nonordered": pairs <<number, button>>
  reports,        \* mouse reports sent
  applied,        \* number of the mouse report the host saw last
  hostButton,
  unreported      \* the last mouse event found no connection

inputVars == <<pressed, kb, uiOwns, slot, ordered, hostKeys, unsent, missed, keyEvents, button,
               motion, reports, applied, hostButton, unreported>>
keyVars == <<pressed, kb, uiOwns, ordered, hostKeys, unsent, missed, keyEvents>>
mouseVars == <<button, motion, reports, applied, hostButton, unreported>>

InputInit ==
  /\ pressed = {} /\ kb = {} /\ uiOwns = FALSE /\ slot = TRUE /\ ordered = << >> /\ hostKeys = {}
  /\ unsent = FALSE /\ missed = FALSE /\ keyEvents = 0
  /\ button = FALSE /\ motion = {} /\ reports = 0 /\ applied = 0 /\ hostButton = FALSE
  /\ unreported = FALSE

InputTypeOK ==
  /\ pressed \subseteq Keys /\ kb \subseteq Keys /\ hostKeys \subseteq Keys
  /\ {uiOwns, slot, unsent, missed, button, hostButton, unreported} \subseteq BOOLEAN
  /\ Cardinality(kb \ ModifierKeys) <= KeySlots
  /\ applied <= reports

\* send_keyboard: the whole state, on the ordered channel, if there is one.
SendKeyboard(state) ==
  IF slot THEN ordered' = Append(ordered, state) /\ unsent' = FALSE
          ELSE unsent' = TRUE /\ UNCHANGED ordered

\* The keydown listener.
KeyDown(k) ==
  /\ keyEvents < MaxKeyEvents /\ k \notin pressed
  /\ keyEvents' = keyEvents + 1 /\ pressed' = pressed \cup {k}
  /\ IF uiOwns
     THEN UNCHANGED <<kb, ordered, unsent>>
     ELSE /\ kb' = IF k \in ModifierKeys \/ Cardinality(kb \ ModifierKeys) < KeySlots
                   THEN kb \cup {k} ELSE kb
          /\ SendKeyboard(kb')
  /\ UNCHANGED <<uiOwns, slot, hostKeys, missed, mouseVars>>

\* Mutant: the keyup listener leaves, as the keydown listener does, when the page owns the keyboard.
KeyUpUnlessOwned(k) ==
  /\ k \in pressed /\ pressed' = pressed \ {k}
  /\ IF uiOwns THEN UNCHANGED <<kb, ordered, unsent>> ELSE kb' = kb \ {k} /\ SendKeyboard(kb')
  /\ UNCHANGED <<uiOwns, slot, hostKeys, missed, keyEvents, mouseVars>>

\* The keyup listener: what was pressed for the host is released to it, even
\* when the page owns the keyboard by now.
KeyUp(k) ==
  /\ k \in pressed /\ pressed' = pressed \ {k} /\ kb' = kb \ {k}
  /\ IF uiOwns /\ k \notin kb THEN UNCHANGED <<ordered, unsent>> ELSE SendKeyboard(kb')
  /\ UNCHANGED <<uiOwns, slot, hostKeys, missed, keyEvents, mouseVars>>

\* The window is not in front when the key is let go: the page never hears of it.
KeyUpElsewhere(k) ==
  /\ k \in pressed /\ pressed' = pressed \ {k} /\ missed' = TRUE
  /\ UNCHANGED <<kb, uiOwns, slot, ordered, hostKeys, unsent, keyEvents, mouseVars>>

\* Focus moves between the picture and the page's own controls.
MoveFocus ==
  /\ uiOwns' = ~uiOwns
  /\ UNCHANGED <<pressed, kb, slot, ordered, hostKeys, unsent, missed, keyEvents, mouseVars>>

\* send_key_combo (Ctrl+Alt+Del): a press and a release, past KbState.
SendKeyCombo(keys) ==
  /\ keyEvents < MaxKeyEvents /\ slot /\ keyEvents' = keyEvents + 1
  /\ ordered' = ordered \o <<keys, {}>> /\ unsent' = FALSE
  /\ UNCHANGED <<pressed, kb, uiOwns, slot, hostKeys, missed, mouseVars>>

\* The device hands the next report to the host.
DeliverKeys ==
  /\ ordered # << >> /\ hostKeys' = Head(ordered) /\ ordered' = Tail(ordered)
  /\ UNCHANGED <<pressed, kb, uiOwns, slot, unsent, missed, keyEvents, mouseVars>>

\* The mouse listener: mousedown, mouseup or mousemove, all with ev.buttons().
MouseEvent(b) ==
  /\ reports < MaxMouseEvents /\ button' = b /\ unreported' = ~slot
  /\ IF slot THEN reports' = reports + 1 /\ motion' = motion \cup {<<reports + 1, b>>}
             ELSE UNCHANGED <<reports, motion>>
  /\ UNCHANGED <<slot, keyVars, applied, hostButton>>

\* Any report still on its way may be the next to arrive.
DeliverMotion ==
  /\ \E m \in motion : motion' = motion \ {m} /\ applied' = m[1] /\ hostButton' = m[2]
  /\ UNCHANGED <<slot, keyVars, button, reports, unreported>>

LoseMotion ==
  /\ \E m \in motion : motion' = motion \ {m}
  /\ UNCHANGED <<slot, keyVars, button, reports, applied, hostButton, unreported>>

\* app.rs: the connection is lost, the slot emptied; what was on its way is gone.
LoseConnection ==
  /\ slot /\ slot' = FALSE /\ unsent' = (unsent \/ ordered # << >>)
  /\ ordered' = << >> /\ motion' = {}
  /\ UNCHANGED <<pressed, kb, uiOwns, hostKeys, missed, keyEvents, button, reports, applied, hostButton,
                 unreported>>

Reconnect ==
  /\ ~slot /\ slot' = TRUE
  /\ UNCHANGED <<keyVars, mouseVars>>

KeyInputNext ==
  \/ \E k \in Keys : KeyDown(k) \/ KeyUp(k) \/ KeyUpElsewhere(k)
  \/ MoveFocus \/ SendKeyCombo(Keys) \/ DeliverKeys \/ LoseConnection \/ Reconnect

MouseInputNext ==
  \/ \E b \in BOOLEAN : MouseEvent(b)
  \/ DeliverMotion \/ LoseMotion \/ LoseConnection \/ Reconnect

InputNext == KeyInputNext \/ MouseInputNext
InputSpec == InputInit /\ [][InputNext]_inputVars
-----------------------------------------------------------------------------
(* A key pressed for the host is always released to it: once everything    *)
(* sent has arrived, the host sees no key down that the user does not      *)
(* hold, however focus moved between the page and the picture, whatever    *)
(* combination was sent in between, and even after a lost connection, from *)
(* the next key event that finds one.                                      *)
NothingStuck == ordered = << >> /\ ~unsent /\ ~missed => hostKeys \subseteq pressed

(* A report lost or overtaken on the unreliable channel is repaired by the *)
(* newest one: the host holds the button the page last saw as soon as the  *)
(* newest report is the one it applied.                                    *)
NewestReportRepairs == applied = reports /\ ~unreported => hostButton = button

(* Keys and buttons of the host follow the page's once the reports that    *)
(* carry them have arrived.                                                *)
InputInv == InputTypeOK /\ NothingStuck /\ NewestReportRepairs
=============================================================================
