----------------------------- MODULE MCFrontEnd -----------------------------
(***************************************************************************)
(* The device as its users and callers meet it: logins under the rate       *)
(* limiter, the password, the controls of the settings page, the MQTT       *)
(* settings, the calls of the web client and of the MCP tools, keyboard and *)
(* mouse input, and text as key strokes.  One instance checks the           *)
(* components side by side: a behaviour chooses the one it is about in its  *)
(* first state (focus), the others rest.                                    *)
(***************************************************************************)
EXTENDS Access, ClientSettings, MqttTopics, Api, BrowserInput, Keymap, TLC

VARIABLE focus

\* Characters of every row of the keyboard, one that is skipped and one that cannot be typed.
MCSample == {"a", "A", "1", "!", ")", "\n", " ", "_", "\\", ";", "\"", "?", "\r", "~", "nope"}

accessVars == <<rateVars, authVars, setVars, topicVars>>
clientVars == <<apiVars, inputVars, keymapVars>>

MCInit ==
  /\ focus \in {"rate", "auth", "settings", "topics", "api", "keys", "mouse", "keymap"}
  /\ focus # "topics" => /\ mode = [enabled |-> FALSE, actions |-> FALSE, discovery |-> FALSE]
                         /\ extension = "" /\ entries = {} /\ topics = {}
  /\ focus # "keymap" => job = [kind |-> "text", names |-> << >>]
  /\ focus # "settings" => stored = [s \in Switches |-> FALSE]
  /\ RateInit /\ AuthInit /\ SettingsInit /\ TopicsInit /\ ApiInit /\ InputInit /\ KeymapInit

MCNext ==
  \/ focus = "rate" /\ RateNext /\ UNCHANGED <<focus, authVars, setVars, topicVars, clientVars>>
  \/ focus = "auth" /\ AuthNext /\ UNCHANGED <<focus, rateVars, setVars, topicVars, clientVars>>
  \/ focus = "settings" /\ SettingsNext /\ UNCHANGED <<focus, rateVars, authVars, topicVars, clientVars>>
  \/ focus = "topics" /\ TopicsNext /\ UNCHANGED <<focus, rateVars, authVars, setVars, clientVars>>
  \/ focus = "api" /\ ApiNext /\ UNCHANGED <<focus, accessVars, inputVars, keymapVars>>
  \/ focus = "keys" /\ KeyInputNext /\ UNCHANGED <<focus, accessVars, apiVars, keymapVars>>
  \/ focus = "mouse" /\ MouseInputNext /\ UNCHANGED <<focus, accessVars, apiVars, keymapVars>>
  \/ focus = "keymap" /\ KeymapNext /\ UNCHANGED <<focus, accessVars, apiVars, inputVars>>

MCSpec == MCInit /\ [][MCNext]_<<focus, accessVars, clientVars>>

MCSymmetry == Permutations(AuthRequests) \cup Permutations(Switches)

\* What the user types, clicks or writes reaches the host as it was meant: keys and buttons follow
\* the page's, texts and combinations arrive whole or not at all.
ClientInv == InputInv /\ KeymapInv

=============================================================================
