--------------------------- MODULE ClientSettings ---------------------------
(***************************************************************************)
(* The settings page's controls (rkvm-web settings.rs,                     *)
(* settings_advanced.rs, util.rs).  A control shows the new value at once, *)
(* sends it, and puts back what it showed at the click when the device     *)
(* refuses or does not answer (fire_revert).  Opening the page loads the   *)
(* device's value.  The device keeps the value in its configuration        *)
(* (set_jiggler_state, set_auto_update_state, set_backlight_settings ...): *)
(* an update whose save fails is answered with an error and stays in       *)
(* memory.  Requests reach the device in order and are handled one at a    *)
(* time (RpcCalls); an answer may come after the call has given up.        *)
(* The USB device switches are left out: the device stores none of them.   *)
(***************************************************************************)
EXTENDS Naturals, Sequences

CONSTANTS
  Switches,       \* the controls of the page
  MaxClicks,      \* bound on clicks
  MaxLoads,       \* bound on loads of a control
  MaxRefusals, MaxGivenUp  \* bounds on refusals and on calls that time out

ASSUME SettingsAssumption == {MaxClicks, MaxLoads, MaxRefusals, MaxGivenUp} \subseteq Nat

VARIABLES
  shown,          \* the signals: what the page shows
  stored,         \* what the device has
  calls,          \* calls of the page not yet answered or given up
  requests,       \* requests on their way to the device, in order
  replies,        \* answers on their way to the page, in order
  newest,         \* per control, the latest call about it
  clicks, loads, refusals, givenUp,
  upsets          \* per control, what has happened since page and device last agreed on it

setVars == <<shown, stored, calls, requests, replies, newest, clicks, loads, refusals, givenUp, upsets>>

Upsets == {"unloaded", "overlap", "timeout", "saveFailed"}

SettingsInit ==
  /\ stored \in [Switches -> BOOLEAN] /\ shown = [s \in Switches |-> FALSE]
  /\ calls = {} /\ requests = << >> /\ replies = << >> /\ newest = [s \in Switches |-> 0]
  /\ clicks = 0 /\ loads = 0 /\ refusals = 0 /\ givenUp = 0
  /\ upsets = [s \in Switches |-> {"unloaded"}]

SettingsTypeOK ==
  /\ {shown, stored} \subseteq [Switches -> BOOLEAN] /\ upsets \in [Switches -> SUBSET Upsets]
  /\ \A r \in calls : r.kind \in {"get", "set"} /\ r.id \in 1..(clicks + loads)

(* A call about control s is sent; two under way at once for the same      *)
(* control may settle in an order the page does not expect.                *)
Ask(kind, s, on) ==
  LET r == [kind |-> kind, id |-> clicks + loads + 1, switch |-> s, on |-> on, before |-> shown[s]]
  IN  /\ calls' = calls \cup {r} /\ requests' = Append(requests, r)
      /\ newest' = [newest EXCEPT ![s] = r.id]
      /\ upsets' = [upsets EXCEPT ![s] = IF \E c \in calls : c.switch = s THEN @ \cup {"overlap"} ELSE @]

\* send_toggle, set_log, set_codec, set_rotation, set_layout, set_brightness.
Click(s) ==
  /\ clicks < MaxClicks /\ clicks' = clicks + 1
  /\ Ask("set", s, ~shown[s]) /\ shown' = [shown EXCEPT ![s] = ~@]
  /\ UNCHANGED <<stored, replies, loads, refusals, givenUp>>

\* The page is opened, and its load comes to this control.
OpenPage(s) ==
  /\ loads < MaxLoads /\ loads' = loads + 1
  /\ Ask("get", s, FALSE)
  /\ UNCHANGED <<shown, stored, replies, clicks, refusals, givenUp>>

\* The device handles the next request and answers it.
Handle(kind, ok) ==
  LET r == Head(requests)
  IN  /\ requests # << >> /\ r.kind \in kind /\ requests' = Tail(requests)
      /\ replies' = Append(replies, [id |-> r.id, ok |-> ok, value |-> stored[r.switch]])
      /\ UNCHANGED <<shown, calls, newest, clicks, loads, givenUp>>

Remember == stored' = [stored EXCEPT ![Head(requests).switch] = Head(requests).on]

DeviceGets == Handle({"get"}, TRUE) /\ UNCHANGED <<stored, refusals, upsets>>

DeviceSets == Handle({"set"}, TRUE) /\ Remember /\ UNCHANGED <<refusals, upsets>>

\* The parameters are refused, or the method is blocked in fail-safe mode.
DeviceRefuses ==
  /\ refusals < MaxRefusals /\ refusals' = refusals + 1
  /\ Handle({"get", "set"}, FALSE) /\ UNCHANGED <<stored, upsets>>

\* ConfigManager::update has changed the configuration when its save fails.
DeviceSaveFails ==
  /\ refusals < MaxRefusals /\ refusals' = refusals + 1
  /\ Handle({"set"}, FALSE) /\ Remember
  /\ upsets' = [upsets EXCEPT ![Head(requests).switch] = @ \cup {"saveFailed"}]

\* Mutant: the refused value stays on the page.
RevertNothing(r) == UNCHANGED shown

\* The revert closure of fire_revert.
Revert(r) == shown' = [shown EXCEPT ![r.switch] = r.before]

(* Nothing is left over from an earlier disagreement once the page has     *)
(* loaded the device's value and made no call about it since it asked.     *)
SettledBy(r, ok) ==
  IF r.kind = "get" /\ ok /\ newest[r.switch] = r.id /\ ~\E c \in calls \ {r} : c.switch = r.switch
  THEN [upsets EXCEPT ![r.switch] = {}] ELSE upsets

\* An answer reaches the page; one whose call has given up is dropped.
AnswerArrives ==
  /\ replies # << >> /\ replies' = Tail(replies)
  /\ LET a == Head(replies)
         mine == {r \in calls : r.id = a.id}
     IN  /\ calls' = calls \ mine
         /\ IF mine = {} THEN UNCHANGED <<shown, upsets>>
            ELSE LET r == CHOOSE r \in mine : TRUE
                 IN  /\ CASE r.kind = "get" /\ a.ok -> shown' = [shown EXCEPT ![r.switch] = a.value]
                          [] r.kind = "set" /\ ~a.ok -> Revert(r)
                          [] OTHER -> UNCHANGED shown
                     /\ upsets' = SettledBy(r, a.ok)
  /\ UNCHANGED <<stored, requests, newest, clicks, loads, refusals, givenUp>>

\* A call gives up waiting; the request is still on its way or being handled.
GiveUp(r) ==
  /\ r \in calls /\ givenUp < MaxGivenUp
  /\ calls' = calls \ {r} /\ givenUp' = givenUp + 1
  /\ upsets' = [upsets EXCEPT ![r.switch] = @ \cup {"timeout"}]
  /\ IF r.kind = "set" THEN Revert(r) ELSE UNCHANGED shown
  /\ UNCHANGED <<stored, requests, replies, newest, clicks, loads, refusals>>

SettingsNext ==
  \/ \E s \in Switches : Click(s) \/ OpenPage(s)
  \/ DeviceGets \/ DeviceSets \/ DeviceRefuses \/ DeviceSaveFails \/ AnswerArrives
  \/ \E r \in calls : GiveUp(r)

SettingsSpec == SettingsInit /\ [][SettingsNext]_setVars
-----------------------------------------------------------------------------
\* Once the page has loaded a control, it shows what the device has unless a change of it is under
\* way: the change was accepted, or it was taken back.  It may be wrong after two calls about it
\* that overlapped, one that timed out or one whose save failed, and then it is right again from
\* the next load on.
SettledShowsStored ==
  \A s \in Switches : upsets[s] = {} /\ shown[s] # stored[s] =>
    \E r \in calls : r.kind = "set" /\ r.switch = s

\* The page and the device agree, up to the change the user has just made.
SettingsInv == SettingsTypeOK /\ SettledShowsStored

=============================================================================
