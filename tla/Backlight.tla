----------------------------- MODULE Backlight -----------------------------
(***************************************************************************)
(* The panel's backlight: wake_display lights it and arms a dim and an off   *)
(* timer under a fresh cancellation token; setBacklightSettings changes the *)
(* configuration and the panel, and leaves the timers alone.                *)
(***************************************************************************)
EXTENDS Naturals, FiniteSets

CONSTANTS
  Wakes,         \* wake_display calls
  LightSettings, \* setBacklightSettings calls
  Brightnesses   \* values of max_brightness the settings use, out of 0..255

ASSUME BacklightAssumption == "none" \notin Wakes /\ Brightnesses \subseteq 0..255

BrightnessLimit == 100   \* set_display_brightness refuses more

VARIABLES
  maxBright, dimOn, offOn,  \* display_* of the configuration; a delay of 0 means no timer
  panel,                    \* the backlight node
  lightToken,               \* BACKLIGHT_CANCEL: the wake whose timers are current, or "none"
  stale,                    \* wakes whose token is cancelled
  timers,                   \* per wake: dim and off, "none", "armed", "fired" or "over"
  dimTo,                    \* the value its dim timer writes
  wake,                     \* place of each wake
  seenMax,                  \* max_brightness of the snapshot it works with
  setting, setMax,          \* the settings calls
  lightUpsets               \* what disturbed the order of events
lightVars == <<maxBright, dimOn, offOn, panel, lightToken, stale, timers, dimTo, wake, seenMax, setting, setMax, lightUpsets>>

TimerKinds == {"dim", "off"}
WakeBusy == {w \in Wakes : wake[w] \in {"light", "tickers"}}
SettingBusy == {s \in LightSettings : setting[s] = "write"}
Fired == {t \in Wakes \X TimerKinds : timers[t[1]][t[2]] = "fired"}

BacklightTypeOK ==
  /\ maxBright \in Brightnesses /\ panel \in 0..255 /\ lightToken \in Wakes \cup {"none"}
  /\ timers \in [Wakes -> [TimerKinds -> {"none", "armed", "fired", "over"}]]
  /\ wake \in [Wakes -> {"new", "light", "tickers", "done"}]

BacklightInit ==
  /\ maxBright \in Brightnesses /\ dimOn \in BOOLEAN /\ offOn \in BOOLEAN /\ panel = maxBright
  /\ lightToken = "none" /\ stale = {}
  /\ timers = [w \in Wakes |-> [k \in TimerKinds |-> "none"]]
  /\ dimTo = [w \in Wakes |-> 0] /\ seenMax = dimTo /\ wake = [w \in Wakes |-> "new"]
  /\ setting = [s \in LightSettings |-> "new"] /\ setMax = [s \in LightSettings |-> 0]
  /\ lightUpsets = {}

LightRefused(b) == b > BrightnessLimit
\* set_display_brightness: a value over 100 is refused and its callers go on.
Lit(b) == IF LightRefused(b) THEN panel ELSE b
-----------------------------------------------------------------------------
\* wake_display reads the configuration; with max 0 only the forced wake of the boot goes on.
WakeStart(w, force) ==
  /\ wake[w] = "new"
  /\ wake' = [wake EXCEPT ![w] = IF maxBright = 0 /\ ~force THEN "done" ELSE "light"]
  /\ seenMax' = [seenMax EXCEPT ![w] = maxBright]
  /\ lightUpsets' = lightUpsets \cup (IF WakeBusy \cup SettingBusy # {} THEN {"overlap"} ELSE {})
  /\ UNCHANGED <<maxBright, dimOn, offOn, panel, lightToken, stale, timers, dimTo, setting, setMax>>

WakeLight(w) ==
  /\ wake[w] = "light" /\ panel' = Lit(seenMax[w]) /\ wake' = [wake EXCEPT ![w] = "tickers"]
  /\ UNCHANGED <<maxBright, dimOn, offOn, lightToken, stale, timers, dimTo, seenMax, setting, setMax, lightUpsets>>

\* start_backlight_tickers reads the configuration again.  With max 0 the panel goes dark and the old
\* timers stay; otherwise the tokens change hands under the lock and the timers are spawned.
StartTickers(w) ==
  /\ wake[w] = "tickers" /\ wake' = [wake EXCEPT ![w] = "done"]
  /\ IF maxBright = 0
     THEN panel' = 0 /\ UNCHANGED <<lightToken, stale, timers, dimTo>>
     ELSE /\ lightToken' = w /\ stale' = stale \cup ({lightToken} \ {"none"})
          /\ timers' = [timers EXCEPT ![w] =
                           [k \in TimerKinds |-> IF (k = "dim" /\ dimOn) \/ (k = "off" /\ offOn) THEN "armed" ELSE "none"]]
          /\ dimTo' = [dimTo EXCEPT ![w] = maxBright \div 2]
          /\ UNCHANGED panel
  /\ UNCHANGED <<maxBright, dimOn, offOn, seenMax, setting, setMax, lightUpsets>>

\* The select of a timer task takes the sleep only while the token is not cancelled; the write comes after.
TimerFires(w, k) ==
  /\ timers[w][k] = "armed" /\ w \notin stale /\ timers' = [timers EXCEPT ![w][k] = "fired"]
  /\ UNCHANGED <<maxBright, dimOn, offOn, panel, lightToken, stale, dimTo, wake, seenMax, setting, setMax, lightUpsets>>

TimerWrites(w, k) ==
  /\ timers[w][k] = "fired" /\ timers' = [timers EXCEPT ![w][k] = "over"]
  /\ panel' = Lit(IF k = "dim" THEN dimTo[w] ELSE 0)
  /\ lightUpsets' = lightUpsets \cup (IF w \in stale \/ WakeBusy \cup SettingBusy # {} THEN {"lateTimer"} ELSE {})
  /\ UNCHANGED <<maxBright, dimOn, offOn, lightToken, stale, dimTo, wake, seenMax, setting, setMax>>

TimerDropped(w, k) ==
  /\ timers[w][k] = "armed" /\ w \in stale /\ timers' = [timers EXCEPT ![w][k] = "over"]
  /\ UNCHANGED <<maxBright, dimOn, offOn, panel, lightToken, stale, dimTo, wake, seenMax, setting, setMax, lightUpsets>>

-----------------------------------------------------------------------------
\* set_backlight_settings: the configuration, then the node, written past set_display_brightness.
StoreSettings(s, b, dim, off) ==
  /\ setting[s] = "new" /\ setting' = [setting EXCEPT ![s] = "write"]
  /\ setMax' = [setMax EXCEPT ![s] = b]
  /\ maxBright' = b /\ dimOn' = dim /\ offOn' = off
  /\ lightUpsets' = lightUpsets \cup (IF WakeBusy \cup SettingBusy # {} THEN {"overlap"} ELSE {})
  /\ UNCHANGED <<panel, lightToken, stale, timers, dimTo, wake, seenMax>>

WriteSettings(s) ==
  /\ setting[s] = "write" /\ setting' = [setting EXCEPT ![s] = "done"] /\ panel' = setMax[s]
  /\ UNCHANGED <<maxBright, dimOn, offOn, lightToken, stale, timers, dimTo, wake, seenMax, setMax, lightUpsets>>

BacklightNext ==
  \/ \E w \in Wakes : \/ \E force \in BOOLEAN : WakeStart(w, force)
                      \/ WakeLight(w) \/ StartTickers(w)
                      \/ \E k \in TimerKinds : TimerFires(w, k) \/ TimerWrites(w, k) \/ TimerDropped(w, k)
  \/ \E s \in LightSettings : \/ WriteSettings(s)
                              \/ \E b \in Brightnesses, dim, off \in BOOLEAN : StoreSettings(s, b, dim, off)

-----------------------------------------------------------------------------
NoneFired(w) == \A k \in TimerKinds : timers[w][k] \in {"none", "armed"}
LightSettled == WakeBusy = {} /\ SettingBusy = {} /\ Fired = {} /\ lightUpsets = {}

\* Whatever wakes overlap, only the timers of the latest one can still fire: the token is replaced
\* and the old one cancelled under one lock.
OnlyNewestTimers == \A w \in Wakes \ stale : (\E k \in TimerKinds : timers[w][k] = "armed") => w = lightToken

\* A wake lights the panel to the configured maximum and it stays so until a timer of that wake
\* fires, for a maximum the brightness check accepts.
WokenIsLit ==
  (LightSettled /\ ~LightRefused(maxBright) /\ lightToken # "none" /\ NoneFired(lightToken))
     => panel = maxBright

\* The panel shows what the newest wake and its timers ask for.
LightInv == BacklightTypeOK /\ OnlyNewestTimers /\ WokenIsLit

=============================================================================
