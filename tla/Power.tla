------------------------------- MODULE Power -------------------------------
(***************************************************************************)
(* ATX and DC power control.  setActiveExtension mounts and unmounts the    *)
(* ATX pins; a button press drives its pin high, sleeps and drives it low,  *)
(* on a blocking thread of its own, whatever else happens meanwhile (other  *)
(* presses, from the API, MQTT or MCP, and a change of the extension).      *)
(* The DC output is a pin, a remembered state and a gauge.                  *)
(***************************************************************************)
EXTENDS Naturals, FiniteSets, Sequences

CONSTANTS
  Selects,         \* setActiveExtension requests
  Presses,         \* button presses
  DcSets,          \* setDCPowerState requests
  MaxPowerFaults   \* bound on failed sysfs writes

ASSUME PowerAssumption ==
  /\ IsFiniteSet(Selects) /\ IsFiniteSet(Presses) /\ IsFiniteSet(DcSets) /\ MaxPowerFaults \in Nat

AtxPins == <<"power", "reset", "powerLed", "hddLed">>
Buttons == {"power", "reset"}

VARIABLES
  atxMounted,   \* ATX_MOUNTED
  activeExt,    \* ACTIVE_EXTENSION: "atx" or "other"
  exported,     \* pins that can be written
  high,         \* buttons whose pin is driven high
  selPc, selTo, \* requests: a place, or the number of the pin being mounted
  pressPc, pressPin,
  dcPin, dcGauge, dcPc, dcTo, dcRead,
  powerUpsets, powerFaults

powerVars == <<atxMounted, activeExt, exported, high, selPc, selTo, pressPc, pressPin,
               dcPin, dcGauge, dcPc, dcTo, dcRead, powerUpsets, powerFaults>>
atxVars == <<atxMounted, activeExt, exported, high, selPc, selTo, pressPc, pressPin>>
dcVars == <<dcPin, dcGauge, dcPc, dcTo, dcRead>>

SelEnded == {"new", "done", "failed"}
PressEnded == {"new", "done", "failed"}
Selecting == {s \in Selects : selPc[s].at \notin SelEnded}
Pressing == {p \in Presses : pressPc[p] \notin PressEnded}
DcBusy == {d \in DcSets : dcPc[d] \notin SelEnded}
At(place) == [at |-> place, pin |-> 0]
SelGoto(s, pc) == selPc' = [selPc EXCEPT ![s] = pc]
PressGoto(p, pc) == pressPc' = [pressPc EXCEPT ![p] = pc]
Upset(what) == powerUpsets' = powerUpsets \cup what
PowerFault == powerFaults < MaxPowerFaults /\ powerFaults' = powerFaults + 1

PowerTypeOK ==
  /\ atxMounted \in BOOLEAN /\ activeExt \in {"atx", "other"}
  /\ exported \subseteq {AtxPins[i] : i \in 1..4} /\ high \subseteq Buttons
  /\ powerFaults \in 0..MaxPowerFaults

PowerInit ==
  /\ atxMounted = FALSE /\ activeExt = "other" /\ exported = {} /\ high = {}
  /\ selPc = [s \in Selects |-> At("new")] /\ selTo = [s \in Selects |-> "other"]
  /\ pressPc = [p \in Presses |-> "new"] /\ pressPin = [p \in Presses |-> "power"]
  /\ dcPin = FALSE /\ dcGauge = FALSE /\ dcPc = [d \in DcSets |-> "new"]
  /\ dcTo = [d \in DcSets |-> FALSE] /\ dcRead = [d \in DcSets |-> FALSE]
  /\ powerUpsets = {} /\ powerFaults = 0

-----------------------------------------------------------------------------
\* set_active_extension compares with the extension it reads; leaving atx unmounts.
SelectExtension(s, to) ==
  /\ selPc[s].at = "new"
  /\ selTo' = [selTo EXCEPT ![s] = to]
  /\ SelGoto(s, At(IF activeExt = "atx" /\ to # "atx" THEN "unmount"
                   ELSE IF to = "atx" THEN "mount" ELSE "record"))
  /\ Upset((IF Selecting # {} THEN {"selectOverlap"} ELSE {})
           \cup (IF Pressing # {} THEN {"pressDuringSelect"} ELSE {}))
  /\ UNCHANGED <<atxMounted, activeExt, exported, high, pressPc, pressPin, dcVars, powerFaults>>

\* unmount_atx_control: the flag, then both buttons low, then every pin is given back.
UnmountAtx(s) ==
  /\ selPc[s].at = "unmount"
  /\ atxMounted' = FALSE
  /\ IF atxMounted THEN high' = high \ exported /\ SelGoto(s, At("unexport"))
                   ELSE UNCHANGED high /\ SelGoto(s, At("record"))
  /\ UNCHANGED <<activeExt, exported, selTo, pressPc, pressPin, dcVars, powerUpsets, powerFaults>>

UnexportAtx(s) ==
  /\ selPc[s].at = "unexport" /\ exported' = {} /\ SelGoto(s, At("record"))
  /\ UNCHANGED <<atxMounted, activeExt, high, selTo, pressPc, pressPin, dcVars, powerUpsets, powerFaults>>

\* mount_atx_control sets the flag first; a pin that fails ends it with the flag still set.
MountAtx(s) ==
  /\ selPc[s].at = "mount" /\ atxMounted' = TRUE
  /\ SelGoto(s, IF atxMounted THEN At("record") ELSE [at |-> "pin", pin |-> 1])
  /\ UNCHANGED <<activeExt, exported, high, selTo, pressPc, pressPin, dcVars, powerUpsets, powerFaults>>

InitPin(s) ==
  LET n == selPc[s].pin
  IN  /\ selPc[s].at = "pin"
      /\ \/ /\ exported' = exported \cup {AtxPins[n]} /\ high' = high \ {AtxPins[n]}
            /\ SelGoto(s, IF n = Len(AtxPins) THEN At("record") ELSE [at |-> "pin", pin |-> n + 1])
            /\ UNCHANGED <<powerUpsets, powerFaults>>
         \/ /\ PowerFault /\ Upset({"mountFailed"})
            /\ SelGoto(s, At("failed")) /\ UNCHANGED <<exported, high>>
      /\ UNCHANGED <<atxMounted, activeExt, selTo, pressPc, pressPin, dcVars>>

RecordExtension(s) ==
  /\ selPc[s].at = "record" /\ activeExt' = selTo[s] /\ SelGoto(s, At("done"))
  /\ UNCHANGED <<atxMounted, exported, high, selTo, pressPc, pressPin, dcVars, powerUpsets, powerFaults>>

\* pulse_output_pin of a press: high, sleep, low.  A pin that is not exported cannot be written.
PressDown(p, pin) ==
  /\ pressPc[p] = "new" /\ pressPin' = [pressPin EXCEPT ![p] = pin]
  /\ IF pin \in exported THEN high' = high \cup {pin} /\ PressGoto(p, "held")
                         ELSE UNCHANGED high /\ PressGoto(p, "failed")
  /\ Upset((IF Selecting # {} THEN {"pressDuringSelect"} ELSE {})
           \cup (IF \E q \in Pressing : pressPin[q] = pin THEN {"pressOverlap"} ELSE {}))
  /\ UNCHANGED <<atxMounted, activeExt, exported, selPc, selTo, dcVars, powerFaults>>

PressUp(p) ==
  /\ pressPc[p] = "held"
  /\ \/ /\ pressPin[p] \in exported /\ high' = high \ {pressPin[p]}
        /\ PressGoto(p, "done") /\ UNCHANGED <<powerUpsets, powerFaults>>
     \/ /\ pressPin[p] \notin exported /\ PressGoto(p, "failed")
        /\ UNCHANGED <<high, powerUpsets, powerFaults>>
     \/ /\ PowerFault /\ Upset({"releaseFailed"}) /\ PressGoto(p, "failed") /\ UNCHANGED high
  /\ UNCHANGED <<atxMounted, activeExt, exported, selPc, selTo, pressPin, dcVars>>

-----------------------------------------------------------------------------
\* set_dc_power_state: the pin, then the remembered state, then a reading that goes to the gauge.
DcWrite(d, on) ==
  /\ dcPc[d] = "new" /\ dcTo' = [dcTo EXCEPT ![d] = on]
  /\ \/ dcPin' = on /\ dcPc' = [dcPc EXCEPT ![d] = "read"] /\ UNCHANGED powerFaults
     \/ PowerFault /\ dcPc' = [dcPc EXCEPT ![d] = "failed"] /\ UNCHANGED dcPin
  /\ Upset(IF DcBusy # {} THEN {"dcOverlap"} ELSE {})
  /\ UNCHANGED <<atxVars, dcGauge, dcRead>>

DcReadBack(d) ==
  /\ dcPc[d] = "read" /\ dcRead' = [dcRead EXCEPT ![d] = dcPin]
  /\ dcPc' = [dcPc EXCEPT ![d] = "gauge"]
  /\ UNCHANGED <<atxVars, dcPin, dcGauge, dcTo, powerUpsets, powerFaults>>

DcSetGauge(d) ==
  /\ dcPc[d] = "gauge" /\ dcGauge' = dcRead[d] /\ dcPc' = [dcPc EXCEPT ![d] = "done"]
  /\ UNCHANGED <<atxVars, dcPin, dcTo, dcRead, powerUpsets, powerFaults>>

AtxNext ==
  \/ \E s \in Selects : \/ \E to \in {"atx", "other"} : SelectExtension(s, to)
                        \/ UnmountAtx(s) \/ UnexportAtx(s) \/ MountAtx(s) \/ InitPin(s) \/ RecordExtension(s)
  \/ \E p \in Presses : PressUp(p) \/ \E pin \in Buttons : PressDown(p, pin)
DcNext == \E d \in DcSets : DcReadBack(d) \/ DcSetGauge(d) \/ \E on \in BOOLEAN : DcWrite(d, on)
PowerNext == AtxNext \/ DcNext

-----------------------------------------------------------------------------
\* No button of the host is left pressed: with no press and no change of extension under way every
\* button pin is low, whatever presses overlapped.  A press that runs into an unmount may leave its
\* pin high when it is given back, and so may a failed write.
NoButtonStuck ==
  (Pressing = {} /\ Selecting = {} /\ powerUpsets \cap {"pressDuringSelect", "releaseFailed"} = {})
    => high = {}

\* Once setActiveExtension has answered, the ATX pins can be written exactly when atx is active.
\* A failed mount, whose flag stays set and turns the retry into a success, breaks this.
ActiveIsMounted ==
  (Selecting = {} /\ powerUpsets \cap {"selectOverlap", "mountFailed"} = {})
    => (activeExt = "atx" <=> Buttons \subseteq exported) /\ (atxMounted <=> activeExt = "atx")

\* Between requests that do not overlap, the gauge shows what the DC pin is.
GaugeFollowsPin == (DcBusy = {} /\ "dcOverlap" \notin powerUpsets) => dcGauge = dcPin

\* The pins are as the extension, the presses and the gauge say, between requests.
PowerInv == PowerTypeOK /\ NoButtonStuck /\ ActiveIsMounted /\ GaugeFollowsPin

=============================================================================
