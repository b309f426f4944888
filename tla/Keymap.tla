------------------------------- MODULE Keymap -------------------------------
(***************************************************************************)
(* Text and key combinations as keyboard macro steps (rkvm-proto           *)
(* keymap.rs, used by typeText, pressCombo, executeKeyboardMacro and the    *)
(* page's listeners), played to a host with a US keyboard.  The host is     *)
(* the reference: it prints a character when a key appears in a report that *)
(* was not in the one before, shifted or not as that report says.           *)
(***************************************************************************)
EXTENDS Naturals, Sequences, SequencesExt, FiniteSets

CONSTANTS
  Sample,        \* the characters texts are made of
  MaxText,       \* bound on the length of a text
  Tokens,        \* the key names combinations are made of
  MaxTokens,     \* bound on the length of a combination
  BufferSize     \* HID_KEY_BUFFER_SIZE

ASSUME KeymapAssumption == {MaxText, MaxTokens, BufferSize} \subseteq Nat /\ BufferSize > 0

VARIABLES
  job,           \* the text or combination to play, "refused" in its place if it has no steps
  steps,         \* macro steps left to play
  held,          \* the report the host saw last
  printed,       \* what the host has printed
  peak           \* every report with a key down that the host has seen

keymapVars == <<job, steps, held, printed, peak>>

Letters == <<"a", "b", "c", "d", "e", "f", "g", "h", "i", "j", "k", "l", "m", "n", "o", "p",
             "q", "r", "s", "t", "u", "v", "w", "x", "y", "z">>
Capitals == <<"A", "B", "C", "D", "E", "F", "G", "H", "I", "J", "K", "L", "M", "N", "O", "P",
              "Q", "R", "S", "T", "U", "V", "W", "X", "Y", "Z">>
Digits == <<"1", "2", "3", "4", "5", "6", "7", "8", "9", "0">>
DigitSymbols == <<"!", "@", "#", "$", "%", "^", "&", "*", "(", ")">>
Return == <<"\n">>
Blanks == <<"\t", " ">>
Marks == <<"-", "=", "[", "]", "\\">>
ShiftedMarks == <<"_", "+", "{", "}", "|">>
LowMarks == <<";", "'", "grave", ",", ".", "/">>
ShiftedLowMarks == <<":", "\"", "~", "<", ">", "?">>

NoMods == {}
LeftShift == {"ShiftLeft"}

\* The rows of keys whose usages follow one another: modifiers, first usage, characters.
CharRows ==
  {<<NoMods, 4, Letters>>, <<LeftShift, 4, Capitals>>, <<NoMods, 30, Digits>>, <<LeftShift, 30, DigitSymbols>>,
   <<NoMods, 40, Return>>, <<NoMods, 43, Blanks>>, <<NoMods, 45, Marks>>, <<LeftShift, 45, ShiftedMarks>>,
   <<NoMods, 51, LowMarks>>, <<LeftShift, 51, ShiftedLowMarks>>}

Position(x, row) == CHOOSE i \in DOMAIN row : row[i] = x

\* char_to_keystroke: what types a character, for the characters that can be typed.
CharToKeystroke ==
  [c \in UNION {ToSet(r[3]) : r \in CharRows} |->
     LET r == CHOOSE r \in CharRows : c \in ToSet(r[3]) IN <<r[1], r[2] + Position(c, r[3]) - 1>>]

\* code_to_usage: DOM codes in the order of their usages.
CodesFrom4 ==
  <<"KeyA", "KeyB", "KeyC", "KeyD", "KeyE", "KeyF", "KeyG", "KeyH", "KeyI", "KeyJ", "KeyK", "KeyL",
    "KeyM", "KeyN", "KeyO", "KeyP", "KeyQ", "KeyR", "KeyS", "KeyT", "KeyU", "KeyV", "KeyW", "KeyX",
    "KeyY", "KeyZ", "Digit1", "Digit2", "Digit3", "Digit4", "Digit5", "Digit6", "Digit7", "Digit8",
    "Digit9", "Digit0", "Enter", "Escape", "Backspace", "Tab", "Space", "Minus", "Equal",
    "BracketLeft", "BracketRight", "Backslash">>
CodesFrom51 ==
  <<"Semicolon", "Quote", "Backquote", "Comma", "Period", "Slash", "CapsLock", "F1", "F2", "F3",
    "F4", "F5", "F6", "F7", "F8", "F9", "F10", "F11", "F12", "PrintScreen", "ScrollLock", "Pause",
    "Insert", "Home", "PageUp", "Delete", "End", "PageDown", "ArrowRight", "ArrowLeft",
    "ArrowDown", "ArrowUp", "NumLock", "NumpadDivide", "NumpadMultiply", "NumpadSubtract",
    "NumpadAdd", "NumpadEnter", "Numpad1", "Numpad2", "Numpad3", "Numpad4", "Numpad5", "Numpad6",
    "Numpad7", "Numpad8", "Numpad9", "Numpad0", "NumpadDecimal", "IntlBackslash", "ContextMenu">>
CodesFrom103 ==
  <<"NumpadEqual", "F13", "F14", "F15", "F16", "F17", "F18", "F19", "F20", "F21", "F22", "F23", "F24">>

CodeRows == {<<4, CodesFrom4>>, <<51, CodesFrom51>>, <<103, CodesFrom103>>}

CodeToUsage ==
  [c \in UNION {ToSet(r[2]) : r \in CodeRows} |->
     LET r == CHOOSE r \in CodeRows : c \in ToSet(r[2]) IN r[1] + Position(c, r[2]) - 1]

\* code_to_modifier and the modifier names of resolve_key: each modifier with its names.
ModifierNames ==
  {<<"ControlLeft", {"ControlLeft", "ctrl", "control", "lctrl"}>>,
   <<"ShiftLeft", {"ShiftLeft", "shift", "lshift"}>>,
   <<"AltLeft", {"AltLeft", "alt", "option", "lalt"}>>,
   <<"MetaLeft", {"MetaLeft", "OSLeft", "meta", "win", "windows", "super", "cmd", "command", "gui", "lmeta"}>>,
   <<"ControlRight", {"ControlRight", "rctrl"}>>, <<"ShiftRight", {"ShiftRight", "rshift"}>>,
   <<"AltRight", {"AltRight", "ralt", "altgr"}>>,
   <<"MetaRight", {"MetaRight", "OSRight", "rmeta", "rwin", "rcmd"}>>}

\* The other names of resolve_key: each code with its names (of the function keys, the first and the last).
KeyNames ==
  {<<"Enter", {"enter", "return"}>>, <<"Escape", {"esc", "escape"}>>, <<"Tab", {"tab"}>>,
   <<"Space", {"space", "spacebar"}>>, <<"Backspace", {"backspace", "bksp"}>>, <<"Delete", {"delete", "del"}>>,
   <<"Insert", {"insert", "ins"}>>, <<"Home", {"home"}>>, <<"End", {"end"}>>, <<"PageUp", {"pageup", "pgup"}>>,
   <<"PageDown", {"pagedown", "pgdn"}>>, <<"ArrowUp", {"up", "arrowup"}>>, <<"ArrowDown", {"down", "arrowdown"}>>,
   <<"ArrowLeft", {"left", "arrowleft"}>>, <<"ArrowRight", {"right", "arrowright"}>>,
   <<"CapsLock", {"capslock", "caps"}>>, <<"PrintScreen", {"printscreen", "prtsc", "prtscr"}>>,
   <<"ScrollLock", {"scrolllock"}>>, <<"Pause", {"pause", "break"}>>, <<"NumLock", {"numlock"}>>,
   <<"ContextMenu", {"menu", "contextmenu", "apps"}>>, <<"F1", {"f1"}>>, <<"F24", {"f24"}>>}

\* What a name stands for.
Named(name, table) == {p[1] : p \in {q \in table : name \in q[2]}}

\* A single character stands for its key: the shift that types it is left out.
Unshifted(c) == IF c \in ToSet(Capitals) THEN Letters[Position(c, Capitals)] ELSE c

NoKey == [mods |-> {}, keys |-> {}]

\* resolve_key: a modifier, a usage, or nothing.
ResolveKey(name) ==
  LET mods == Named(name, ModifierNames)
      codes == Named(name, KeyNames)
  IN  IF mods # {} THEN [mods |-> mods, keys |-> {}]
      ELSE IF name \in DOMAIN CodeToUsage THEN [mods |-> {}, keys |-> {CodeToUsage[name]}]
      ELSE IF codes # {} THEN [mods |-> {}, keys |-> {CodeToUsage[k] : k \in codes}]
      ELSE IF Unshifted(name) \in DOMAIN CharToKeystroke
      THEN [mods |-> {}, keys |-> {CharToKeystroke[Unshifted(name)][2]}]
      ELSE NoKey
-----------------------------------------------------------------------------
Report(mods, keys) == [mods |-> mods, keys |-> keys]
Released == Report({}, {})

PressAndRelease(mods, keys) == <<Report(mods, keys), Released>>

\* parse_combo: the union of what the names stand for; the host's report holds
\* BufferSize keys.
ParseCombo(names) ==
  LET all == {ResolveKey(n) : n \in ToSet(names)}
      keys == UNION {r.keys : r \in all}
  IN  IF names = << >> \/ NoKey \in all \/ Cardinality(keys) > BufferSize THEN << >>
      ELSE <<Report(UNION {r.mods : r \in all}, keys)>>

ComboToMacroSteps(names) ==
  LET parsed == ParseCombo(names)
  IN  IF parsed = << >> THEN << >> ELSE PressAndRelease(parsed[1].mods, parsed[1].keys)

\* text_to_macro_steps: a carriage return is skipped, a character that cannot
\* be typed refuses the whole text.
Typeable(text) ==
  LET kept == {i \in DOMAIN text : text[i] # "\r"}
  IN  [k \in 1..Cardinality(kept) |-> text[CHOOSE i \in kept : Cardinality({j \in kept : j <= i}) = k]]

\* Every character is pressed and released before the next.
TextToMacroSteps(text) ==
  LET typed == Typeable(text)
      Stroke(c) == PressAndRelease(CharToKeystroke[c][1], {CharToKeystroke[c][2]})
  IN  IF ~(ToSet(typed) \subseteq DOMAIN CharToKeystroke) THEN << >>
      ELSE [k \in 1..(2 * Len(typed)) |-> Stroke(typed[(k + 1) \div 2])[((k + 1) % 2) + 1]]
-----------------------------------------------------------------------------
\* The host: the reference layout of a US keyboard by usage, plain and shifted.
HostBlanks == <<"\t", " ">>
HostPunctuation == <<"-", "=", "[", "]", "\\">>
HostLow == <<";", "'", "grave", ",", ".", "/">>
HostDigitsShifted == <<"!", "@", "#", "$", "%", "^", "&", "*", "(", ")">>
HostPunctuationShifted == <<"_", "+", "{", "}", "|">>
HostLowShifted == <<":", "\"", "~", "<", ">", "?">>
HostPlain ==
  [u \in (4..40) \cup (43..49) \cup (51..56) |->
     IF u <= 29 THEN Letters[u - 3] ELSE IF u <= 39 THEN Digits[u - 29] ELSE IF u = 40 THEN "\n"
     ELSE IF u <= 44 THEN HostBlanks[u - 42] ELSE IF u <= 49 THEN HostPunctuation[u - 44] ELSE HostLow[u - 50]]
HostShifted ==
  [u \in (4..39) \cup (45..49) \cup (51..56) |->
     IF u <= 29 THEN Capitals[u - 3] ELSE IF u <= 39 THEN HostDigitsShifted[u - 29]
     ELSE IF u <= 49 THEN HostPunctuationShifted[u - 44] ELSE HostLowShifted[u - 50]]

HostPrints(old, new) ==
  LET layout == IF new.mods \cap {"ShiftLeft", "ShiftRight"} = {} THEN HostPlain ELSE HostShifted
  IN  SetToSeq({layout[u] : u \in (new.keys \ old.keys) \cap DOMAIN layout})

KeymapInit ==
  /\ held = Released /\ printed = << >> /\ peak = {}
  /\ \/ \E text \in BoundedSeq(Sample, MaxText) :
          job = [kind |-> "text", names |-> text] /\ steps = TextToMacroSteps(text)
     \/ \E names \in BoundedSeq(Tokens, MaxTokens) :
          job = [kind |-> "combo", names |-> names] /\ steps = ComboToMacroSteps(names)

PlayStep ==
  /\ steps # << >> /\ steps' = Tail(steps) /\ held' = Head(steps)
  /\ printed' = printed \o HostPrints(held, Head(steps))
  /\ peak' = peak \cup ({Head(steps)} \ {Released})
  /\ UNCHANGED job

KeymapNext == PlayStep
KeymapSpec == KeymapInit /\ [][KeymapNext]_keymapVars
-----------------------------------------------------------------------------
KeymapTypeOK ==
  /\ job.kind \in {"text", "combo"}
  /\ \A i \in DOMAIN steps : Cardinality(steps[i].keys) <= BufferSize

(* A text is typed whole or not at all, and arrives as it was given: every *)
(* character once, shifted or not, a repeated one as often as it is there, *)
(* and no key is left down behind it (keymap.rs text_to_macro_steps).      *)
TextArrives ==
  job.kind = "text" /\ steps = << >> =>
    /\ held = Released
    /\ printed = IF ToSet(Typeable(job.names)) \subseteq DOMAIN CharToKeystroke
                 THEN Typeable(job.names) ELSE << >>

(* A combination is on the host's keyboard at once, whole, under whichever *)
(* of its names each key was given, in one report with room for all of     *)
(* them, and is let go again (keymap.rs parse_combo, resolve_key).         *)
ComboArrives ==
  job.kind = "combo" /\ steps = << >> =>
    /\ held = Released
    /\ \/ peak = {} /\ (job.names = << >> \/ NoKey \in {ResolveKey(n) : n \in ToSet(job.names)}
                        \/ Cardinality(UNION {ResolveKey(n).keys : n \in ToSet(job.names)}) > BufferSize)
       \/ \E r \in peak : peak = {r} /\ \A n \in ToSet(job.names) :
            ResolveKey(n).mods \subseteq r.mods /\ ResolveKey(n).keys \subseteq r.keys

(* Texts and combinations arrive as they were given, or not at all.        *)
KeymapInv == KeymapTypeOK /\ TextArrives /\ ComboArrives

=============================================================================
