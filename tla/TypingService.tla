--------------------------- MODULE TypingService ---------------------------
(***************************************************************************)
(* What callers of the macro lane may rely on, said without the lane, its   *)
(* tokens and its epochs (HidMacro).  One macro types at a time, its steps  *)
(* in order and each of them once; a macro that is reported complete has    *)
(* typed all of them; it is given up only if a cancel request or the close  *)
(* of a browser's channel came after it was submitted, or the HID failed    *)
(* under it.  Once a cancel request has returned, nothing that was          *)
(* submitted before the request begins or goes on typing.                   *)
(***************************************************************************)
EXTENDS Naturals

CONSTANTS
    Macros, Cancellers,
    Length,        \* Length[m]: how many steps macro m has
    Failures       \* whether the HID may fail

VARIABLES
    phase,         \* "new", "queued", "typing", "completed" or "dropped"
    typed,         \* typed[m]: how many steps of m were typed
    fromBrowser,   \* whether m was submitted over a browser's data channel
    stopped,       \* macros that a request or a close may end
    request,       \* "new", "asked" or "returned"
    covers         \* covers[c]: what was submitted when request c was made

serviceVars == <<phase, typed, fromBrowser, stopped, request, covers>>

ServiceInit ==
    /\ phase = [m \in Macros |-> "new"]
    /\ typed = [m \in Macros |-> 0]
    /\ fromBrowser = [m \in Macros |-> FALSE]
    /\ stopped = {}
    /\ request = [c \in Cancellers |-> "new"]
    /\ covers = [c \in Cancellers |-> {}]

Submitted == {m \in Macros : phase[m] # "new"}
Typist    == {m \in Macros : phase[m] = "typing"}

Submit(m, browser) ==
    /\ phase[m] = "new"
    /\ phase' = [phase EXCEPT ![m] = "queued"]
    /\ fromBrowser' = [fromBrowser EXCEPT ![m] = browser]
    /\ UNCHANGED <<typed, stopped, request, covers>>

\* Nobody else is typing, and nobody was promised that m will not.
Begin(m) ==
    /\ phase[m] = "queued"
    /\ Typist = {}
    /\ \A c \in Cancellers : request[c] = "returned" => m \notin covers[c]
    /\ phase' = [phase EXCEPT ![m] = "typing"]
    /\ UNCHANGED <<typed, fromBrowser, stopped, request, covers>>

TypeStep(m) ==
    /\ phase[m] = "typing" /\ typed[m] < Length[m]
    /\ typed' = [typed EXCEPT ![m] = @ + 1]
    /\ UNCHANGED <<phase, fromBrowser, stopped, request, covers>>

Complete(m) ==
    /\ phase[m] = "typing" /\ typed[m] = Length[m]
    /\ phase' = [phase EXCEPT ![m] = "completed"]
    /\ UNCHANGED <<typed, fromBrowser, stopped, request, covers>>

Drop(m) ==
    /\ phase[m] \in {"queued", "typing"}
    /\ m \in stopped \/ (Failures /\ phase[m] = "typing")
    /\ phase' = [phase EXCEPT ![m] = "dropped"]
    /\ UNCHANGED <<typed, fromBrowser, stopped, request, covers>>

Ask(c) ==
    /\ request[c] = "new"
    /\ request' = [request EXCEPT ![c] = "asked"]
    /\ covers' = [covers EXCEPT ![c] = Submitted]
    /\ stopped' = Submitted
    /\ UNCHANGED <<phase, typed, fromBrowser>>

\* A request that is under way may also end a macro submitted after it.
Reach(c) ==
    /\ request[c] = "asked"
    /\ stopped' = stopped \cup Typist
    /\ UNCHANGED <<phase, typed, fromBrowser, request, covers>>

Return(c) ==
    /\ request[c] = "asked"
    /\ Typist \cap covers[c] = {}
    /\ request' = [request EXCEPT ![c] = "returned"]
    /\ UNCHANGED <<phase, typed, fromBrowser, stopped, covers>>

\* A browser leaves: what browsers submitted may end, what the RPC API submitted may not.
BrowserLeaves ==
    /\ stopped' = stopped \cup {m \in Submitted : fromBrowser[m]}
    /\ UNCHANGED <<phase, typed, fromBrowser, request, covers>>

ServiceNext ==
    \/ \E m \in Macros : \/ Begin(m) \/ TypeStep(m) \/ Complete(m) \/ Drop(m)
                         \/ \E browser \in BOOLEAN : Submit(m, browser)
    \/ \E c \in Cancellers : Ask(c) \/ Reach(c) \/ Return(c)
    \/ BrowserLeaves

ServiceSafety == ServiceInit /\ [][ServiceNext]_serviceVars

=============================================================================
