------------------------------- MODULE Relock -------------------------------
(***************************************************************************)
(* The relock watch of the HDMI receiver.  The kernel keeps one pending      *)
(* source-change event; a thread counts them into an atomic; every          *)
(* supervisor tick takes the count, RelockWatch::observe judges it, and a    *)
(* storm is answered by dropping and raising hot-plug detect.               *)
(* Times are ages in supervisor ticks, so behaviours have no end.           *)
(***************************************************************************)
EXTENDS Integers, Sequences, FiniteSetsExt

CONSTANTS
  Window, Threshold, Settle,   \* WINDOW, THRESHOLD and SETTLE, the times in ticks
  BackoffBase, BackoffMax,     \* 30 s and 600 s in ticks
  MaxPerTick,                  \* bound on events the thread counts between two ticks
  MaxHpdFaults                 \* bound on failed writes of the hot-plug node in a pulse

ASSUME RelockAssumption ==
  /\ {Window, Threshold, Settle, BackoffBase, BackoffMax, MaxPerTick} \subseteq Nat \ {0}
  /\ MaxHpdFaults \in Nat /\ BackoffBase <= BackoffMax

HpdRetries == 5
Forever == -1                     \* no replug is remembered
Horizon == IF Settle > BackoffMax THEN Settle ELSE BackoffMax
MaxAttempts == 7                  \* the counter is cut off past the saturated exponent

VARIABLES
  pendingEvent, counted, arrived, \* the kernel's event, the atomic, events since the last tick
  storming,                       \* the receiver is in the relock loop
  recent,                         \* VecDeque of [age, n], oldest first
  lastReplug,                     \* age of last_replug, up to Horizon, or Forever
  attempts,
  pulse,                          \* pulse_hotplug: "idle", or which write comes next, "off" or "on"
  hpd,                            \* hot-plug detect is raised
  hpdFaults,                      \* failed writes that would have raised it in the last pulse that lowered it
  sinceReplug, realAge,           \* ghosts: events judged since, and age of, the last replug of all
  verdict                         \* of the last tick
relockVars == <<pendingEvent, counted, arrived, storming, recent, lastReplug, attempts, pulse, hpd,
                hpdFaults, sinceReplug, realAge, verdict>>

RelockTypeOK ==
  /\ counted \in 0..MaxPerTick /\ arrived \in 0..MaxPerTick /\ attempts \in 0..MaxAttempts
  /\ lastReplug \in {Forever} \cup 0..Horizon /\ verdict \in {"quiet", "storm", "replug"}
  /\ \A i \in 1..Len(recent) : recent[i].age \in 0..Window /\ recent[i].n \in 1..MaxPerTick
  /\ hpd \in BOOLEAN /\ hpdFaults \in 0..MaxHpdFaults

RelockInit ==
  /\ pendingEvent = FALSE /\ counted = 0 /\ arrived = 0 /\ storming = FALSE
  /\ recent = << >> /\ lastReplug = Forever /\ attempts = 0
  /\ pulse = "idle" /\ hpd = TRUE /\ hpdFaults = 0
  /\ sinceReplug = 0 /\ realAge = Horizon /\ verdict = "quiet"

Older(age) == IF age = Forever THEN Forever ELSE Min({age + 1, Horizon})
\* The events of the window one by one, the k-th of entry i as <<i, k>>, and their number.
EventsIn(q) == UNION {{i} \X (1..q[i].n) : i \in 1..Len(q)}
Total(q) == Cardinality(EventsIn(q))

\* 30 s, doubled per attempt with the exponent cut at 5, at most 600 s.
Backoff(n) == Min({BackoffBase * 2^Min({n, 5}), BackoffMax})

-----------------------------------------------------------------------------
\* The receiver: a storm raises an event in every tick, a healthy input now and then.
SourceChange ==
  /\ arrived < MaxPerTick /\ arrived' = arrived + 1 /\ pendingEvent' = TRUE
  /\ UNCHANGED <<counted, storming, recent, lastReplug, attempts, pulse, hpd, hpdFaults, sinceReplug, realAge, verdict>>

StormChanges ==
  /\ storming' = ~storming
  /\ UNCHANGED <<pendingEvent, counted, arrived, recent, lastReplug, attempts, pulse, hpd, hpdFaults, sinceReplug, realAge, verdict>>

\* spawn_relock_counter: take_source_changes finds the one pending event.
CountEvent ==
  /\ pendingEvent /\ pendingEvent' = FALSE /\ counted' = Min({counted + 1, MaxPerTick})
  /\ UNCHANGED <<arrived, storming, recent, lastReplug, attempts, pulse, hpd, hpdFaults, sinceReplug, realAge, verdict>>

\* observe: the window slides (the oldest entries go, up to the first that is inside it), then quiet,
\* storm or replug.  Event ages grow with the tick.
Slide(q, events) ==
  LET aged == [i \in 1..Len(q) |-> [q[i] EXCEPT !.age = @ + 1]]
      all  == IF events > 0 THEN Append(aged, [age |-> 0, n |-> events]) ELSE aged
      kept == {i \in 1..Len(all) : all[i].age <= Window}
  IN  IF kept = {} THEN << >> ELSE SubSeq(all, Min(kept), Len(all))

\* Mutant: a storm is answered at once, whenever the last replug was.
DueAlways(age, n) == TRUE

Due(age, n) == n = 0 \/ age = Forever \/ age >= Backoff(n - 1)

\* check_relock on a supervisor tick, which a replug in progress delays.
SupervisorObserves ==
  LET q     == Slide(recent, counted)
      age   == Older(lastReplug)
      since == Min({sinceReplug + counted, Threshold})
      storm == Total(q) >= Threshold
      due   == storm /\ Due(age, attempts)
      over  == ~storm /\ age # Forever /\ age >= Settle
  IN  /\ pulse = "idle" /\ (storming => arrived > 0 /\ ~pendingEvent)
      /\ counted' = 0 /\ arrived' = 0
      /\ recent' = IF due THEN << >> ELSE q
      /\ lastReplug' = IF due THEN 0 ELSE IF over THEN Forever ELSE age
      /\ attempts' = IF due THEN Min({attempts + 1, MaxAttempts}) ELSE IF over THEN 0 ELSE attempts
      /\ verdict' = IF due THEN "replug" ELSE IF storm THEN "storm" ELSE "quiet"
      /\ pulse' = IF due THEN "off" ELSE "idle"
      /\ sinceReplug' = IF due THEN 0 ELSE since
      /\ realAge' = IF due THEN 0 ELSE Older(realAge)
      /\ UNCHANGED <<pendingEvent, storming, hpd, hpdFaults>>

\* pulse_hotplug: off, two seconds low, then on with five attempts.
PulseOff ==
  /\ pulse = "off"
  /\ \/ hpd' = FALSE /\ hpdFaults' = 0 /\ pulse' = "on"
     \/ MaxHpdFaults > 0 /\ pulse' = "idle" /\ UNCHANGED <<hpd, hpdFaults>>
  /\ UNCHANGED <<pendingEvent, counted, arrived, storming, recent, lastReplug, attempts, sinceReplug, realAge, verdict>>

\* Mutant: hot-plug detect is raised with one attempt.
PulseOnOnce ==
  /\ pulse = "on" /\ pulse' = "idle"
  /\ \/ hpd' = TRUE /\ UNCHANGED hpdFaults
     \/ hpdFaults < MaxHpdFaults /\ hpdFaults' = hpdFaults + 1 /\ UNCHANGED hpd
  /\ UNCHANGED <<pendingEvent, counted, arrived, storming, recent, lastReplug, attempts, sinceReplug, realAge, verdict>>

PulseOn ==
  /\ pulse = "on"
  /\ \/ hpd' = TRUE /\ pulse' = "idle" /\ UNCHANGED hpdFaults
     \/ /\ hpdFaults < MaxHpdFaults /\ hpdFaults' = hpdFaults + 1 /\ UNCHANGED hpd
        /\ pulse' = IF hpdFaults' = HpdRetries THEN "idle" ELSE "on"
  /\ UNCHANGED <<pendingEvent, counted, arrived, storming, recent, lastReplug, attempts, sinceReplug, realAge, verdict>>

RelockNext == SourceChange \/ StormChanges \/ CountEvent \/ SupervisorObserves \/ PulseOff \/ PulseOn

\* The interval, the counting thread and the blocking pulse run; a storm brings its event each tick.
RelockFairness ==
  /\ WF_relockVars(SupervisorObserves) /\ WF_relockVars(CountEvent)
  /\ WF_relockVars(PulseOff) /\ WF_relockVars(PulseOn) /\ WF_relockVars(storming /\ SourceChange)

-----------------------------------------------------------------------------
Replugs == verdict' = "replug" /\ pulse' = "off" /\ pulse # "off"

\* Every replug is justified by a storm of its own: at least Threshold events were counted after the
\* replug before it, so the disturbance a replug causes is never answered by the next one.
ReplugNeedsOwnStorm == [][Replugs => sinceReplug + counted >= Threshold]_relockVars

\* Replugs never come closer together than the backoff of the episode or, when a lull of Settle after
\* the last replug has reset the episode, than Settle.  The host is not unplugged in a tight loop.
ReplugsSpaced ==
  [][Replugs => \/ attempts' = 1 /\ (realAge + 1 >= Settle \/ realAge = Horizon)
                \/ attempts' > 1 /\ realAge + 1 >= Backoff(attempts' - 2)]_relockVars

\* "HPD is always raised again": it is low between pulses only if all five attempts to raise it
\* failed, however the writes of the pulses that followed went.
HpdRaisedAgain == pulse = "idle" => hpd \/ hpdFaults = HpdRetries

\* A receiver that stays in the relock loop is replugged again and again, whatever the backoff.
StormIsReplugged == (<>[]storming) => []<>(verdict = "replug")

\* Hot-plug detect is up between pulses.
RelockInv == RelockTypeOK /\ HpdRaisedAgain

\* A replug has a storm of its own behind it and keeps its distance from the one before.
ReplugsAreRare == ReplugNeedsOwnStorm /\ ReplugsSpaced

=============================================================================
