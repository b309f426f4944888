----------------------------- MODULE RateLimit -----------------------------
(***************************************************************************)
(* The login rate limiter (web/ratelimit.rs) for one address: is_allowed    *)
(* before a password is verified, record_failure or record_success after,   *)
(* with other attempts in between, and the periodic cleanup of entries.     *)
(* Times are whole ticks; a window and a lock last BaseWindow ticks, doubled *)
(* per back-off level.                                                      *)
(***************************************************************************)
EXTENDS Integers, Sequences, FiniteSets

CONSTANTS
  MaxFailures,      \* MAX_ATTEMPTS
  BaseWindow,       \* BASE_WINDOW
  MaxLevel,         \* MAX_BACKOFF_LEVEL
  CleanupInterval,  \* CLEANUP_INTERVAL
  MaxInFlight,      \* bound on attempts being verified at once
  MaxNow, MaxRecorded  \* bounds on the clock and on recorded failures

ASSUME RateAssumption ==
  /\ {BaseWindow, CleanupInterval, MaxInFlight} \subseteq Nat \ {0} /\ MaxFailures \in Nat \ {0, 1}
  /\ MaxLevel \in Nat /\ MaxNow \in Nat /\ MaxRecorded \in Nat

\* A fact of arithmetic that the provers do not know.
ASSUME PowersAssumption == \A n \in 0..MaxLevel : 2^n \in Nat \ {0}

VARIABLES
  now,
  entry,        \* the Entry of the address, or NoEntry
  lastCleanup,  \* State.last_cleanup, or Never
  inFlight,     \* attempts admitted and being verified
  failures,     \* times of the recorded failures since the last success
  promise       \* when Retry-After said the next attempt would be admitted, or Never

rateVars == <<now, entry, lastCleanup, inFlight, failures, promise>>

Never == -1
NoEntry == [attempts |-> 0, start |-> Never, level |-> 0, until |-> Never]

WindowDuration(level) == BaseWindow * 2^(IF level < MaxLevel THEN level ELSE MaxLevel)
Locked(e) == e # NoEntry /\ e.until # Never /\ now < e.until
WindowOver(e) == now - e.start > WindowDuration(e.level)

RateTypeOK ==
  /\ now \in 0..MaxNow /\ inFlight \in 0..MaxInFlight
  /\ entry.level \in 0..MaxLevel /\ Len(failures) <= MaxRecorded

RateInit ==
  /\ now = 0 /\ entry = NoEntry /\ lastCleanup = Never /\ inFlight = 0
  /\ failures = << >> /\ promise = Never

\* maybe_cleanup drops an entry that is neither locked nor in its window.
CleanupDue == lastCleanup = Never \/ now - lastCleanup >= CleanupInterval
Kept(e) == e # NoEntry /\ (Locked(e) \/ ~WindowOver(e))
AfterCleanup == IF CleanupDue /\ ~Kept(entry) THEN NoEntry ELSE entry
Cleanup == lastCleanup' = IF CleanupDue THEN now ELSE lastCleanup

\* is_allowed admits the attempt, or refuses it with a Retry-After.
Admit ==
  /\ inFlight < MaxInFlight /\ ~Locked(entry)
  /\ Cleanup /\ entry' = AfterCleanup
  /\ inFlight' = inFlight + 1
  /\ UNCHANGED <<now, failures, promise>>

Refuse ==
  /\ Locked(entry)
  /\ Cleanup /\ entry' = AfterCleanup
  /\ promise' = now + (entry.until - now) + 1
  /\ UNCHANGED <<now, inFlight, failures>>

\* Mutant: the failure at hand is not counted before the comparison.
FailedLate(e) ==
  IF WindowOver(e)
  THEN [attempts |-> 1, start |-> now, until |-> Never,
        level |-> IF (e.level > 0 \/ e.attempts >= MaxFailures) /\ e.level < MaxLevel
                  THEN e.level + 1 ELSE e.level]
  ELSE [e EXCEPT !.attempts = @ + 1,
                 !.until = IF e.attempts >= MaxFailures THEN now + WindowDuration(e.level) ELSE @]

\* record_failure on the entry of the address, a new one if there is none.
Failed(e) ==
  IF WindowOver(e)
  THEN [attempts |-> 1, start |-> now, until |-> Never,
        level |-> IF (e.level > 0 \/ e.attempts >= MaxFailures) /\ e.level < MaxLevel
                  THEN e.level + 1 ELSE e.level]
  ELSE [e EXCEPT !.attempts = @ + 1,
                 !.until = IF e.attempts + 1 >= MaxFailures THEN now + WindowDuration(e.level) ELSE @]

RecordFailure ==
  /\ inFlight > 0 /\ inFlight' = inFlight - 1
  /\ Len(failures) < MaxRecorded
  /\ failures' = Append(failures, now)
  /\ Cleanup
  /\ entry' = Failed(IF AfterCleanup = NoEntry THEN [NoEntry EXCEPT !.start = now] ELSE AfterCleanup)
  /\ promise' = Never
  /\ UNCHANGED now

RecordSuccess ==
  /\ inFlight > 0 /\ inFlight' = inFlight - 1
  /\ entry' = NoEntry /\ failures' = << >> /\ promise' = Never
  /\ UNCHANGED <<now, lastCleanup>>

Tick ==
  /\ now < MaxNow /\ now' = now + 1
  /\ UNCHANGED <<entry, lastCleanup, inFlight, failures, promise>>

RateNext == Admit \/ Refuse \/ RecordFailure \/ RecordSuccess \/ Tick

\* Fixed windows, locks, cleanups and attempts that were admitted before a lock together never
\* let more failures through in one base window than the ends of two windows hold: each window
\* all its failures but the first, and the attempts that were in flight when it locked.
FailuresBounded ==
  \A i \in 1..Len(failures) :
    Cardinality({j \in i..Len(failures) : failures[j] - failures[i] < BaseWindow})
      <= 2 * (MaxFailures - 1) + 2 * (MaxInFlight - 1)

\* Once the time given in Retry-After has passed and nothing failed since, an attempt is admitted.
RetryAfterIsEnough == (promise # Never /\ now >= promise) => ~Locked(entry)

\* As long as the window of a locked entry is not over when a straggler fails, no failure and no
\* cleanup ends a lock early: only its time or a success does.
LockRunsItsTime ==
  [][(Locked(entry) /\ ~WindowOver(entry) /\ failures' # << >>) => entry'.until # Never /\ entry'.until >= entry.until]_rateVars

\* What the limiter promises at every moment, to the device and to the user.
RateInv == RateTypeOK /\ FailuresBounded /\ RetryAfterIsEnough

=============================================================================
