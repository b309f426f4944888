------------------------------- MODULE Access -------------------------------
(***************************************************************************)
(* Logging in (web/auth.rs): the rate limiter of the address and the        *)
(* handlers of the password, each with its own state; handle_login_local    *)
(* asks the one before and tells it after what the other decides.           *)
(***************************************************************************)
EXTENDS RateLimit, LocalAuth

RateSpec == RateInit /\ [][RateNext]_rateVars
AuthSpec == AuthInit /\ [][AuthNext]_authVars

\* What an answer says is true and stays true: a login's cookie is the stored token, whatever
\* overlaps with it, and a lock-out lasts as long as its Retry-After announced.
AnswersAreTrue == LoginCookieWorks /\ LockRunsItsTime

=============================================================================
