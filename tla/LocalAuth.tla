----------------------------- MODULE LocalAuth -----------------------------
(***************************************************************************)
(* Setting up, logging in and changing the local password (web/auth.rs,     *)
(* web/device.rs, middleware.rs).  A handler reads the configuration, checks *)
(* it, verifies a password against the configuration as it is by then, and   *)
(* then makes one ConfigManager::update per field: each is atomic, but other *)
(* handlers run in between, and the save of an update may fail after memory  *)
(* was changed.                                                              *)
(***************************************************************************)
EXTENDS Naturals, Sequences, FiniteSets

CONSTANTS
  AuthRequests,    \* HTTP requests
  Passwords,
  MaxAuthActive,   \* bound on requests handled at once
  MaxAuthFaults    \* bound on failing saves

ASSUME AuthAssumption ==
  MaxAuthActive \in Nat /\ MaxAuthFaults \in Nat /\ "none" \notin Passwords \cup AuthRequests

VARIABLES
  authMode,      \* Config.local_auth_mode: "unset", "password" or "noPassword"
  authHash,      \* Config.hashed_password, as the password it verifies, or "none"
  authToken,     \* Config.local_auth_token, named by the request that made it, or "none"
  authPc, authKind, authArg,
  authTodo,      \* the updates a request has still to make: pairs <<field, value>>
  authUpsets,        \* what happened that a careful user would not do or meet
  authFaults

authVars == <<authMode, authHash, authToken, authPc, authKind, authArg, authTodo, authUpsets, authFaults>>

AuthEnded == {"new", "done", "refused", "failed"}
AuthActive == {r \in AuthRequests : authPc[r] \notin AuthEnded}
AuthGoto(r, pc) == authPc' = [authPc EXCEPT ![r] = pc]

AuthTypeOK ==
  /\ authMode \in {"unset", "password", "noPassword"}
  /\ authHash \in Passwords \cup {"none"} /\ authToken \in AuthRequests \cup {"none"}
  /\ authPc \in [AuthRequests -> AuthEnded \cup {"verify", "write", "recheck"}]

AuthInit ==
  /\ authMode = "unset" /\ authHash = "none" /\ authToken = "none"
  /\ authPc = [r \in AuthRequests |-> "new"]
  /\ authKind = [r \in AuthRequests |-> "none"] /\ authArg = [r \in AuthRequests |-> "none"]
  /\ authTodo = [r \in AuthRequests |-> << >>] /\ authUpsets = {} /\ authFaults = 0

\* auth_middleware on a request that presents cookie (or none); API bearer tokens are left out.
Authorized(cookie) == authMode = "noPassword" \/ (authToken # "none" /\ cookie = authToken)

\* The checks each handler makes on the configuration it read first.
MayBegin(kind) ==
  CASE kind \in {"setup", "setupOpen", "setupEmpty"} -> authMode = "unset" /\ authHash = "none"
    [] kind = "login" -> authMode # "noPassword"
    [] kind = "logout" -> TRUE
    [] kind = "create" -> authHash = "none" /\ authMode = "noPassword"
    [] kind \in {"modify", "disable"} -> authHash # "none" /\ authMode = "password"

\* Mutant: turning the password off forgets to delete it.
DisableKeepsHash == <<<<"token", "none">>, <<"mode", "noPassword">>>>
DisableUpdates == <<<<"hash", "none">>, <<"token", "none">>, <<"mode", "noPassword">>>>

\* The updates each handler makes, in order; "setupEmpty" names password mode without a password
\* and is refused after its first update.
Updates(r, kind, new) ==
  CASE kind = "setup" -> <<<<"mode", "password">>, <<"hash", new>>, <<"token", r>>>>
    [] kind = "setupOpen" -> <<<<"mode", "noPassword">>, <<"hash", "none">>, <<"token", "none">>>>
    [] kind = "setupEmpty" -> <<<<"mode", "password">>>>
    [] kind = "login" -> <<<<"token", r>>>>
    [] kind = "logout" -> <<<<"token", "none">>>>
    [] kind = "create" -> <<<<"hash", new>>, <<"token", r>>, <<"mode", "password">>>>
    [] kind = "modify" -> <<<<"hash", new>>, <<"token", r>>>>
    [] kind = "disable" -> DisableUpdates

Verifies == {"login", "modify", "disable"}
Public == {"setup", "setupOpen", "setupEmpty", "login"}
Kinds == Public \cup {"logout", "create", "modify", "disable"}

BeginAuth(r, kind, cookie, old, new) ==
  /\ authPc[r] = "new" /\ Cardinality(AuthActive) < MaxAuthActive
  /\ authKind' = [authKind EXCEPT ![r] = kind] /\ authArg' = [authArg EXCEPT ![r] = old]
  /\ IF MayBegin(kind) /\ (kind \in Public \/ Authorized(cookie))
     THEN /\ AuthGoto(r, IF kind \in Verifies THEN "verify" ELSE "write")
          /\ authTodo' = [authTodo EXCEPT ![r] = Updates(r, kind, new)]
     ELSE AuthGoto(r, "refused") /\ UNCHANGED authTodo
  /\ authUpsets' = authUpsets \cup (IF AuthActive # {} THEN {"overlap"} ELSE {})
  /\ UNCHANGED <<authMode, authHash, authToken, authFaults>>

\* validate_password reads the configuration again.
VerifyPassword(r) ==
  /\ authPc[r] = "verify"
  /\ AuthGoto(r, IF authHash # "none" /\ authHash = authArg[r] THEN "write" ELSE "refused")
  /\ UNCHANGED <<authMode, authHash, authToken, authKind, authArg, authTodo, authUpsets, authFaults>>

\* Where a handler goes when its updates are made.
AfterUpdates(kind) ==
  CASE kind = "login" -> "recheck" [] kind = "setupEmpty" -> "refused" [] OTHER -> "done"

\* One ConfigManager::update: memory changes, then the save works or the handler returns its error.
ApplyUpdate(r) ==
  /\ authPc[r] = "write"
  /\ LET u == Head(authTodo[r]) IN
     /\ authMode' = IF u[1] = "mode" THEN u[2] ELSE authMode
     /\ authHash' = IF u[1] = "hash" THEN u[2] ELSE authHash
     /\ authToken' = IF u[1] = "token" THEN u[2] ELSE authToken
  /\ authTodo' = [authTodo EXCEPT ![r] = Tail(@)]
  /\ \/ /\ AuthGoto(r, IF authTodo'[r] = << >> THEN AfterUpdates(authKind[r]) ELSE "write")
        /\ authUpsets' = authUpsets \cup (IF authKind[r] = "setupEmpty" THEN {"setupEmpty"} ELSE {})
        /\ UNCHANGED authFaults
     \/ /\ authFaults < MaxAuthFaults /\ authFaults' = authFaults + 1
        /\ AuthGoto(r, "failed") /\ authUpsets' = authUpsets \cup {"saveError"}
  /\ UNCHANGED <<authKind, authArg>>

\* Mutant: the cookie is handed out without reading the token back.
RecheckNothing(r) ==
  /\ authPc[r] = "recheck" /\ AuthGoto(r, "done")
  /\ UNCHANGED <<authMode, authHash, authToken, authKind, authArg, authTodo, authUpsets, authFaults>>

\* handle_login_local reads its token back before it hands out the cookie.
RecheckLogin(r) ==
  /\ authPc[r] = "recheck"
  /\ AuthGoto(r, IF authToken = r THEN "done" ELSE "failed")
  /\ UNCHANGED <<authMode, authHash, authToken, authKind, authArg, authTodo, authUpsets, authFaults>>

AuthNext ==
  \E r \in AuthRequests :
    \/ \E kind \in Kinds, cookie \in {authToken, "none"}, old, new \in Passwords :
         BeginAuth(r, kind, cookie, old, new)
    \/ VerifyPassword(r) \/ ApplyUpdate(r) \/ RecheckLogin(r)

\* When no handler is under way, password mode and a stored password go together, so that the
\* owner can log in or set the password up: unless handlers overlapped, a save failed or the
\* set-up was asked for password mode without a password.
ModeAgreesWithPassword ==
  (AuthActive = {} /\ authUpsets = {}) => ((authMode = "password") <=> (authHash # "none"))

\* A login that answers success hands out the token that is stored, whatever logins, logouts and
\* password changes overlap with it.
LoginCookieWorks ==
  [][\A r \in AuthRequests :
       (authKind[r] = "login" /\ authPc[r] # "done" /\ authPc'[r] = "done") => authToken' = r]_authVars

\* The stored authentication is one that somebody can use.
AuthInv == AuthTypeOK /\ ModeAgreesWithPassword

=============================================================================
