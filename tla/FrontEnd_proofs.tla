-------------------------- MODULE FrontEnd_proofs --------------------------
(***************************************************************************)
(* Proofs about the device as its users meet it: the handlers of the        *)
(* password, the login rate limiter, the controls of the settings page,     *)
(* keyboard and mouse input, the conversion of numbers in calls, what MQTT  *)
(* leaves on the broker, and text and combinations as key strokes, for any  *)
(* number of requests, logins, failures, controls, clicks, keys, reports,   *)
(* lost messages and characters and any width of the integers.              *)
(***************************************************************************)
EXTENDS MCFrontEnd, FiniteSetTheorems, SequenceTheorems, TLAPS

-----------------------------------------------------------------------------
(* The handlers of the password *)

FieldUpdates ==
  ({"mode"} \X {"password", "noPassword"}) \cup ({"hash"} \X (Passwords \cup {"none"}))
    \cup ({"token"} \X (AuthRequests \cup {"none"}))

AuthTypes ==
  /\ AuthTypeOK
  /\ authKind \in [AuthRequests -> Kinds \cup {"none"}]
  /\ authTodo \in [AuthRequests -> Seq(FieldUpdates)]
  /\ \A r \in AuthRequests : authPc[r] # "new" => authKind[r] \in Kinds
  /\ \A r \in AuthRequests : authPc[r] \in {"verify", "write"} => authTodo[r] # << >>

Goes(mode1, hash) == (mode1 = "password") <=> (hash # "none")
Agree == Goes(authMode, authHash)

\* The configuration that a handler of kind k goes on with, once it has read and checked it.
Fits(k, mode1, hash) ==
  /\ Goes(mode1, hash)
  /\ k \in {"setup", "setupOpen"} => mode1 = "unset" /\ hash = "none"
  /\ k = "create" => mode1 = "noPassword" /\ hash = "none"
  /\ k = "modify" => mode1 = "password"
\* One update u makes mode2 and hash2 of mode1 and hash.
Writes(u, mode1, hash, mode2, hash2) ==
  /\ mode2 = IF u[1] = "mode" THEN u[2] ELSE mode1
  /\ hash2 = IF u[1] = "hash" THEN u[2] ELSE hash

\* The handler of r has changed nothing yet.
AtStart(r) == \E new \in Passwords : authTodo[r] = Updates(r, authKind[r], new) /\ Agree /\ MayBegin(authKind[r])

\* What is stored while a handler of kind k has the updates t still to make, and has made some.
Half(r, k, t, new, mode1, hash) ==
  \/ /\ k = "setup" /\ mode1 = "password"
     /\ t = <<<<"hash", new>>, <<"token", r>>>> \/ (t = <<<<"token", r>>>> /\ hash # "none")
  \/ /\ k = "setupOpen" /\ mode1 = "noPassword" /\ hash = "none"
     /\ t = <<<<"hash", "none">>, <<"token", "none">>>> \/ t = <<<<"token", "none">>>>
  \/ /\ k = "create" /\ mode1 = "noPassword" /\ hash # "none"
     /\ t = <<<<"token", r>>, <<"mode", "password">>>> \/ t = <<<<"mode", "password">>>>
  \/ k = "modify" /\ Goes(mode1, hash) /\ t = <<<<"token", r>>>>
  \/ /\ k = "disable" /\ hash = "none"
     /\ t = <<<<"token", "none">>, <<"mode", "noPassword">>>> \/ t = <<<<"mode", "noPassword">>>>
Midway(r) == \E new \in Passwords : Half(r, authKind[r], authTodo[r], new, authMode, authHash)

\* Handlers one after the other, whose saves work: one is under way at most, and it has changed
\* nothing, is midway, or has made its updates and reads its token back.
OneHandler ==
  authUpsets = {} =>
    /\ \A r, s \in AuthActive : r = s
    /\ AuthActive = {} => Agree
    /\ \A r \in AuthActive : /\ authPc[r] = "recheck" => Agree
                             /\ authPc[r] = "verify" => AtStart(r)
                             /\ authPc[r] = "write" => AtStart(r) \/ Midway(r)

AuthIInv == AuthTypes /\ OneHandler

\* Taking the first of one, two or three updates.
LEMMA FirstOfFew ==
  ASSUME NEW a, NEW b, NEW c
  PROVE  /\ Head(<<a>>) = a /\ Tail(<<a>>) = << >> /\ <<a>> # << >>
         /\ Head(<<a, b>>) = a /\ Tail(<<a, b>>) = <<b>> /\ <<a, b>> # << >>
         /\ Head(<<a, b, c>>) = a /\ Tail(<<a, b, c>>) = <<b, c>> /\ <<a, b, c>> # << >>
OBVIOUS

\* The updates of a handler are updates of the three fields, and there is one at least.
LEMMA UpdatesTyped ==
  ASSUME NEW r \in AuthRequests, NEW kind \in Kinds, NEW new \in Passwords
  PROVE  Updates(r, kind, new) \in Seq(FieldUpdates) /\ Updates(r, kind, new) # << >>
<1>1. \A x \in {"password", "noPassword"} : <<"mode", x>> \in FieldUpdates
  BY DEF FieldUpdates
<1>2. \A x \in Passwords \cup {"none"} : <<"hash", x>> \in FieldUpdates
  BY DEF FieldUpdates
<1>3. \A x \in AuthRequests \cup {"none"} : <<"token", x>> \in FieldUpdates
  BY DEF FieldUpdates
<1> USE DEF Updates
<1>4. CASE kind = "setup"
  BY <1>1, <1>2, <1>3, <1>4
<1>5. CASE kind = "setupOpen"
  BY <1>1, <1>2, <1>3, <1>5
<1>6. CASE kind = "setupEmpty"
  BY <1>1, <1>6
<1>7. CASE kind = "login"
  BY <1>3, <1>7
<1>8. CASE kind = "logout"
  BY <1>3, <1>8
<1>9. CASE kind = "create"
  BY <1>1, <1>2, <1>3, <1>9
<1>10. CASE kind = "modify"
  BY <1>2, <1>3, <1>10
<1>11. CASE kind = "disable"
  BY <1>1, <1>2, <1>3, <1>11 DEF DisableUpdates
<1> QED BY <1>4, <1>5, <1>6, <1>7, <1>8, <1>9, <1>10, <1>11 DEF Kinds, Public

\* Before the first request.
LEMMA AuthInitially == AuthInit => AuthIInv
<1> SUFFICES ASSUME AuthInit PROVE AuthIInv
  OBVIOUS
<1>1. AuthTypes
  BY DEF AuthInit, AuthTypes, AuthTypeOK, AuthEnded
<1>2. AuthActive = {} /\ Agree
  BY DEF AuthInit, AuthActive, AuthEnded, Agree, Goes
<1>3. OneHandler
  BY <1>2 DEF OneHandler
<1> QED BY <1>1, <1>3 DEF AuthIInv

\* A request arrives and is refused, or begins on the configuration it has read.
LEMMA BeginStep ==
  ASSUME AuthIInv, NEW r \in AuthRequests, NEW kind \in Kinds, NEW cookie, NEW old \in Passwords, NEW new \in Passwords,
         BeginAuth(r, kind, cookie, old, new)
  PROVE  AuthIInv'
<1>0. AuthTypes /\ OneHandler /\ AuthTypeOK /\ authPc[r] = "new" /\ UNCHANGED <<authMode, authHash, authToken>>
  BY DEF AuthIInv, AuthTypes, BeginAuth
<1>1. PICK pc \in {"refused", "verify", "write"} :
        /\ authPc' = [authPc EXCEPT ![r] = pc] /\ authKind' = [authKind EXCEPT ![r] = kind]
        /\ pc # "refused" => MayBegin(kind) /\ authTodo' = [authTodo EXCEPT ![r] = Updates(r, kind, new)]
        /\ pc = "refused" => UNCHANGED authTodo
  BY DEF BeginAuth, AuthGoto
<1>2. Updates(r, kind, new) \in Seq(FieldUpdates) /\ Updates(r, kind, new) # << >>
  BY UpdatesTyped
<1>3. /\ authPc' \in [AuthRequests -> AuthEnded \cup {"verify", "write", "recheck"}] /\ authPc'[r] = pc
      /\ authKind' \in [AuthRequests -> Kinds \cup {"none"}] /\ authKind'[r] = kind
      /\ authTodo' \in [AuthRequests -> Seq(FieldUpdates)]
      /\ pc # "refused" => authTodo'[r] = Updates(r, kind, new)
      /\ \A s \in AuthRequests \ {r} : authPc'[s] = authPc[s] /\ authKind'[s] = authKind[s] /\ authTodo'[s] = authTodo[s]
  BY <1>0, <1>1, <1>2 DEF AuthTypes, AuthTypeOK, AuthEnded
<1>4. AuthTypes'
  BY <1>0, <1>1, <1>2, <1>3 DEF AuthTypes, AuthTypeOK
<1>5. OneHandler'
  <2>1. SUFFICES ASSUME authUpsets' = {} PROVE OneHandler'
    BY DEF OneHandler
  <2>2. authUpsets = {} /\ AuthActive = {} /\ Agree
    BY <1>0, <2>1 DEF BeginAuth, OneHandler
  <2>3. AuthActive' = IF pc = "refused" THEN {} ELSE {r}
    BY <1>1, <1>3, <2>2 DEF AuthActive, AuthEnded
  <2>4. Agree'
    BY <1>0, <2>2 DEF Agree, Goes
  <2>5. CASE pc = "refused"
    BY <2>3, <2>4, <2>5 DEF OneHandler
  <2>6. CASE pc # "refused"
    <3>1. MayBegin(kind)'
      BY <1>0, <1>1, <2>6 DEF MayBegin
    <3>2. AtStart(r)'
      BY <1>3, <2>4, <2>6, <3>1 DEF AtStart, MayBegin
    <3>3. authPc'[r] # "recheck"
      BY <1>1, <1>3
    <3> QED BY <2>3, <2>6, <3>2, <3>3 DEF OneHandler
  <2> QED BY <2>5, <2>6
<1> QED BY <1>4, <1>5 DEF AuthIInv

\* The password is checked, or the token read back; the configuration stays.
LEMMA CheckStep ==
  ASSUME AuthIInv, NEW r \in AuthRequests, VerifyPassword(r) \/ RecheckLogin(r)
  PROVE  AuthIInv'
<1>0. /\ AuthTypes /\ OneHandler /\ AuthTypeOK
      /\ UNCHANGED <<authMode, authHash, authToken, authKind, authTodo, authUpsets>>
  BY DEF AuthIInv, AuthTypes, VerifyPassword, RecheckLogin
<1>1. PICK pc \in {"write", "refused", "done", "failed"} :
        /\ authPc' = [authPc EXCEPT ![r] = pc] /\ authPc[r] \in {"verify", "recheck"}
        /\ pc = "write" => authPc[r] = "verify"
        /\ authPc[r] = "verify" => pc \in {"write", "refused"}
  BY DEF VerifyPassword, RecheckLogin, AuthGoto
<1>2. /\ authPc' \in [AuthRequests -> AuthEnded \cup {"verify", "write", "recheck"}] /\ authPc'[r] = pc
      /\ \A s \in AuthRequests \ {r} : authPc'[s] = authPc[s]
  BY <1>0, <1>1 DEF AuthTypeOK, AuthEnded
<1>3. AuthTypes'
  BY <1>0, <1>1, <1>2 DEF AuthTypes, AuthTypeOK
<1>4. OneHandler'
  <2>1. SUFFICES ASSUME authUpsets = {} PROVE OneHandler'
    BY <1>0 DEF OneHandler
  <2>2. AuthActive = {r}
    BY <1>0, <1>1, <2>1 DEF OneHandler, AuthActive, AuthEnded
  <2>3. Agree
    BY <1>0, <1>1, <2>1, <2>2 DEF OneHandler, AtStart
  <2>4. Agree'
    BY <1>0, <2>3 DEF Agree, Goes
  <2>5. CASE pc = "write"
    <3>1. AuthActive' = {r}
      BY <1>2, <2>2, <2>5 DEF AuthActive, AuthEnded
    <3>2. AtStart(r)
      BY <1>0, <1>1, <2>1, <2>2, <2>5 DEF OneHandler
    <3>3. AtStart(r)'
      BY <1>0, <3>2 DEF AtStart, Agree, Goes, MayBegin
    <3> QED BY <1>2, <2>5, <3>1, <3>3 DEF OneHandler
  <2>6. CASE pc # "write"
    <3>1. AuthActive' = {}
      BY <1>1, <1>2, <2>2, <2>6 DEF AuthActive, AuthEnded
    <3> QED BY <2>4, <3>1 DEF OneHandler
  <2> QED BY <2>5, <2>6
<1> QED BY <1>3, <1>4 DEF AuthIInv

\* The first update of a handler that is alone: it is half-way then, or done with mode and password
\* in agreement.
LEMMA FirstUpdate ==
  ASSUME NEW r, NEW k \in Kinds \ {"setupEmpty"}, NEW new \in Passwords, NEW mode1, NEW hash, Fits(k, mode1, hash),
         NEW t, t = Updates(r, k, new), NEW mode2, NEW hash2,
         Writes(Head(t), mode1, hash, mode2, hash2)
  PROVE  IF Tail(t) = << >> THEN Goes(mode2, hash2) ELSE Half(r, k, Tail(t), new, mode2, hash2)
<1>1. "none" \notin Passwords
  BY AuthAssumption
<1>2. CASE k = "setup"
  <2>1. t = <<<<"mode", "password">>, <<"hash", new>>, <<"token", r>>>>
    BY <1>2 DEF Updates
  <2>2. Tail(t) = <<<<"hash", new>>, <<"token", r>>>> /\ Tail(t) # << >> /\ mode2 = "password"
    BY <2>1, FirstOfFew DEF Writes
  <2> QED BY <1>2, <2>2 DEF Half
<1>3. CASE k = "setupOpen"
  <2>1. t = <<<<"mode", "noPassword">>, <<"hash", "none">>, <<"token", "none">>>>
    BY <1>3 DEF Updates
  <2>2. /\ Tail(t) = <<<<"hash", "none">>, <<"token", "none">>>> /\ Tail(t) # << >>
        /\ Head(t) = <<"mode", "noPassword">>
    BY <2>1, FirstOfFew
  <2>3. mode2 = "noPassword" /\ hash2 = "none"
    BY <1>3, <2>2 DEF Writes, Fits
  <2> QED BY <1>3, <2>2, <2>3 DEF Half
<1>4. CASE k \in {"login", "logout"}
  <2>1. PICK x : t = <<<<"token", x>>>>
    BY <1>4 DEF Updates
  <2>2. Tail(t) = << >> /\ mode2 = mode1 /\ hash2 = hash
    BY <2>1, FirstOfFew DEF Writes
  <2> QED BY <2>2 DEF Fits
<1>5. CASE k = "create"
  <2>1. t = <<<<"hash", new>>, <<"token", r>>, <<"mode", "password">>>>
    BY <1>5 DEF Updates
  <2>2. /\ Tail(t) = <<<<"token", r>>, <<"mode", "password">>>> /\ Tail(t) # << >>
        /\ Head(t) = <<"hash", new>>
    BY <2>1, FirstOfFew
  <2>3. mode2 = "noPassword" /\ hash2 = new
    BY <1>5, <2>2 DEF Writes, Fits
  <2> QED BY <1>1, <1>5, <2>2, <2>3 DEF Half
<1>6. CASE k = "modify"
  <2>1. t = <<<<"hash", new>>, <<"token", r>>>>
    BY <1>6 DEF Updates
  <2>2. Tail(t) = <<<<"token", r>>>> /\ Tail(t) # << >> /\ Head(t) = <<"hash", new>>
    BY <2>1, FirstOfFew
  <2>3. mode2 = "password" /\ hash2 = new
    BY <1>6, <2>2 DEF Writes, Fits
  <2> QED BY <1>1, <1>6, <2>2, <2>3 DEF Half, Goes
<1>7. CASE k = "disable"
  <2>1. t = <<<<"hash", "none">>, <<"token", "none">>, <<"mode", "noPassword">>>>
    BY <1>7 DEF Updates, DisableUpdates
  <2>2. Tail(t) = <<<<"token", "none">>, <<"mode", "noPassword">>>> /\ Tail(t) # << >> /\ hash2 = "none"
    BY <2>1, FirstOfFew DEF Writes
  <2> QED BY <1>7, <2>2 DEF Half
<1> QED BY <1>2, <1>3, <1>4, <1>5, <1>6, <1>7 DEF Kinds, Public

\* A further update: the handler is half-way still, or done with mode and password in agreement.
LEMMA FurtherUpdate ==
  ASSUME NEW r, NEW k, NEW new \in Passwords, NEW mode1, NEW hash, NEW t, Half(r, k, t, new, mode1, hash),
         NEW mode2, NEW hash2,
         Writes(Head(t), mode1, hash, mode2, hash2)
  PROVE  IF Tail(t) = << >> THEN Goes(mode2, hash2) ELSE Half(r, k, Tail(t), new, mode2, hash2)
<1>1. "none" \notin Passwords
  BY AuthAssumption
<1>2. CASE k = "setup" /\ mode1 = "password" /\ t = <<<<"hash", new>>, <<"token", r>>>>
  <2>1. Tail(t) = <<<<"token", r>>>> /\ Tail(t) # << >> /\ mode2 = "password" /\ hash2 = new
    BY <1>2, FirstOfFew DEF Writes
  <2> QED BY <1>1, <1>2, <2>1 DEF Half
<1>3. CASE k = "setup" /\ mode1 = "password" /\ hash # "none" /\ t = <<<<"token", r>>>>
  <2>1. Tail(t) = << >> /\ mode2 = "password" /\ hash2 # "none"
    BY <1>3, FirstOfFew DEF Writes
  <2> QED BY <1>3, <2>1 DEF Goes
<1>4. CASE k = "setupOpen" /\ mode1 = "noPassword" /\ hash = "none" /\ t = <<<<"hash", "none">>, <<"token", "none">>>>
  <2>1. Tail(t) = <<<<"token", "none">>>> /\ Tail(t) # << >> /\ mode2 = "noPassword" /\ hash2 = "none"
    BY <1>4, FirstOfFew DEF Writes
  <2> QED BY <1>1, <1>4, <2>1 DEF Half
<1>5. CASE k = "setupOpen" /\ mode1 = "noPassword" /\ hash = "none" /\ t = <<<<"token", "none">>>>
  <2>1. Tail(t) = << >> /\ mode2 = "noPassword" /\ hash2 = "none"
    BY <1>5, FirstOfFew DEF Writes
  <2> QED BY <1>5, <2>1 DEF Goes
<1>6. CASE k = "create" /\ mode1 = "noPassword" /\ hash # "none" /\ t = <<<<"token", r>>, <<"mode", "password">>>>
  <2>1. Tail(t) = <<<<"mode", "password">>>> /\ Tail(t) # << >> /\ mode2 = "noPassword" /\ hash2 # "none"
    BY <1>6, FirstOfFew DEF Writes
  <2> QED BY <1>1, <1>6, <2>1 DEF Half
<1>7. CASE k = "create" /\ mode1 = "noPassword" /\ hash # "none" /\ t = <<<<"mode", "password">>>>
  <2>1. Tail(t) = << >> /\ mode2 = "password" /\ hash2 # "none"
    BY <1>7, FirstOfFew DEF Writes
  <2> QED BY <1>7, <2>1 DEF Goes
<1>8. CASE k = "modify" /\ Goes(mode1, hash) /\ t = <<<<"token", r>>>>
  <2>1. Tail(t) = << >> /\ mode2 = mode1 /\ hash2 = hash
    BY <1>8, FirstOfFew DEF Writes
  <2> QED BY <1>8, <2>1 DEF Goes
<1>9. CASE k = "disable" /\ hash = "none" /\ t = <<<<"token", "none">>, <<"mode", "noPassword">>>>
  <2>1. Tail(t) = <<<<"mode", "noPassword">>>> /\ Tail(t) # << >> /\ hash2 = "none"
    BY <1>9, FirstOfFew DEF Writes
  <2> QED BY <1>1, <1>9, <2>1 DEF Half
<1>10. CASE k = "disable" /\ hash = "none" /\ t = <<<<"mode", "noPassword">>>>
  <2>1. Tail(t) = << >> /\ mode2 = "noPassword" /\ hash2 = "none"
    BY <1>10, FirstOfFew DEF Writes
  <2> QED BY <1>10, <2>1 DEF Goes
<1> QED BY <1>2, <1>3, <1>4, <1>5, <1>6, <1>7, <1>8, <1>9, <1>10 DEF Half

\* What one update makes of a handler that is alone.
LEMMA UpdateGoesOn ==
  ASSUME NEW r \in AuthRequests, AtStart(r) \/ Midway(r), ApplyUpdate(r), authKind[r] \in Kinds \ {"setupEmpty"},
         authKind'[r] = authKind[r], authTodo'[r] = Tail(authTodo[r])
  PROVE  IF authTodo'[r] = << >> THEN Agree' ELSE Midway(r)'
<1> DEFINE k == authKind[r]
           t == authTodo[r]
<1>0. /\ authMode' = IF Head(t)[1] = "mode" THEN Head(t)[2] ELSE authMode
      /\ authHash' = IF Head(t)[1] = "hash" THEN Head(t)[2] ELSE authHash
  BY DEF ApplyUpdate
<1> DEFINE mode2 == authMode'
           hash2 == authHash'
<1>1. \E new \in Passwords : IF Tail(t) = << >> THEN Goes(mode2, hash2) ELSE Half(r, k, Tail(t), new, mode2, hash2)
  <2>1. CASE AtStart(r)
    <3>1. PICK new \in Passwords : t = Updates(r, k, new) /\ Agree /\ MayBegin(k)
      BY <2>1 DEF AtStart
    <3>2. k \in Kinds \ {"setupEmpty"}
      OBVIOUS
    <3>3. Fits(k, authMode, authHash)
      BY <3>1 DEF MayBegin, Agree, Fits
    <3> HIDE DEF k, t, mode2, hash2
    <3>5. Writes(Head(t), authMode, authHash, mode2, hash2)
      BY <1>0 DEF mode2, hash2, Writes
    <3>6. IF Tail(t) = << >> THEN Goes(mode2, hash2) ELSE Half(r, k, Tail(t), new, mode2, hash2)
      BY <3>1, <3>2, <3>3, <3>5, FirstUpdate
    <3> QED BY <3>6
  <2>2. CASE Midway(r)
    <3>1. PICK new \in Passwords : Half(r, k, t, new, authMode, authHash)
      BY <2>2 DEF Midway
    <3> HIDE DEF k, t, mode2, hash2
    <3>5. Writes(Head(t), authMode, authHash, mode2, hash2)
      BY <1>0 DEF mode2, hash2, Writes
    <3>6. IF Tail(t) = << >> THEN Goes(mode2, hash2) ELSE Half(r, k, Tail(t), new, mode2, hash2)
      BY <3>1, <3>5, FurtherUpdate
    <3> QED BY <3>6
  <2> QED BY <2>1, <2>2
<1>2. Agree' <=> Goes(mode2, hash2)
  BY DEF Agree
<1>3. Midway(r)' <=> \E new \in Passwords : Half(r, k, Tail(t), new, mode2, hash2)
  BY DEF Midway
<1> HIDE DEF k, t, mode2, hash2
<1>4. authTodo'[r] = Tail(t)
  BY DEF t
<1> QED BY <1>1, <1>2, <1>3, <1>4

\* One update of one handler: its save works or fails.
LEMMA ApplyStep ==
  ASSUME AuthIInv, NEW r \in AuthRequests, ApplyUpdate(r)
  PROVE  AuthIInv'
<1> DEFINE u == Head(authTodo[r])
<1>0. /\ AuthTypes /\ OneHandler /\ AuthTypeOK /\ authPc[r] = "write" /\ UNCHANGED authKind
      /\ authKind[r] \in Kinds /\ authTodo[r] \in Seq(FieldUpdates) /\ authTodo[r] # << >>
  BY DEF AuthIInv, AuthTypes, ApplyUpdate
<1>1. u \in FieldUpdates /\ Tail(authTodo[r]) \in Seq(FieldUpdates)
  BY <1>0, HeadTailProperties
<1>2. PICK pc : /\ (pc = IF authTodo'[r] = << >> THEN AfterUpdates(authKind[r]) ELSE "write") \/ pc = "failed"
                /\ authPc' = [authPc EXCEPT ![r] = pc]
                /\ authKind[r] = "setupEmpty" \/ pc = "failed" => authUpsets' # {}
                /\ authUpsets \subseteq authUpsets'
  <2>1. CASE /\ AuthGoto(r, IF authTodo'[r] = << >> THEN AfterUpdates(authKind[r]) ELSE "write")
             /\ authUpsets' = authUpsets \cup (IF authKind[r] = "setupEmpty" THEN {"setupEmpty"} ELSE {})
    <3> DEFINE pc == IF authTodo'[r] = << >> THEN AfterUpdates(authKind[r]) ELSE "write"
    <3>1. pc # "failed"
      BY DEF AfterUpdates
    <3>2. authPc' = [authPc EXCEPT ![r] = pc]
      BY <2>1 DEF AuthGoto
    <3> HIDE DEF pc
    <3>3. pc = IF authTodo'[r] = << >> THEN AfterUpdates(authKind[r]) ELSE "write"
      BY DEF pc
    <3>4. authUpsets \subseteq authUpsets' /\ (authKind[r] = "setupEmpty" => authUpsets' # {})
      BY <2>1
    <3> QED BY <3>1, <3>2, <3>3, <3>4
  <2>2. CASE AuthGoto(r, "failed") /\ authUpsets' = authUpsets \cup {"saveError"}
    BY <2>2 DEF AuthGoto
  <2> QED BY <2>1, <2>2 DEF ApplyUpdate
<1>3. pc \in {"write", "recheck", "refused", "done", "failed"} /\ (pc = "write" => authTodo'[r] # << >>)
  BY <1>2 DEF AfterUpdates
<1>4. /\ authPc' \in [AuthRequests -> AuthEnded \cup {"verify", "write", "recheck"}] /\ authPc'[r] = pc
      /\ authTodo' \in [AuthRequests -> Seq(FieldUpdates)] /\ authTodo'[r] = Tail(authTodo[r])
      /\ \A s \in AuthRequests \ {r} : authPc'[s] = authPc[s] /\ authTodo'[s] = authTodo[s]
  <2>1. authTodo' = [authTodo EXCEPT ![r] = Tail(authTodo[r])]
    BY DEF ApplyUpdate
  <2> QED BY <1>0, <1>1, <1>2, <1>3, <2>1 DEF AuthTypes, AuthTypeOK, AuthEnded
<1>5. /\ authMode' \in {"unset", "password", "noPassword"} /\ authHash' \in Passwords \cup {"none"}
      /\ authToken' \in AuthRequests \cup {"none"}
  <2>1. /\ authMode' = IF u[1] = "mode" THEN u[2] ELSE authMode
        /\ authHash' = IF u[1] = "hash" THEN u[2] ELSE authHash
        /\ authToken' = IF u[1] = "token" THEN u[2] ELSE authToken
    BY DEF ApplyUpdate
  <2> HIDE DEF u
  <2>2. /\ u[1] = "mode" => u[2] \in {"password", "noPassword"}
        /\ u[1] = "hash" => u[2] \in Passwords \cup {"none"}
        /\ u[1] = "token" => u[2] \in AuthRequests \cup {"none"}
    BY <1>1 DEF FieldUpdates
  <2> QED BY <1>0, <2>1, <2>2 DEF AuthTypeOK
<1>6. AuthTypes'
  BY <1>0, <1>3, <1>4, <1>5 DEF AuthTypes, AuthTypeOK
<1>7. OneHandler'
  <2>1. SUFFICES ASSUME authUpsets' = {} PROVE OneHandler'
    BY DEF OneHandler
  <2>2. authUpsets = {} /\ authKind[r] # "setupEmpty" /\ pc # "failed"
    BY <1>2, <2>1
  <2>3. AuthActive = {r} /\ (AtStart(r) \/ Midway(r))
    BY <1>0, <2>2 DEF OneHandler, AuthActive, AuthEnded
  <2>4. IF authTodo'[r] = << >> THEN Agree' ELSE Midway(r)'
    BY <1>0, <1>4, <2>2, <2>3, UpdateGoesOn
  <2>5. CASE authTodo'[r] = << >>
    <3>1. Agree' /\ pc # "write" /\ pc # "verify"
      BY <1>3, <2>4, <2>5
    <3>2. AuthActive' \subseteq {r}
      BY <1>4, <2>3 DEF AuthActive, AuthEnded
    <3> QED BY <1>4, <3>1, <3>2 DEF OneHandler
  <2>6. CASE authTodo'[r] # << >>
    <3>1. pc = "write" /\ Midway(r)'
      BY <1>2, <2>2, <2>4, <2>6
    <3>2. AuthActive' = {r}
      BY <1>4, <2>3, <3>1 DEF AuthActive, AuthEnded
    <3> QED BY <1>4, <3>1, <3>2 DEF OneHandler
  <2> QED BY <2>5, <2>6
<1> QED BY <1>6, <1>7 DEF AuthIInv

\* A step changes nothing: neither does the invariant.
LEMMA AuthStutter == ASSUME AuthIInv, UNCHANGED authVars PROVE AuthIInv'
<1>1. AuthTypes'
  BY DEF AuthIInv, AuthTypes, AuthTypeOK, authVars
<1>2. Agree' <=> Agree
  BY DEF authVars, Agree
<1>3. \A r \in AuthRequests : (AtStart(r)' <=> AtStart(r)) /\ (Midway(r)' <=> Midway(r))
  BY <1>2 DEF authVars, AtStart, Midway, MayBegin
<1>4. AuthActive' = AuthActive /\ AuthActive \subseteq AuthRequests
  BY DEF authVars, AuthActive
<1>5. OneHandler'
  BY <1>2, <1>3, <1>4 DEF AuthIInv, OneHandler, authVars
<1> QED BY <1>1, <1>5 DEF AuthIInv

\* The inductive invariant of the authentication handlers.
LEMMA AuthIInvHolds == AuthSpec => []AuthIInv
<1>1. AuthInit => AuthIInv
  BY AuthInitially
<1>2. AuthIInv /\ [AuthNext]_authVars => AuthIInv'
  <2> SUFFICES ASSUME AuthIInv, [AuthNext]_authVars PROVE AuthIInv'
    OBVIOUS
  <2>1. CASE AuthNext
    <3>1. PICK r \in AuthRequests :
            \/ \E kind \in Kinds, cookie \in {authToken, "none"}, old, new \in Passwords :
                 BeginAuth(r, kind, cookie, old, new)
            \/ VerifyPassword(r) \/ ApplyUpdate(r) \/ RecheckLogin(r)
      BY <2>1 DEF AuthNext
    <3>2. CASE \E kind \in Kinds, cookie \in {authToken, "none"}, old, new \in Passwords :
                 BeginAuth(r, kind, cookie, old, new)
      BY <3>2, BeginStep
    <3>3. CASE VerifyPassword(r) \/ RecheckLogin(r)
      BY <3>3, CheckStep
    <3>4. CASE ApplyUpdate(r)
      BY <3>4, ApplyStep
    <3> QED BY <3>1, <3>2, <3>3, <3>4
  <2>2. CASE UNCHANGED authVars
    BY <2>2, AuthStutter
  <2> QED BY <2>1, <2>2
<1> QED BY <1>1, <1>2, PTL DEF AuthSpec

\* LocalAuth: for any number of requests, passwords and failing saves, the stored mode and the
\* stored password agree when no handler is under way, unless handlers overlapped, a save failed
\* or an empty password was asked for.
THEOREM AuthInvHolds == AuthSpec => []AuthInv
<1>1. AuthIInv => AuthInv
  BY DEF AuthIInv, AuthTypes, OneHandler, AuthInv, ModeAgreesWithPassword, Agree, Goes
<1> QED BY <1>1, AuthIInvHolds, PTL

\* LocalAuth: a login answers success only while its own token is the stored one, whatever
\* overlaps with it.
THEOREM LoginCookieWorksHolds == AuthSpec => LoginCookieWorks
<1> DEFINE A == \A r \in AuthRequests :
                  (authKind[r] = "login" /\ authPc[r] # "done" /\ authPc'[r] = "done") => authToken' = r
<1>1. AuthIInv /\ [AuthNext]_authVars => [A]_authVars
  <2> SUFFICES ASSUME AuthIInv, AuthNext, NEW r \in AuthRequests, authKind[r] = "login",
                      authPc[r] # "done", authPc'[r] = "done"
               PROVE  authToken' = r
    BY DEF A
  <2>1. PICK s \in AuthRequests :
          \/ \E kind \in Kinds, cookie \in {authToken, "none"}, old, new \in Passwords :
               BeginAuth(s, kind, cookie, old, new)
          \/ VerifyPassword(s) \/ ApplyUpdate(s) \/ RecheckLogin(s)
    BY DEF AuthNext
  <2>2. authPc \in [AuthRequests -> AuthEnded \cup {"verify", "write", "recheck"}]
    BY DEF AuthIInv, AuthTypes, AuthTypeOK
  <2>3. PICK pc : authPc' = [authPc EXCEPT ![s] = pc]
    BY <2>1 DEF BeginAuth, VerifyPassword, ApplyUpdate, RecheckLogin, AuthGoto
  <2>4. r = s /\ pc = "done"
    BY <2>2, <2>3
  <2>5. ~ \E kind \in Kinds, cookie \in {authToken, "none"}, old, new \in Passwords :
            BeginAuth(s, kind, cookie, old, new)
    BY <2>2, <2>4 DEF BeginAuth, AuthGoto
  <2>6. ~ VerifyPassword(s)
    BY <2>2, <2>4 DEF VerifyPassword, AuthGoto
  <2>7. ~ ApplyUpdate(s)
    BY <2>2, <2>4 DEF ApplyUpdate, AuthGoto, AfterUpdates
  <2>8. RecheckLogin(s)
    BY <2>1, <2>5, <2>6, <2>7
  <2> QED BY <2>2, <2>4, <2>8 DEF RecheckLogin, AuthGoto
<1>2. AuthSpec => []AuthIInv
  BY AuthIInvHolds
<1> QED BY <1>1, <1>2, PTL DEF AuthSpec, LoginCookieWorks

-----------------------------------------------------------------------------
(* The login rate limiter *)

RateEntries == [attempts : Nat, start : Int, level : 0..MaxLevel, until : Int]
RateTypes ==
  /\ RateTypeOK /\ now \in Nat /\ promise \in Int /\ inFlight \in Nat
  /\ entry \in RateEntries /\ failures \in Seq(Nat)

\* A lock ends at most a window from now, and Retry-After promised no earlier end.
LockEnds ==
  /\ entry.until # Never => entry.until <= now + WindowDuration(entry.level)
  /\ entry.until # Never /\ promise # Never => entry.until < promise

\* Of the failures f, the i-th is less than a base window before t; the entry e is locked at t.
Recent(f, t, i) == t - f[i] < BaseWindow
Held(e, t) == e # NoEntry /\ e.until # Never /\ t < e.until

\* The failures f happened in this order, by t.
InOrder(f, t) == f \in Seq(Nat) /\ \A i, j \in 1..Len(f) : i <= j => f[i] <= f[j] /\ f[j] <= t

\* How the failures f that are recent at t are spread: the last ones are those of the entry e, the
\* first of them opened its window.  Those before the window are few; those after the first are
\* fewer than lock the entry, or it is locked and they and the k attempts in flight are few.
Spread(f, e, t, k) ==
  /\ InOrder(f, t)
  /\ e = NoEntry => \A i \in 1..Len(f) : Recent(f, t, i) => Len(f) - i + 1 <= MaxFailures - 2
  /\ e # NoEntry =>
       /\ e.attempts \in 1..Len(f) /\ f[Len(f) - e.attempts + 1] = e.start
       /\ \A i \in 1..Len(f) : i <= Len(f) - e.attempts /\ Recent(f, t, i)
            => Len(f) - e.attempts - i + 1 <= MaxFailures + MaxInFlight - 3
       /\ \A i \in 1..Len(f) : i >= Len(f) - e.attempts + 2 /\ Recent(f, t, i)
            => IF Held(e, t) THEN Len(f) - i + 1 + k <= MaxFailures + MaxInFlight - 2
                             ELSE Len(f) - i + 1 <= MaxFailures - 2
       /\ IF e.attempts >= MaxFailures THEN e.until >= f[Len(f)] + BaseWindow ELSE e.until = Never

\* FailuresBounded, without counting.
MostFailures == 2 * (MaxFailures - 1) + 2 * (MaxInFlight - 1)
Bounded(f) == \A i, j \in 1..Len(f) : i <= j /\ f[j] - f[i] < BaseWindow => j - i + 1 <= MostFailures

RateIInv == RateTypes /\ LockEnds /\ Spread(failures, entry, now, inFlight) /\ Bounded(failures)

\* A window is a whole number of ticks, and no shorter than the base window.
LEMMA WindowTyped ==
  ASSUME NEW level \in 0..MaxLevel PROVE WindowDuration(level) \in Nat /\ WindowDuration(level) >= BaseWindow
<1> DEFINE n == IF level < MaxLevel THEN level ELSE MaxLevel
<1>1. n \in 0..MaxLevel /\ BaseWindow \in Nat
  BY RateAssumption
<1> HIDE DEF n
<1>2. PICK p \in Nat \ {0} : p = 2^n
  BY <1>1, PowersAssumption
<1>3. WindowDuration(level) = BaseWindow * p
  BY <1>2 DEF WindowDuration, n
<1>4. BaseWindow * p \in Nat /\ BaseWindow * p >= BaseWindow
  BY <1>1, <1>2
<1> QED BY <1>3, <1>4

\* What a cleanup leaves is the entry, or none when its window is over and no lock holds; a locked
\* entry is left.
LEMMA CleanupKeeps ==
  /\ AfterCleanup = entry \/ (AfterCleanup = NoEntry /\ WindowOver(entry) /\ ~Locked(entry)) \/ entry = NoEntry
  /\ AfterCleanup \in {NoEntry, entry}
  /\ Locked(entry) => AfterCleanup = entry
BY DEF AfterCleanup, Kept

\* An empty entry.
LEMMA NoEntryTyped == NoEntry \in RateEntries /\ NoEntry.until = Never /\ NoEntry.attempts = 0
BY RateAssumption DEF NoEntry, Never, RateEntries

\* One failure more.
LEMMA OneMore ==
  ASSUME NEW f \in Seq(Nat), NEW t \in Nat
  PROVE  /\ Append(f, t) \in Seq(Nat) /\ Len(Append(f, t)) = Len(f) + 1 /\ Len(f) \in Nat
         /\ Append(f, t)[Len(f) + 1] = t /\ \A i \in 1..Len(f) : Append(f, t)[i] = f[i]
OBVIOUS

\* The failures in order, one more now.
LEMMA InOrderGoesOn ==
  ASSUME NEW f, NEW t \in Nat, InOrder(f, t)
  PROVE  InOrder(Append(f, t), t)
<1> DEFINE g == Append(f, t)
           n == Len(f)
<1>0. g \in Seq(Nat) /\ Len(g) = n + 1 /\ n \in Nat /\ g[n + 1] = t /\ \A i \in 1..n : g[i] = f[i]
  BY OneMore DEF InOrder
<1>1. \A i, j \in 1..n : i <= j => f[i] <= f[j] /\ f[j] <= t
  BY DEF InOrder
<1> HIDE DEF g, n
<1>2. ASSUME NEW i \in 1..(n + 1), NEW j \in 1..(n + 1), i <= j PROVE g[i] <= g[j] /\ g[j] <= t
  <2>1. CASE i = n + 1
    <3>1. j = n + 1
      BY <1>0, <1>2, <2>1
    <3> QED BY <1>0, <2>1, <3>1
  <2>2. CASE i # n + 1 /\ j = n + 1
    <3>1. i \in 1..n
      BY <1>0, <2>2
    <3>2. g[i] <= t
      BY <1>0, <1>1, <3>1
    <3> QED BY <1>0, <2>2, <3>2
  <2>3. CASE i # n + 1 /\ j # n + 1
    <3>1. i \in 1..n /\ j \in 1..n
      BY <1>0, <2>3
    <3> QED BY <1>0, <1>1, <1>2, <3>1
  <2> QED BY <2>1, <2>2, <2>3
<1>3. InOrder(g, t)
  BY <1>0, <1>2 DEF InOrder
<1> QED BY <1>3 DEF g

\* The parts of an entry.
LEMMA EntryTyped ==
  ASSUME NEW e \in RateEntries
  PROVE  /\ e.attempts \in Nat /\ e.start \in Int /\ e.until \in Int /\ e.level \in 0..MaxLevel
         /\ WindowDuration(e.level) \in Nat /\ WindowDuration(e.level) >= BaseWindow
<1>1. e.attempts \in Nat /\ e.start \in Int /\ e.until \in Int /\ e.level \in 0..MaxLevel
  BY DEF RateEntries
<1> QED BY <1>1, WindowTyped

\* The index of the first of the last a of n failures.
LEMMA FirstOfLast ==
  ASSUME NEW n \in Nat, NEW a \in 1..n
  PROVE  n - a + 1 \in 1..n /\ (n + 1) - (a + 1) = n - a /\ a + 1 \in 1..(n + 1) /\ a \in Nat
OBVIOUS

\* The limits.
LEMMA LimitsTyped ==
  /\ MaxFailures \in Nat \ {0, 1} /\ BaseWindow \in Nat \ {0} /\ MaxInFlight \in Nat \ {0}
  /\ MostFailures \in Nat /\ MostFailures = 2 * MaxFailures + 2 * MaxInFlight - 4
BY RateAssumption DEF MostFailures

\* The failures of a spread, in order.
LEMMA SpreadOrder ==
  ASSUME NEW f, NEW e, NEW t, NEW k, Spread(f, e, t, k)
  PROVE  /\ f \in Seq(Nat) /\ Len(f) \in Nat /\ \A i \in 1..Len(f) : f[i] \in Nat
         /\ \A i, j \in 1..Len(f) : i <= j => f[i] <= f[j] /\ f[j] <= t
BY DEF Spread, InOrder

\* Time passes: fewer failures are recent, and a lock that ends leaves none.
LEMMA SpreadLater ==
  ASSUME NEW f, NEW e \in RateEntries, NEW t \in Nat, NEW k \in Nat, Spread(f, e, t, k)
  PROVE  Spread(f, e, t + 1, k)
<1> DEFINE n == Len(f)
<1>0. f \in Seq(Nat) /\ n \in Nat /\ BaseWindow \in Nat /\ MaxFailures \in Nat /\ e.until \in Int /\ e.attempts \in Nat
      /\ \A i \in 1..n : f[i] \in Nat
  BY SpreadOrder, EntryTyped, LimitsTyped
<1>1. \A i \in 1..n : Recent(f, t + 1, i) => Recent(f, t, i)
  BY <1>0 DEF Recent
<1>2. \A i, j \in 1..n : i <= j => f[i] <= f[j] /\ f[j] <= t + 1
  BY <1>0, SpreadOrder
<1>3. ASSUME e # NoEntry, Held(e, t), ~Held(e, t + 1), NEW i \in 1..n PROVE ~Recent(f, t + 1, i)
  <2>1. e.until # Never /\ t + 1 >= e.until
    BY <1>0, <1>3 DEF Held
  <2>2. e.until >= f[n] + BaseWindow
    BY <1>0, <1>3, <2>1 DEF Spread
  <2>3. f[i] <= f[n] /\ n \in 1..n
    BY <1>0, <1>2
  <2> QED BY <1>0, <2>1, <2>2, <2>3 DEF Recent
<1>4. ~Held(e, t) => ~Held(e, t + 1)
  BY <1>0 DEF Held
<1> HIDE DEF n
<1>5. e = NoEntry => \A i \in 1..n : Recent(f, t + 1, i) => n - i + 1 <= MaxFailures - 2
  BY <1>1 DEF Spread, n
<1>6. ASSUME e # NoEntry, NEW i \in 1..n, i >= n - e.attempts + 2, Recent(f, t + 1, i)
      PROVE  IF Held(e, t + 1) THEN n - i + 1 + k <= MaxFailures + MaxInFlight - 2 ELSE n - i + 1 <= MaxFailures - 2
  BY <1>1, <1>3, <1>4, <1>6 DEF Spread, n
<1>7. ASSUME e # NoEntry, NEW i \in 1..n, i <= n - e.attempts, Recent(f, t + 1, i)
      PROVE  n - e.attempts - i + 1 <= MaxFailures + MaxInFlight - 3
  BY <1>1, <1>7 DEF Spread, n
<1> QED BY <1>0, <1>2, <1>5, <1>6, <1>7 DEF Spread, InOrder, n

\* An unlocked entry: the number of attempts in flight does not matter.
LEMMA SpreadUnlocked ==
  ASSUME NEW f, NEW e, NEW t, NEW k, NEW k2, Spread(f, e, t, k), ~Held(e, t)
  PROVE  Spread(f, e, t, k2)
BY DEF Spread

\* The window is over and no lock holds: few failures are recent, and the entry can be dropped.
LEMMA SpreadDropped ==
  ASSUME NEW f, NEW e \in RateEntries, NEW t \in Nat, NEW k \in Nat, Spread(f, e, t, k), e # NoEntry,
         t - e.start > WindowDuration(e.level), ~Held(e, t)
  PROVE  Spread(f, NoEntry, t, k)
<1> DEFINE n == Len(f)
<1>0. f \in Seq(Nat) /\ n \in Nat /\ BaseWindow \in Nat /\ e.attempts \in Nat /\ e.start \in Int
      /\ \A i \in 1..n : f[i] \in Nat
  BY SpreadOrder, EntryTyped, LimitsTyped
<1>1. WindowDuration(e.level) \in Nat /\ WindowDuration(e.level) >= BaseWindow
  BY EntryTyped
<1>2. ASSUME NEW i \in 1..n, i <= n - e.attempts + 1 PROVE ~Recent(f, t, i)
  <2>1. e.attempts \in 1..n /\ f[n - e.attempts + 1] = e.start
    BY DEF Spread
  <2>2. n - e.attempts + 1 \in 1..n
    BY <1>0, <2>1, FirstOfLast
  <2>3. f[i] <= f[n - e.attempts + 1]
    BY <1>2, <2>2, SpreadOrder
  <2> QED BY <1>0, <1>1, <2>1, <2>3 DEF Recent
<1>3. ASSUME NEW i \in 1..n, Recent(f, t, i) PROVE n - i + 1 <= MaxFailures - 2
  <2>1. i >= n - e.attempts + 2
    BY <1>0, <1>2, <1>3
  <2> QED BY <1>3, <2>1 DEF Spread
<1> QED BY <1>3 DEF Spread

\* A failure that opens a window, when few failures are recent.
LEMMA SpreadOpens ==
  ASSUME NEW f \in Seq(Nat), NEW t \in Nat, NEW k, NEW e \in RateEntries, e.attempts = 1, e.start = t, e.until = Never,
         InOrder(f, t),
         \A i \in 1..Len(f) : Recent(f, t, i) => Len(f) - i + 1 <= MaxFailures + MaxInFlight - 3
  PROVE  Spread(Append(f, t), e, t, k)
<1> DEFINE g == Append(f, t)
           n == Len(f)
<1>0. g \in Seq(Nat) /\ Len(g) = n + 1 /\ n \in Nat /\ g[n + 1] = t /\ \A i \in 1..n : g[i] = f[i]
  BY OneMore
<1>1. e # NoEntry /\ MaxFailures \in Nat \ {0, 1} /\ \A i \in 1..n : f[i] \in Nat
  BY NoEntryTyped, LimitsTyped
<1> HIDE DEF g, n
<1>2. InOrder(g, t)
  BY InOrderGoesOn DEF g
<1>3. e.attempts \in 1..Len(g) /\ g[Len(g) - e.attempts + 1] = e.start /\ ~(e.attempts >= MaxFailures)
  BY <1>0, <1>1
<1>4. ASSUME NEW i \in 1..Len(g), i <= Len(g) - e.attempts, Recent(g, t, i)
      PROVE  Len(g) - e.attempts - i + 1 <= MaxFailures + MaxInFlight - 3
  <2>1. i \in 1..n /\ Recent(f, t, i) /\ Len(g) - e.attempts = n
    BY <1>0, <1>4 DEF Recent
  <2> QED BY <2>1 DEF n
<1>5. \A i \in 1..Len(g) : ~(i >= Len(g) - e.attempts + 2)
  BY <1>0
<1>6. Spread(g, e, t, k)
  BY <1>0, <1>1, <1>2, <1>3, <1>4, <1>5 DEF Spread
<1> QED BY <1>6 DEF g

\* A failure in the window of an entry, with the lock that Failed sets.
LEMMA SpreadGoesOn ==
  ASSUME NEW f, NEW t \in Nat, NEW k \in 1..MaxInFlight, NEW e \in RateEntries, e # NoEntry, Spread(f, e, t, k),
         NEW d \in RateEntries, d.attempts = e.attempts + 1, d.start = e.start, d.level = e.level,
         d.until = IF e.attempts + 1 >= MaxFailures THEN t + WindowDuration(e.level) ELSE e.until
  PROVE  Spread(Append(f, t), d, t, k - 1)
<1> DEFINE g == Append(f, t)
           n == Len(f)
           a == e.attempts
<1>0. f \in Seq(Nat) /\ g \in Seq(Nat) /\ Len(g) = n + 1 /\ n \in Nat /\ g[n + 1] = t /\ \A i \in 1..n : g[i] = f[i]
  BY OneMore, SpreadOrder
<1>1. /\ MaxFailures \in Nat \ {0, 1} /\ BaseWindow \in Nat \ {0} /\ MaxInFlight \in Nat
      /\ \A i \in 1..n : f[i] \in Nat
      /\ a \in Nat /\ a \in 1..n /\ e.until \in Int /\ f[n - a + 1] = e.start
      /\ WindowDuration(e.level) \in Nat /\ WindowDuration(e.level) >= BaseWindow
  <2>1. a \in 1..n /\ f[n - a + 1] = e.start
    BY DEF Spread
  <2>2. /\ MaxFailures \in Nat \ {0, 1} /\ BaseWindow \in Nat \ {0} /\ MaxInFlight \in Nat
        /\ \A i \in 1..n : f[i] \in Nat
    BY LimitsTyped, SpreadOrder
  <2>3. a \in Nat /\ e.until \in Int /\ WindowDuration(e.level) \in Nat /\ WindowDuration(e.level) >= BaseWindow
    BY EntryTyped
  <2> QED BY <2>1, <2>2, <2>3
<1>2. d # NoEntry
  BY <1>1, NoEntryTyped
<1>3. /\ \A i \in 1..n : i <= n - a /\ Recent(f, t, i) => n - a - i + 1 <= MaxFailures + MaxInFlight - 3
      /\ \A i \in 1..n : i >= n - a + 2 /\ Recent(f, t, i)
            => IF Held(e, t) THEN n - i + 1 + k <= MaxFailures + MaxInFlight - 2 ELSE n - i + 1 <= MaxFailures - 2
      /\ IF a >= MaxFailures THEN e.until >= f[n] + BaseWindow ELSE e.until = Never
  BY DEF Spread
<1> HIDE DEF g, n, a
<1>4. InOrder(g, t)
  BY InOrderGoesOn DEF g, Spread
<1>5. d.attempts = a + 1 /\ Len(g) - d.attempts = n - a /\ n - a \in Int
  <2>1. d.attempts = a + 1
    BY DEF a
  <2>2. (n + 1) - (a + 1) = n - a /\ n - a \in Int
    BY <1>0, <1>1, FirstOfLast
  <2> QED BY <1>0, <2>1, <2>2
<1>6. d.attempts \in 1..Len(g) /\ g[Len(g) - d.attempts + 1] = d.start
  <2>1. n - a + 1 \in 1..n /\ a + 1 \in 1..(n + 1)
    BY <1>0, <1>1, FirstOfLast
  <2> QED BY <1>0, <1>1, <1>5, <2>1
<1>7. ASSUME NEW i \in 1..Len(g), i <= Len(g) - d.attempts, Recent(g, t, i)
      PROVE  Len(g) - d.attempts - i + 1 <= MaxFailures + MaxInFlight - 3
  <2>1. i \in 1..(n + 1) /\ i <= n - a
    BY <1>0, <1>5, <1>7
  <2>2. i \in 1..n
    BY <1>0, <1>1, <2>1
  <2>3. Recent(f, t, i)
    BY <1>0, <1>7, <2>2 DEF Recent
  <2> QED BY <1>3, <1>5, <2>1, <2>2, <2>3
<1>8. /\ a + 1 >= MaxFailures => d.until = t + WindowDuration(e.level) /\ d.until >= t + BaseWindow /\ Held(d, t)
      /\ ~(a + 1 >= MaxFailures) => d.until = Never /\ ~Held(d, t) /\ ~Held(e, t)
  BY <1>1, <1>2, <1>3 DEF Held, Never, a
<1>9. ASSUME NEW i \in 1..Len(g), i >= Len(g) - d.attempts + 2, Recent(g, t, i)
      PROVE  IF Held(d, t) THEN Len(g) - i + 1 + (k - 1) <= MaxFailures + MaxInFlight - 2
                           ELSE Len(g) - i + 1 <= MaxFailures - 2
  <2>1. i >= n - a + 2 /\ i \in 1..(n + 1)
    BY <1>0, <1>5, <1>9
  <2>2. CASE ~(a + 1 >= MaxFailures)
    BY <1>0, <1>1, <1>8, <2>1, <2>2
  <2>3. CASE a + 1 >= MaxFailures /\ i = n + 1
    BY <1>0, <1>1, <1>8, <2>1, <2>3
  <2>4. CASE a + 1 >= MaxFailures /\ i # n + 1
    <3>1. i \in 1..n /\ Recent(f, t, i)
      BY <1>0, <1>9, <2>1, <2>4 DEF Recent
    <3>2. IF Held(e, t) THEN n - i + 1 + k <= MaxFailures + MaxInFlight - 2 ELSE n - i + 1 <= MaxFailures - 2
      BY <1>3, <2>1, <3>1
    <3>3. n - i + 1 + k <= MaxFailures + MaxInFlight - 2
      BY <1>0, <1>1, <3>1, <3>2
    <3> QED BY <1>0, <1>1, <1>8, <2>4, <3>1, <3>3
  <2> QED BY <2>2, <2>3, <2>4
<1>10. IF d.attempts >= MaxFailures THEN d.until >= g[Len(g)] + BaseWindow ELSE d.until = Never
  BY <1>0, <1>5, <1>8
<1>11. Spread(g, d, t, k - 1)
  BY <1>0, <1>2, <1>4, <1>6, <1>7, <1>9, <1>10 DEF Spread
<1> QED BY <1>11 DEF g

\* The recent failures of a spread are few.
LEMMA SpreadIsFew ==
  ASSUME NEW f, NEW t \in Nat, NEW k \in Nat, NEW e \in RateEntries, Spread(f, e, t, k),
         NEW i \in 1..Len(f), Recent(f, t, i)
  PROVE  Len(f) - i + 1 <= MostFailures
<1> DEFINE n == Len(f)
           a == e.attempts
<1>0. f \in Seq(Nat) /\ n \in Nat /\ i \in 1..n /\ (\A j \in 1..n : f[j] \in Nat) /\ a \in Nat
      /\ MaxFailures \in Nat \ {0, 1} /\ BaseWindow \in Nat \ {0} /\ MaxInFlight \in Nat \ {0}
      /\ MostFailures \in Int
  BY SpreadOrder, EntryTyped, LimitsTyped
<1>1. \A j \in 1..n : i <= j => Recent(f, t, j)
  BY <1>0, SpreadOrder DEF Recent
<1>2. CASE e = NoEntry
  <2>1. n - i + 1 <= MaxFailures - 2
    BY <1>2 DEF Spread
  <2> QED BY <1>0, <2>1, LimitsTyped
<1>3. CASE e # NoEntry
  <2>0. a \in 1..n
    BY <1>3 DEF Spread
  <2>1. \A j \in 1..n : j >= n - a + 2 /\ i <= j => n - j + 1 <= MaxFailures + MaxInFlight - 2
    <3> SUFFICES ASSUME NEW j \in 1..n, j >= n - a + 2, i <= j PROVE n - j + 1 <= MaxFailures + MaxInFlight - 2
      OBVIOUS
    <3>1. IF Held(e, t) THEN n - j + 1 + k <= MaxFailures + MaxInFlight - 2 ELSE n - j + 1 <= MaxFailures - 2
      BY <1>1, <1>3 DEF Spread
    <3> QED BY <1>0, <3>1
  <2> HIDE DEF n, a
  <2>2. CASE i >= n - a + 2
    BY <1>0, <2>1, <2>2, LimitsTyped DEF n
  <2>3. CASE i <= n - a + 1
    <3>1. a <= MaxFailures + MaxInFlight - 1
      <4>1. CASE a = 1
        BY <1>0, <4>1
      <4>2. CASE a # 1
        <5>1. n - a + 2 \in 1..n /\ i <= n - a + 2
          BY <1>0, <2>0, <2>3, <4>2
        <5>2. n - a + 2 >= n - a + 2
          BY <1>0, <2>0
        <5>3. n - (n - a + 2) + 1 <= MaxFailures + MaxInFlight - 2
          BY <2>1, <5>1, <5>2
        <5> QED BY <1>0, <2>0, <5>3
      <4> QED BY <4>1, <4>2
    <3>2. CASE i <= n - a
      <4>1. n - a - i + 1 <= MaxFailures + MaxInFlight - 3
        BY <1>0, <1>3, <3>2 DEF Spread, n, a
      <4> QED BY <1>0, <2>0, <3>1, <4>1, LimitsTyped DEF n
    <3>3. CASE i = n - a + 1
      BY <1>0, <2>0, <3>1, <3>3, LimitsTyped DEF n
    <3> QED BY <1>0, <2>0, <2>3, <3>2, <3>3
  <2> QED BY <1>0, <2>0, <2>2, <2>3
<1> QED BY <1>2, <1>3

\* A failure more, of those that are recent the last: the bound holds on.
LEMMA BoundedGoesOn ==
  ASSUME NEW f \in Seq(Nat), NEW t \in Nat, Bounded(f),
         \A i \in 1..(Len(f) + 1) : Recent(Append(f, t), t, i) => Len(f) + 1 - i + 1 <= MostFailures
  PROVE  Bounded(Append(f, t))
<1> DEFINE g == Append(f, t)
           n == Len(f)
<1>0. g \in Seq(Nat) /\ Len(g) = n + 1 /\ n \in Nat /\ g[n + 1] = t /\ \A i \in 1..n : g[i] = f[i]
  BY OneMore
<1> HIDE DEF g, n
<1> SUFFICES ASSUME NEW i \in 1..(n + 1), NEW j \in 1..(n + 1), i <= j, g[j] - g[i] < BaseWindow
             PROVE  j - i + 1 <= MostFailures
  BY <1>0 DEF Bounded, g
<1>1. CASE j = n + 1
  BY <1>0, <1>1 DEF Recent, g, n
<1>2. CASE j # n + 1
  <2>1. i \in 1..n /\ j \in 1..n /\ f[j] - f[i] < BaseWindow
    BY <1>0, <1>2
  <2> QED BY <2>1 DEF Bounded, n
<1> QED BY <1>1, <1>2

\* Counting the failures within a base window of the i-th.
LEMMA BoundedCounts ==
  ASSUME NEW f \in Seq(Nat), Bounded(f), NEW i \in 1..Len(f)
  PROVE  Cardinality({j \in i..Len(f) : f[j] - f[i] < BaseWindow}) <= MostFailures
<1> DEFINE S == {j \in i..Len(f) : f[j] - f[i] < BaseWindow}
           m == i + MostFailures - 1
<1>0. Len(f) \in Nat /\ i \in Nat /\ MostFailures \in Int /\ m \in Int
  BY LimitsTyped
<1>1. BaseWindow \in Nat \ {0} /\ f[i] \in Nat
  BY LimitsTyped
<1>2. 1 <= MostFailures
  BY <1>0, <1>1 DEF Bounded
<1>3. S \subseteq i..m
  BY <1>0 DEF Bounded
<1>4. IsFiniteSet(i..m) /\ Cardinality(i..m) = MostFailures
  <2> HIDE DEF m
  <2>1. i \in Int /\ m \in Int
    BY <1>0
  <2>2. IsFiniteSet(i..m) /\ Cardinality(i..m) = IF i > m THEN 0 ELSE m - i + 1
    BY <2>1, FS_Interval
  <2> QED BY <1>0, <1>2, <2>2 DEF m
<1> HIDE DEF S, m
<1>5. Cardinality(S) <= Cardinality(i..m)
  BY <1>3, <1>4, FS_Subset
<1> QED BY <1>4, <1>5 DEF S

\* What a failure makes of an entry: it opens a window, or counts in the one there is.
LEMMA FailedEntry ==
  ASSUME now \in Nat, NEW e \in RateEntries
  PROVE  /\ Failed(e) \in RateEntries
         /\ WindowOver(e) => Failed(e).attempts = 1 /\ Failed(e).start = now /\ Failed(e).until = Never
         /\ ~WindowOver(e) =>
              /\ Failed(e).attempts = e.attempts + 1 /\ Failed(e).start = e.start /\ Failed(e).level = e.level
              /\ Failed(e).until = IF e.attempts + 1 >= MaxFailures THEN now + WindowDuration(e.level) ELSE e.until
<1>1. /\ e.attempts \in Nat /\ e.start \in Int /\ e.until \in Int /\ e.level \in 0..MaxLevel
      /\ WindowDuration(e.level) \in Nat
  BY EntryTyped
<1>2. CASE WindowOver(e)
  <2> DEFINE l == IF (e.level > 0 \/ e.attempts >= MaxFailures) /\ e.level < MaxLevel THEN e.level + 1 ELSE e.level
  <2>1. Failed(e) = [attempts |-> 1, start |-> now, until |-> Never, level |-> l]
    BY <1>2 DEF Failed
  <2>2. l \in 0..MaxLevel
    BY <1>1, RateAssumption
  <2> HIDE DEF l
  <2> QED BY <1>2, <2>1, <2>2 DEF Never, RateEntries
<1>3. CASE ~WindowOver(e)
  <2> DEFINE u == IF e.attempts + 1 >= MaxFailures THEN now + WindowDuration(e.level) ELSE e.until
             b == e.attempts + 1
  <2>1. Failed(e) = [e EXCEPT !.attempts = b, !.until = u]
    BY <1>3 DEF Failed
  <2>2. u \in Int /\ b \in Nat
    BY <1>1
  <2> HIDE DEF u, b
  <2>3. /\ Failed(e) \in RateEntries /\ Failed(e).attempts = b /\ Failed(e).until = u
        /\ Failed(e).start = e.start /\ Failed(e).level = e.level
    BY <2>1, <2>2 DEF RateEntries
  <2> QED BY <1>3, <2>3 DEF u, b
<1> QED BY <1>2, <1>3

\* A failure keeps the recent failures spread as they should be.
LEMMA SpreadFails ==
  ASSUME RateTypes, Spread(failures, entry, now, inFlight), inFlight > 0
  PROVE  LET e == IF AfterCleanup = NoEntry THEN [NoEntry EXCEPT !.start = now] ELSE AfterCleanup
         IN  /\ Failed(e) \in RateEntries /\ Spread(Append(failures, now), Failed(e), now, inFlight - 1)
             /\ Failed(e).until # Never => \/ Failed(e).until <= now + WindowDuration(Failed(e).level)
                                           \/ (Failed(e).until = entry.until /\ Failed(e).level = entry.level)
<1> DEFINE e == IF AfterCleanup = NoEntry THEN [NoEntry EXCEPT !.start = now] ELSE AfterCleanup
<1>0. /\ now \in Nat /\ entry \in RateEntries /\ failures \in Seq(Nat) /\ inFlight \in 1..MaxInFlight
      /\ InOrder(failures, now) /\ MaxFailures \in Nat \ {0, 1} /\ MaxInFlight \in Nat \ {0}
  BY LimitsTyped DEF RateTypes, RateTypeOK, Spread
<1>1. CASE AfterCleanup = NoEntry
  <2>1. e = [NoEntry EXCEPT !.start = now]
    BY <1>1
  <2>2. e \in RateEntries /\ e.attempts = 0 /\ e.start = now /\ e.until = Never
    BY <1>0, <2>1, NoEntryTyped DEF NoEntry, RateEntries
  <2> HIDE DEF e
  <2>3. WindowDuration(e.level) \in Nat
    BY <2>2, EntryTyped
  <2>4. ~WindowOver(e)
    BY <1>0, <2>2, <2>3 DEF WindowOver
  <2>5. Failed(e) \in RateEntries /\ Failed(e).attempts = 1 /\ Failed(e).start = now /\ Failed(e).until = Never
    BY <1>0, <2>2, <2>4, FailedEntry
  <2>6. Spread(failures, NoEntry, now, inFlight)
    <3>1. CASE entry = NoEntry
      BY <3>1
    <3>2. CASE entry # NoEntry
      <4>1. WindowOver(entry) /\ ~Locked(entry)
        BY <1>1, <3>2, CleanupKeeps
      <4>2. now - entry.start > WindowDuration(entry.level) /\ ~Held(entry, now)
        BY <4>1 DEF WindowOver, Locked, Held
      <4>3. inFlight \in Nat
        BY <1>0
      <4> QED BY <1>0, <3>2, <4>2, <4>3, SpreadDropped
    <3> QED BY <3>1, <3>2
  <2>7. \A i \in 1..Len(failures) : Recent(failures, now, i) => Len(failures) - i + 1 <= MaxFailures + MaxInFlight - 3
    <3> SUFFICES ASSUME NEW i \in 1..Len(failures), Recent(failures, now, i)
                 PROVE  Len(failures) - i + 1 <= MaxFailures + MaxInFlight - 3
      OBVIOUS
    <3>1. Len(failures) - i + 1 <= MaxFailures - 2
      BY <2>6 DEF Spread
    <3> QED BY <1>0, <3>1
  <2>8. Spread(Append(failures, now), Failed(e), now, inFlight - 1)
    BY <1>0, <2>5, <2>7, SpreadOpens
  <2> QED BY <2>5, <2>8 DEF e
<1>2. CASE AfterCleanup # NoEntry /\ WindowOver(entry)
  <2>1. e = entry /\ entry # NoEntry
    BY <1>2, CleanupKeeps
  <2> HIDE DEF e
  <2>2. Failed(e) \in RateEntries /\ Failed(e).attempts = 1 /\ Failed(e).start = now /\ Failed(e).until = Never
    BY <1>0, <1>2, <2>1, FailedEntry
  <2>3. ASSUME NEW i \in 1..Len(failures), Recent(failures, now, i)
        PROVE  Len(failures) - i + 1 <= MaxFailures + MaxInFlight - 3
    <3> DEFINE n == Len(failures)
               a == entry.attempts
    <3>1. /\ n \in Nat /\ a \in 1..n /\ failures[n - a + 1] = entry.start
          /\ \A j \in 1..n : failures[j] \in Nat
          /\ \A j, l \in 1..n : j <= l => failures[j] <= failures[l]
      <4>1. a \in 1..n /\ failures[n - a + 1] = entry.start
        BY <2>1 DEF Spread
      <4>2. /\ n \in Nat /\ \A j \in 1..n : failures[j] \in Nat
            /\ \A j, l \in 1..n : j <= l => failures[j] <= failures[l]
        BY SpreadOrder
      <4> QED BY <4>1, <4>2
    <3>2. /\ BaseWindow \in Nat /\ entry.start \in Int /\ WindowDuration(entry.level) \in Nat
          /\ WindowDuration(entry.level) >= BaseWindow /\ now - entry.start > WindowDuration(entry.level)
      BY <1>0, <1>2, EntryTyped, LimitsTyped DEF WindowOver
    <3>3. n - a + 1 \in 1..n
      BY <3>1, FirstOfLast
    <3>4. i >= n - a + 2
      <4>1. ASSUME i <= n - a + 1 PROVE FALSE
        <5>1. failures[i] <= entry.start
          BY <3>1, <3>3, <4>1
        <5>2. failures[i] \in Nat /\ now - failures[i] < BaseWindow
          BY <2>3, <3>1 DEF Recent
        <5> QED BY <1>0, <3>2, <5>1, <5>2
      <4>2. i \in Int /\ n - a + 1 \in Int /\ n - a + 2 = (n - a + 1) + 1
        BY <3>1, <3>3
      <4> QED BY <4>1, <4>2
    <3>5. IF Held(entry, now) THEN n - i + 1 + inFlight <= MaxFailures + MaxInFlight - 2 ELSE n - i + 1 <= MaxFailures - 2
      BY <2>1, <2>3, <3>4 DEF Spread
    <3> HIDE DEF n
    <3>6. n \in Nat /\ i \in Nat
      BY <3>1
    <3>7. n - i + 1 <= MaxFailures + MaxInFlight - 3
      BY <1>0, <3>5, <3>6
    <3> QED BY <3>7 DEF n
  <2>4. Spread(Append(failures, now), Failed(e), now, inFlight - 1)
    BY <1>0, <2>2, <2>3, SpreadOpens
  <2> QED BY <2>2, <2>4 DEF e
<1>3. CASE AfterCleanup # NoEntry /\ ~WindowOver(entry)
  <2>1. e = entry /\ entry # NoEntry
    BY <1>3, CleanupKeeps
  <2> HIDE DEF e
  <2>2. /\ Failed(e) \in RateEntries
        /\ Failed(e).attempts = entry.attempts + 1 /\ Failed(e).start = entry.start /\ Failed(e).level = entry.level
        /\ Failed(e).until = IF entry.attempts + 1 >= MaxFailures THEN now + WindowDuration(entry.level) ELSE entry.until
    BY <1>0, <1>3, <2>1, FailedEntry
  <2>3. Spread(Append(failures, now), Failed(e), now, inFlight - 1)
    BY <1>0, <2>1, <2>2, SpreadGoesOn
  <2>4. WindowDuration(entry.level) \in Nat
    BY <1>0, EntryTyped
  <2>5. \/ Failed(e).until <= now + WindowDuration(Failed(e).level)
        \/ (Failed(e).until = entry.until /\ Failed(e).level = entry.level)
    <3>1. CASE entry.attempts + 1 >= MaxFailures
      <4> DEFINE w == now + WindowDuration(entry.level)
      <4>1. w \in Int /\ Failed(e).until = w /\ now + WindowDuration(Failed(e).level) = w
        BY <1>0, <2>2, <2>4, <3>1
      <4> HIDE DEF w
      <4>2. w <= w
        BY <4>1
      <4>3. Failed(e).until <= now + WindowDuration(Failed(e).level)
        BY <4>1, <4>2
      <4> QED BY <4>3
    <3>2. CASE ~(entry.attempts + 1 >= MaxFailures)
      BY <2>2, <3>2
    <3> QED BY <3>1, <3>2
  <2> QED BY <2>2, <2>3, <2>5 DEF e
<1> QED BY <1>1, <1>2, <1>3

\* One step of the limiter keeps the invariant.
LEMMA RateStep == RateIInv /\ [RateNext]_rateVars => RateIInv'
<1> SUFFICES ASSUME RateIInv, [RateNext]_rateVars PROVE RateIInv'
  OBVIOUS
<1>0. /\ RateTypes /\ LockEnds /\ Spread(failures, entry, now, inFlight) /\ Bounded(failures)
      /\ now \in Nat /\ now \in 0..MaxNow /\ promise \in Int /\ inFlight \in Nat /\ inFlight \in 0..MaxInFlight
      /\ entry \in RateEntries /\ failures \in Seq(Nat) /\ Len(failures) <= MaxRecorded
      /\ MaxInFlight \in Nat /\ MaxNow \in Nat /\ MaxRecorded \in Nat
      /\ entry.until \in Int /\ entry.level \in 0..MaxLevel /\ WindowDuration(entry.level) \in Nat
  BY RateAssumption, EntryTyped DEF RateIInv, RateTypes, RateTypeOK
<1>w. (WindowDuration(entry.level))' = WindowDuration(entry'.level)
  BY DEF WindowDuration
<1>1. CASE Admit
  <2>1. /\ entry' = AfterCleanup /\ UNCHANGED <<now, promise, failures>> /\ inFlight' = inFlight + 1
        /\ inFlight < MaxInFlight /\ ~Locked(entry)
    BY <1>1 DEF Admit
  <2>2. inFlight' \in Nat /\ inFlight' \in 0..MaxInFlight /\ ~Held(entry, now)
    BY <1>0, <2>1 DEF Locked, Held
  <2>3. Spread(failures, AfterCleanup, now, inFlight')
    <3>1. CASE AfterCleanup = entry
      BY <1>0, <2>2, <3>1, SpreadUnlocked
    <3>2. CASE AfterCleanup # entry
      <4>1. AfterCleanup = NoEntry /\ entry # NoEntry /\ WindowOver(entry)
        BY <3>2, CleanupKeeps
      <4>2. Spread(failures, NoEntry, now, inFlight)
        BY <1>0, <2>2, <4>1, SpreadDropped DEF WindowOver
      <4>3. ~Held(NoEntry, now)
        BY DEF Held
      <4> QED BY <4>1, <4>2, <4>3, SpreadUnlocked
    <3> QED BY <3>1, <3>2
  <2>4. entry' \in RateEntries /\ entry'.level \in 0..MaxLevel
    BY <1>0, <2>1, CleanupKeeps, NoEntryTyped, EntryTyped
  <2>5. RateTypes'
    BY <1>0, <2>1, <2>2, <2>4 DEF RateTypes, RateTypeOK
  <2>6. LockEnds'
    BY <1>0, <1>w, <2>1, CleanupKeeps, NoEntryTyped DEF LockEnds, Never
  <2> QED BY <1>0, <2>1, <2>3, <2>5, <2>6 DEF RateIInv
<1>2. CASE Refuse
  <2>1. /\ entry' = entry /\ UNCHANGED <<now, failures, inFlight>> /\ promise' = now + (entry.until - now) + 1
    BY <1>2, CleanupKeeps DEF Refuse
  <2>2. promise' \in Int /\ entry.until < promise'
    <3> DEFINE u == entry.until
    <3>1. u \in Int /\ promise' = now + (u - now) + 1
      BY <1>0, <2>1
    <3> HIDE DEF u
    <3>2. promise' \in Int /\ u < promise'
      BY <1>0, <3>1
    <3> QED BY <3>2 DEF u
  <2>3. RateTypes'
    BY <1>0, <2>1, <2>2 DEF RateTypes, RateTypeOK
  <2>4. LockEnds'
    BY <1>0, <1>w, <2>1, <2>2 DEF LockEnds, Never
  <2> QED BY <1>0, <2>1, <2>3, <2>4 DEF RateIInv
<1>3. CASE RecordFailure
  <2> DEFINE e == IF AfterCleanup = NoEntry THEN [NoEntry EXCEPT !.start = now] ELSE AfterCleanup
  <2>1. /\ entry' = Failed(e) /\ now' = now /\ promise' = Never /\ failures' = Append(failures, now)
        /\ inFlight > 0 /\ inFlight' = inFlight - 1 /\ Len(failures) < MaxRecorded
    BY <1>3 DEF RecordFailure
  <2>2. /\ Failed(e) \in RateEntries /\ Spread(Append(failures, now), Failed(e), now, inFlight - 1)
        /\ Failed(e).until # Never => \/ Failed(e).until <= now + WindowDuration(Failed(e).level)
                                      \/ (Failed(e).until = entry.until /\ Failed(e).level = entry.level)
    BY <1>0, <2>1, SpreadFails
  <2> HIDE DEF e
  <2>3. /\ Append(failures, now) \in Seq(Nat) /\ Len(Append(failures, now)) = Len(failures) + 1 /\ Len(failures) \in Nat
    BY <1>0, OneMore
  <2>4. inFlight - 1 \in Nat /\ inFlight - 1 \in 0..MaxInFlight
    BY <1>0, <2>1
  <2>5. RateTypes'
    <3>1. entry' \in RateEntries /\ entry'.level \in 0..MaxLevel
      BY <2>1, <2>2, EntryTyped
    <3>2. now' \in 0..MaxNow /\ now' \in Nat /\ promise' \in Int /\ inFlight' \in 0..MaxInFlight /\ inFlight' \in Nat
      BY <1>0, <2>1, <2>4 DEF Never
    <3>3. failures' \in Seq(Nat) /\ Len(failures') <= MaxRecorded
      BY <1>0, <2>1, <2>3
    <3> QED BY <3>1, <3>2, <3>3 DEF RateTypes, RateTypeOK
  <2>6. LockEnds'
    BY <1>0, <1>w, <2>1, <2>2 DEF LockEnds
  <2>7. Bounded(Append(failures, now))
    <3>1. \A i \in 1..(Len(failures) + 1) : Recent(Append(failures, now), now, i) => Len(failures) + 1 - i + 1 <= MostFailures
      <4> DEFINE g == Append(failures, now)
      <4>1. Len(g) = Len(failures) + 1 /\ Spread(g, Failed(e), now, inFlight - 1)
        BY <2>2, <2>3
      <4> HIDE DEF g
      <4>2. \A i \in 1..Len(g) : Recent(g, now, i) => Len(g) - i + 1 <= MostFailures
        BY <1>0, <2>2, <2>4, <4>1, SpreadIsFew
      <4> QED BY <4>1, <4>2 DEF g
    <3> QED BY <1>0, <3>1, BoundedGoesOn
  <2> QED BY <2>1, <2>2, <2>5, <2>6, <2>7 DEF RateIInv
<1>4. CASE RecordSuccess
  <2>1. /\ entry' = NoEntry /\ failures' = << >> /\ promise' = Never /\ now' = now
        /\ inFlight > 0 /\ inFlight' = inFlight - 1
    BY <1>4 DEF RecordSuccess
  <2>2. inFlight' \in Nat /\ inFlight' \in 0..MaxInFlight
    BY <1>0, <2>1
  <2>3. RateTypes'
    BY <1>0, <2>1, <2>2, NoEntryTyped, EntryTyped DEF RateTypes, RateTypeOK, Never
  <2>4. LockEnds'
    BY <2>1, NoEntryTyped DEF LockEnds
  <2>5. Spread(failures', entry', now', inFlight') /\ Bounded(failures')
    BY <2>1 DEF Spread, InOrder, Bounded
  <2> QED BY <2>3, <2>4, <2>5 DEF RateIInv
<1>5. CASE Tick
  <2>1. now < MaxNow /\ now' = now + 1 /\ UNCHANGED <<entry, promise, inFlight, failures>>
    BY <1>5 DEF Tick
  <2>2. RateTypes'
    BY <1>0, <2>1 DEF RateTypes, RateTypeOK
  <2>3. LockEnds'
    BY <1>0, <1>w, <2>1 DEF LockEnds
  <2>4. Spread(failures, entry, now + 1, inFlight)
    BY <1>0, SpreadLater
  <2> QED BY <1>0, <2>1, <2>2, <2>3, <2>4 DEF RateIInv
<1>6. CASE UNCHANGED rateVars
  <2>1. UNCHANGED <<now, entry, inFlight, failures, promise>>
    BY <1>6 DEF rateVars
  <2> QED BY <1>0, <1>w, <2>1 DEF RateIInv, RateTypes, RateTypeOK, LockEnds
<1> QED BY <1>1, <1>2, <1>3, <1>4, <1>5, <1>6 DEF RateNext

\* The inductive invariant of the limiter.
LEMMA RateIInvHolds == RateSpec => []RateIInv
<1>1. ASSUME RateInit PROVE RateIInv
  <2>1. now = 0 /\ entry = NoEntry /\ inFlight = 0 /\ failures = << >> /\ promise = Never
    BY <1>1 DEF RateInit
  <2>2. RateTypes
    BY <2>1, NoEntryTyped, EntryTyped, RateAssumption DEF RateTypes, RateTypeOK, Never
  <2>3. LockEnds
    BY <2>1, NoEntryTyped DEF LockEnds
  <2>4. Spread(failures, entry, now, inFlight) /\ Bounded(failures)
    BY <2>1 DEF Spread, InOrder, Bounded
  <2> QED BY <2>2, <2>3, <2>4 DEF RateIInv
<1> QED BY <1>1, RateStep, PTL DEF RateSpec

\* RateLimit: for any limits, any number of attempts and any times, no base window sees more
\* failures than the ends of two windows hold, and an attempt made when Retry-After said so is
\* admitted.
THEOREM RateInvHolds == RateSpec => []RateInv
<1>1. ASSUME RateIInv PROVE RateInv
  <2>1. RateTypeOK
    BY <1>1 DEF RateIInv, RateTypes
  <2>2. FailuresBounded
    <3>1. failures \in Seq(Nat) /\ Bounded(failures)
      BY <1>1 DEF RateIInv, RateTypes
    <3>2. \A i \in 1..Len(failures) :
            Cardinality({j \in i..Len(failures) : failures[j] - failures[i] < BaseWindow}) <= MostFailures
      BY <3>1, BoundedCounts
    <3> QED BY <3>2 DEF FailuresBounded, MostFailures
  <2>3. RetryAfterIsEnough
    BY <1>1 DEF RateIInv, RateTypes, RateEntries, LockEnds, RetryAfterIsEnough, Locked, Never
  <2> QED BY <2>1, <2>2, <2>3 DEF RateInv
<1> QED BY <1>1, RateIInvHolds, PTL

\* Access: a login that answers success hands out the stored token, and no failure and no cleanup
\* ends a lock early while its window lasts.
THEOREM AnswersAreTrueHolds == RateSpec /\ AuthSpec => AnswersAreTrue
<1> DEFINE A == Locked(entry) /\ ~WindowOver(entry) /\ failures' # << >>
                  => entry'.until # Never /\ entry'.until >= entry.until
<1>1. RateIInv /\ [RateNext]_rateVars => [A]_rateVars
  <2> SUFFICES ASSUME RateIInv, RateNext, Locked(entry), ~WindowOver(entry), failures' # << >>
               PROVE  entry'.until # Never /\ entry'.until >= entry.until
    BY DEF A
  <2>0. /\ now \in Nat /\ entry \in RateEntries /\ entry.until \in Int
        /\ entry.until <= now + WindowDuration(entry.level) /\ WindowDuration(entry.level) \in Nat
        /\ entry # NoEntry /\ entry.until # Never /\ now < entry.until
    BY EntryTyped DEF RateIInv, RateTypes, LockEnds, Locked
  <2>1. CASE Admit
    BY <2>1 DEF Admit
  <2>2. CASE Refuse \/ Tick
    <3>1. entry' = entry
      BY <2>2, CleanupKeeps DEF Refuse, Tick
    <3> QED BY <2>0, <3>1
  <2>3. CASE RecordFailure
    <3>1. AfterCleanup = entry
      BY CleanupKeeps
    <3>2. entry' = Failed(entry)
      BY <2>0, <2>3, <3>1 DEF RecordFailure
    <3>3. entry'.until = IF entry.attempts + 1 >= MaxFailures THEN now + WindowDuration(entry.level) ELSE entry.until
      BY <2>0, <3>2, FailedEntry
    <3> QED BY <2>0, <3>3 DEF Never
  <2>4. CASE RecordSuccess
    BY <2>4 DEF RecordSuccess
  <2> QED BY <2>1, <2>2, <2>3, <2>4 DEF RateNext
<1>2. RateSpec => LockRunsItsTime
  BY <1>1, RateIInvHolds, PTL DEF RateSpec, LockRunsItsTime
<1> QED BY <1>2, LoginCookieWorksHolds DEF AnswersAreTrue

-----------------------------------------------------------------------------
(* The controls of the settings page *)

Asked == [kind : {"get", "set"}, id : Nat \ {0}, switch : Switches, on : BOOLEAN, before : BOOLEAN]
Answers == [id : Nat \ {0}, ok : BOOLEAN, value : BOOLEAN]

SetTypes ==
  /\ SettingsTypeOK
  /\ calls \subseteq Asked /\ requests \in Seq(Asked) /\ replies \in Seq(Answers)
  /\ newest \in [Switches -> Nat] /\ clicks \in Nat /\ loads \in Nat

\* Calls are numbered as they are made, requests queue in that order, and what is answered is older
\* than what is queued.
InTurn ==
  /\ \A r \in calls : r.id <= clicks + loads
  /\ \A r, q \in calls : r.id = q.id => r = q
  /\ \A i \in 1..Len(requests) :
       /\ requests[i].id <= clicks + loads /\ requests[i].id <= newest[requests[i].switch]
       /\ \A j \in 1..Len(requests) : i < j => requests[i].id < requests[j].id
       /\ \A r \in calls : r.id = requests[i].id => r = requests[i]
       /\ \A j \in 1..Len(replies) : replies[j].id < requests[i].id
  /\ \A j \in 1..Len(replies) : replies[j].id <= clicks + loads
  /\ \A s \in Switches : newest[s] <= clicks + loads

\* Once the newest call about a control is answered nothing about it is queued, and the value a load
\* brings is the one the device still has.
NewestIsLast ==
  /\ \A s \in Switches, i \in 1..Len(requests), j \in 1..Len(replies) :
       replies[j].id = newest[s] => requests[i].switch # s
  /\ \A r \in calls, j \in 1..Len(replies) :
       replies[j].id = r.id /\ r.id = newest[r.switch] /\ r.kind = "get" => replies[j].value = stored[r.switch]

\* A control that nothing has upset since page and device agreed: one call about it is under way at
\* most, it is the newest, and a change has reached the device exactly if it was handled and accepted.
Undisturbed(s) ==
  /\ \A r, q \in calls : r.switch = s /\ q.switch = s => r = q
  /\ \A r \in calls : r.switch = s => newest[s] = r.id
  /\ \A i \in 1..Len(requests) : requests[i].switch = s => requests[i] \in calls
  /\ (\A r \in calls : r.switch = s => r.kind = "get") => shown[s] = stored[s]
  /\ \A r \in calls : r.switch = s /\ r.kind = "set" =>
       /\ shown[s] = r.on
       /\ \A i \in 1..Len(requests) : requests[i] = r => stored[s] = r.before
       /\ \A j \in 1..Len(replies) : replies[j].id = r.id => stored[s] = IF replies[j].ok THEN r.on ELSE r.before
Agreed == \A s \in Switches : upsets[s] = {} => Undisturbed(s)

SetIInv == SetTypes /\ InTurn /\ NewestIsLast /\ Agreed

\* One flag of a function of flags is set.
LEMMA FlagSet ==
  ASSUME NEW S, NEW f \in [S -> BOOLEAN], NEW c \in S, NEW v \in BOOLEAN
  PROVE  [f EXCEPT ![c] = v] \in [S -> BOOLEAN]
<1> DEFINE T == BOOLEAN
<1>1. f \in [S -> T] /\ v \in T
  OBVIOUS
<1> HIDE DEF T
<1>2. [f EXCEPT ![c] = v] \in [S -> T]
  BY <1>1
<1> QED BY <1>2 DEF T

\* One more at the end of a queue.
LEMMA Queued ==
  ASSUME NEW S, NEW q \in Seq(S), NEW x \in S
  PROVE  /\ Append(q, x) \in Seq(S) /\ Len(q) \in Nat /\ Len(Append(q, x)) = Len(q) + 1
         /\ Append(q, x)[Len(q) + 1] = x
         /\ \A i \in 1..Len(q) : Append(q, x)[i] = q[i] /\ q[i] \in S
         /\ \A i \in 1..(Len(q) + 1) : i \in 1..Len(q) \/ i = Len(q) + 1
OBVIOUS

\* One less at the front.
LEMMA Unqueued ==
  ASSUME NEW S, NEW q \in Seq(S), q # << >>
  PROVE  /\ Tail(q) \in Seq(S) /\ Head(q) \in S /\ Len(q) \in Nat \ {0} /\ Len(Tail(q)) = Len(q) - 1
         /\ Head(q) = q[1] /\ 1 \in 1..Len(q) /\ \A i \in 1..Len(q) : q[i] \in S
         /\ \A i \in 1..(Len(q) - 1) : Tail(q)[i] = q[i + 1] /\ i + 1 \in 1..Len(q) /\ i \in Nat
OBVIOUS

\* The parts of a call.
LEMMA AskedTyped ==
  ASSUME NEW r \in Asked
  PROVE  r.kind \in {"get", "set"} /\ r.id \in Nat \ {0} /\ r.switch \in Switches
BY DEF Asked

\* The parts of an answer.
LEMMA AnswerTyped ==
  ASSUME NEW a \in Answers
  PROVE  a.id \in Nat \ {0} /\ a.value \in BOOLEAN
BY Zenon DEF Answers

\* The types, one by one.
LEMMA SetTyped ==
  ASSUME SetTypes
  PROVE  /\ shown \in [Switches -> BOOLEAN] /\ stored \in [Switches -> BOOLEAN] /\ upsets \in [Switches -> SUBSET Upsets]
         /\ calls \subseteq Asked /\ requests \in Seq(Asked) /\ replies \in Seq(Answers)
         /\ newest \in [Switches -> Nat] /\ clicks \in Nat /\ loads \in Nat
BY DEF SetTypes, SettingsTypeOK

\* A click or a load: a new call about s.
LEMMA AskStep ==
  ASSUME SetIInv, NEW s \in Switches, Click(s) \/ OpenPage(s)
  PROVE  SetIInv'
<1> DEFINE n == clicks + loads
           kind == IF Click(s) THEN "set" ELSE "get"
<1>0. /\ SetTypes /\ InTurn /\ NewestIsLast /\ Agreed
      /\ shown \in [Switches -> BOOLEAN] /\ stored \in [Switches -> BOOLEAN] /\ upsets \in [Switches -> SUBSET Upsets]
      /\ calls \subseteq Asked /\ requests \in Seq(Asked) /\ replies \in Seq(Answers)
      /\ newest \in [Switches -> Nat] /\ clicks \in Nat /\ loads \in Nat /\ n \in Nat
  BY SetTyped DEF SetIInv
<1>1. PICK r \in Asked :
        /\ r.id = n + 1 /\ r.switch = s /\ r.before = shown[s]
        /\ calls' = calls \cup {r} /\ requests' = Append(requests, r) /\ newest' = [newest EXCEPT ![s] = r.id]
        /\ upsets' = [upsets EXCEPT ![s] = IF \E c \in calls : c.switch = s THEN upsets[s] \cup {"overlap"} ELSE upsets[s]]
        /\ r.kind = "set" => shown' = [shown EXCEPT ![s] = r.on] /\ r.on \in BOOLEAN
        /\ r.kind = "get" => shown' = shown
        /\ clicks' + loads' = n + 1 /\ clicks' \in Nat /\ loads' \in Nat /\ UNCHANGED <<stored, replies>>
  <2>0. shown[s] \in BOOLEAN /\ (~shown[s]) \in BOOLEAN
    BY <1>0, Zenon
  <2>1. CASE Click(s)
    <3> DEFINE r == [kind |-> "set", id |-> clicks + loads + 1, switch |-> s, on |-> ~shown[s], before |-> shown[s]]
    <3>1. r \in Asked
      <4> DEFINE T == BOOLEAN
                 v == shown[s]
                 w == ~shown[s]
      <4>1. v \in T /\ w \in T
        BY <2>0
      <4> HIDE DEF T, v, w
      <4>2. [kind |-> "set", id |-> n + 1, switch |-> s, on |-> w, before |-> v]
              \in [kind : {"get", "set"}, id : Nat \ {0}, switch : Switches, on : T, before : T]
        BY <1>0, <4>1
      <4> QED BY <4>2 DEF T, v, w, Asked
    <3>2. /\ calls' = calls \cup {r} /\ requests' = Append(requests, r) /\ newest' = [newest EXCEPT ![s] = r.id]
          /\ upsets' = [upsets EXCEPT ![s] = IF \E c \in calls : c.switch = s THEN upsets[s] \cup {"overlap"} ELSE upsets[s]]
          /\ shown' = [shown EXCEPT ![s] = ~shown[s]] /\ clicks' = clicks + 1 /\ UNCHANGED <<stored, replies, loads>>
      BY <2>1 DEF Click, Ask
    <3>3. /\ r.id = n + 1 /\ r.switch = s /\ r.before = shown[s] /\ r.kind = "set" /\ r.on = ~shown[s]
      OBVIOUS
    <3>4. clicks' + loads' = n + 1 /\ clicks' \in Nat /\ loads' \in Nat
      BY <1>0, <3>2
    <3>5. shown' = [shown EXCEPT ![s] = r.on] /\ r.on \in BOOLEAN
      BY <2>0, <3>2, <3>3
    <3> HIDE DEF r
    <3> QED BY <3>1, <3>2, <3>3, <3>4, <3>5
  <2>2. CASE OpenPage(s)
    <3> DEFINE r == [kind |-> "get", id |-> clicks + loads + 1, switch |-> s, on |-> FALSE, before |-> shown[s]]
    <3>1. r \in Asked
      <4> DEFINE T == BOOLEAN
                 v == shown[s]
                 w == FALSE
      <4>1. v \in T /\ w \in T
        BY <2>0
      <4> HIDE DEF T, v, w
      <4>2. [kind |-> "get", id |-> n + 1, switch |-> s, on |-> w, before |-> v]
              \in [kind : {"get", "set"}, id : Nat \ {0}, switch : Switches, on : T, before : T]
        BY <1>0, <4>1
      <4> QED BY <4>2 DEF T, v, w, Asked
    <3>2. /\ calls' = calls \cup {r} /\ requests' = Append(requests, r) /\ newest' = [newest EXCEPT ![s] = r.id]
          /\ upsets' = [upsets EXCEPT ![s] = IF \E c \in calls : c.switch = s THEN upsets[s] \cup {"overlap"} ELSE upsets[s]]
          /\ shown' = shown /\ loads' = loads + 1 /\ UNCHANGED <<stored, replies, clicks>>
      BY <2>2 DEF OpenPage, Ask
    <3>3. /\ r.id = n + 1 /\ r.switch = s /\ r.before = shown[s] /\ r.kind = "get"
      OBVIOUS
    <3>4. clicks' + loads' = n + 1 /\ clicks' \in Nat /\ loads' \in Nat
      BY <1>0, <3>2
    <3> HIDE DEF r
    <3> QED BY <3>1, <3>2, <3>3, <3>4
  <2> QED BY <2>1, <2>2
<1> HIDE DEF n
<1>2. r.kind \in {"get", "set"} /\ r.id \in Nat
  BY AskedTyped
<1>3. /\ requests' \in Seq(Asked) /\ Len(requests) \in Nat /\ Len(requests') = Len(requests) + 1
      /\ requests'[Len(requests) + 1] = r
      /\ \A i \in 1..Len(requests) : requests'[i] = requests[i] /\ requests[i] \in Asked
      /\ \A i \in 1..(Len(requests) + 1) : i \in 1..Len(requests) \/ i = Len(requests) + 1
  BY <1>0, <1>1, Queued
<1>4. /\ newest' \in [Switches -> Nat] /\ newest'[s] = n + 1 /\ \A t \in Switches \ {s} : newest'[t] = newest[t]
      /\ \A t \in Switches : newest[t] \in Nat /\ newest[t] <= n /\ newest'[t] <= n + 1 /\ newest[t] <= newest'[t]
  BY <1>0, <1>1, <1>2 DEF InTurn, n
<1>5. /\ upsets' \in [Switches -> SUBSET Upsets] /\ \A t \in Switches \ {s} : upsets'[t] = upsets[t]
      /\ upsets'[s] = {} => upsets[s] = {} /\ \A c \in calls : c.switch # s
  BY <1>0, <1>1 DEF Upsets
<1>6. shown' \in [Switches -> BOOLEAN] /\ \A t \in Switches \ {s} : shown'[t] = shown[t]
  <2>1. CASE r.kind = "set"
    BY <1>0, <1>1, <2>1, FlagSet
  <2>2. CASE r.kind = "get"
    BY <1>0, <1>1, <2>2
  <2> QED BY <1>2, <2>1, <2>2
<1>7. /\ \A c \in calls : c.id \in Nat /\ c.id <= n /\ c.switch \in Switches
      /\ \A i \in 1..Len(requests) : requests[i].id \in Nat /\ requests[i].id <= n /\ requests[i].switch \in Switches
      /\ \A j \in 1..Len(replies) : replies[j].id \in Nat /\ replies[j].id <= n
  <2>1. \A j \in 1..Len(replies) : replies[j].id \in Nat
    <3>1. \A j \in 1..Len(replies) : replies[j] \in Answers
      BY <1>0
    <3> QED BY <3>1, AnswerTyped
  <2> QED BY <1>0, <1>3, <2>1, AskedTyped DEF InTurn, n
<1>8. InTurn'
  <2>1. \A c \in calls' : c.id <= n + 1
    BY <1>0, <1>1, <1>7
  <2>2. ASSUME NEW c \in calls', NEW d \in calls', c.id = d.id PROVE c = d
    <3>1. \A b \in calls : b.id # n + 1
      BY <1>0, <1>7
    <3> QED BY <1>0, <1>1, <2>2, <3>1 DEF InTurn
  <2>3. ASSUME NEW i \in 1..Len(requests')
        PROVE  /\ requests'[i].id <= n + 1 /\ requests'[i].id <= newest'[requests'[i].switch]
               /\ \A j \in 1..Len(requests') : i < j => requests'[i].id < requests'[j].id
               /\ \A c \in calls' : c.id = requests'[i].id => c = requests'[i]
               /\ \A j \in 1..Len(replies') : replies'[j].id < requests'[i].id
    <3>1. CASE i = Len(requests) + 1
      <4>1. requests'[i] = r
        BY <1>3, <3>1
      <4>2. \A j \in 1..Len(requests') : ~(i < j)
        BY <1>3, <3>1
      <4>3. \A c \in calls' : c.id = n + 1 => c = r
        BY <1>0, <1>1, <1>7
      <4>4. \A j \in 1..Len(replies') : replies'[j].id < n + 1
        BY <1>0, <1>1, <1>7
      <4> QED BY <1>0, <1>1, <1>4, <4>1, <4>2, <4>3, <4>4
    <3>2. CASE i \in 1..Len(requests)
      <4>1. requests'[i] = requests[i] /\ requests[i].id \in Nat /\ requests[i].id <= n /\ requests[i].switch \in Switches
        BY <1>3, <1>7, <3>2
      <4>2. requests[i].id <= newest[requests[i].switch]
        BY <1>0, <3>2 DEF InTurn
      <4>3. requests[i].id <= newest'[requests[i].switch]
        BY <1>4, <4>1, <4>2
      <4>4. \A j \in 1..Len(requests') : i < j => requests[i].id < requests'[j].id
        <5> SUFFICES ASSUME NEW j \in 1..Len(requests'), i < j PROVE requests[i].id < requests'[j].id
          OBVIOUS
        <5>1. CASE j = Len(requests) + 1
          BY <1>0, <1>1, <1>3, <4>1, <5>1
        <5>2. CASE j \in 1..Len(requests)
          BY <1>0, <1>3, <3>2, <5>2 DEF InTurn
        <5> QED BY <1>3, <5>1, <5>2
      <4>5. \A c \in calls' : c.id = requests[i].id => c = requests[i]
        <5>1. r.id # requests[i].id
          BY <1>0, <1>1, <4>1
        <5>2. \A c \in calls : c.id = requests[i].id => c = requests[i]
          BY <1>0, <3>2 DEF InTurn
        <5> QED BY <1>1, <5>1, <5>2
      <4>6. \A j \in 1..Len(replies) : replies[j].id < requests[i].id
        BY <1>0, <3>2 DEF InTurn
      <4> QED BY <1>0, <1>1, <4>1, <4>3, <4>4, <4>5, <4>6
    <3> QED BY <1>3, <3>1, <3>2
  <2>4. \A j \in 1..Len(replies') : replies'[j].id <= n + 1
    BY <1>0, <1>1, <1>7
  <2> QED BY <1>1, <1>4, <2>1, <2>2, <2>3, <2>4 DEF InTurn
<1>9. NewestIsLast'
  <2>1. ASSUME NEW t \in Switches, NEW i \in 1..Len(requests'), NEW j \in 1..Len(replies), replies[j].id = newest'[t]
        PROVE  requests'[i].switch # t
    <3>1. t # s
      BY <1>0, <1>4, <1>7, <2>1
    <3>2. newest[t] = replies[j].id
      BY <1>4, <2>1, <3>1
    <3>3. CASE i = Len(requests) + 1
      BY <1>1, <1>3, <3>1, <3>3
    <3>4. CASE i \in 1..Len(requests)
      BY <1>0, <1>3, <3>2, <3>4 DEF NewestIsLast
    <3> QED BY <1>3, <3>3, <3>4
  <2>2. ASSUME NEW c \in calls', NEW j \in 1..Len(replies), replies[j].id = c.id, c.id = newest'[c.switch], c.kind = "get"
        PROVE  replies[j].value = stored[c.switch]
    <3>1. c # r /\ c \in calls
      BY <1>0, <1>1, <1>7, <2>2
    <3>2. c.switch # s
      BY <1>0, <1>4, <1>7, <2>2, <3>1
    <3>3. newest[c.switch] = c.id
      BY <1>4, <1>7, <2>2, <3>1, <3>2
    <3> QED BY <1>0, <2>2, <3>1, <3>3 DEF NewestIsLast
  <2> QED BY <1>1, <2>1, <2>2 DEF NewestIsLast
<1>10. Agreed'
  <2> SUFFICES ASSUME NEW t \in Switches, upsets'[t] = {} PROVE Undisturbed(t)'
    BY DEF Agreed
  <2>1. upsets[t] = {} /\ Undisturbed(t)
    BY <1>0, <1>5 DEF Agreed
  <2>2. CASE t # s
    <3>1. /\ \A c \in calls' : c.switch = t => c \in calls
          /\ \A i \in 1..Len(requests') : requests'[i].switch = t => i \in 1..Len(requests) /\ requests'[i] = requests[i]
          /\ shown'[t] = shown[t] /\ newest'[t] = newest[t]
      BY <1>1, <1>3, <1>4, <1>6, <2>2
    <3>2. /\ \A c, q \in calls' : c.switch = t /\ q.switch = t => c = q
          /\ \A c \in calls' : c.switch = t => newest'[t] = c.id
          /\ \A i \in 1..Len(requests') : requests'[i].switch = t => requests'[i] \in calls'
          /\ (\A c \in calls' : c.switch = t => c.kind = "get") => shown'[t] = stored[t]
      BY <1>1, <2>1, <3>1 DEF Undisturbed
    <3>3. ASSUME NEW c \in calls', c.switch = t, c.kind = "set"
          PROVE  /\ shown'[t] = c.on
                 /\ \A i \in 1..Len(requests') : requests'[i] = c => stored[t] = c.before
                 /\ \A j \in 1..Len(replies) : replies[j].id = c.id => stored[t] = IF replies[j].ok THEN c.on ELSE c.before
      BY <2>1, <3>1, <3>3 DEF Undisturbed
    <3> QED BY <1>1, <3>2, <3>3 DEF Undisturbed
  <2>3. CASE t = s
    <3>1. /\ \A c \in calls : c.switch # s
          /\ \A c \in calls' : c.switch = s => c = r
      BY <1>1, <1>5, <2>3
    <3>2. shown[s] = stored[s] /\ \A i \in 1..Len(requests) : requests[i].switch # s
      BY <2>1, <2>3, <3>1 DEF Undisturbed
    <3>3. \A i \in 1..Len(requests') : requests'[i].switch = s => requests'[i] = r
      BY <1>3, <3>2
    <3>4. r.kind = "get" => shown'[s] = stored[s]
      BY <1>1, <3>2
    <3>5. r.kind = "set" => shown'[s] = r.on
      BY <1>0, <1>1
    <3>6. \A j \in 1..Len(replies) : replies[j].id # r.id
      BY <1>0, <1>1, <1>7
    <3>7. /\ \A c, q \in calls' : c.switch = s /\ q.switch = s => c = q
          /\ \A c \in calls' : c.switch = s => newest'[s] = c.id
          /\ \A i \in 1..Len(requests') : requests'[i].switch = s => requests'[i] \in calls'
          /\ (\A c \in calls' : c.switch = s => c.kind = "get") => shown'[s] = stored[s]
      BY <1>1, <1>4, <3>1, <3>3, <3>4
    <3>8. ASSUME NEW c \in calls', c.switch = s, c.kind = "set"
          PROVE  /\ shown'[s] = c.on
                 /\ \A i \in 1..Len(requests') : requests'[i] = c => stored[s] = c.before
                 /\ \A j \in 1..Len(replies) : replies[j].id = c.id => stored[s] = IF replies[j].ok THEN c.on ELSE c.before
      BY <1>1, <3>1, <3>2, <3>5, <3>6, <3>8
    <3> QED BY <1>1, <2>3, <3>7, <3>8 DEF Undisturbed
  <2> QED BY <2>2, <2>3
<1>11. SetTypes'
  <2>1. calls' \subseteq Asked /\ \A c \in calls' : c.id <= clicks' + loads'
    BY <1>0, <1>1, <1>8 DEF InTurn
  <2>2. ASSUME NEW c \in calls' PROVE c.kind \in {"get", "set"} /\ c.id \in 1..(clicks' + loads')
    <3>1. c.kind \in {"get", "set"} /\ c.id \in Nat \ {0} /\ c.id <= clicks' + loads'
      BY <2>1, AskedTyped
    <3> QED BY <1>1, <3>1
  <2>3. stored' \in [Switches -> BOOLEAN] /\ replies' \in Seq(Answers)
    BY <1>0, <1>1
  <2>4. SettingsTypeOK'
    BY <1>5, <1>6, <2>2, <2>3 DEF SettingsTypeOK
  <2> QED BY <1>1, <1>3, <1>4, <2>1, <2>3, <2>4 DEF SetTypes
<1> QED BY <1>8, <1>9, <1>10, <1>11 DEF SetIInv

\* The device handles the request at the front, in one of its four ways.
LEMMA HandleStep ==
  ASSUME SetIInv, DeviceGets \/ DeviceSets \/ DeviceRefuses \/ DeviceSaveFails
  PROVE  SetIInv'
<1> DEFINE r == Head(requests)
           s == r.switch
           n == clicks + loads
<1>0. /\ SetTypes /\ InTurn /\ NewestIsLast /\ Agreed
      /\ shown \in [Switches -> BOOLEAN] /\ stored \in [Switches -> BOOLEAN] /\ upsets \in [Switches -> SUBSET Upsets]
      /\ calls \subseteq Asked /\ requests \in Seq(Asked) /\ replies \in Seq(Answers)
      /\ newest \in [Switches -> Nat] /\ clicks \in Nat /\ loads \in Nat /\ n \in Nat
  BY SetTyped DEF SetIInv
<1>1. /\ requests # << >> /\ requests' = Tail(requests) /\ UNCHANGED <<shown, calls, newest, clicks, loads>>
  BY DEF DeviceGets, DeviceSets, DeviceRefuses, DeviceSaveFails, Handle
<1>2. /\ requests' \in Seq(Asked) /\ r \in Asked /\ Len(requests) \in Nat \ {0} /\ Len(requests') = Len(requests) - 1
      /\ r = requests[1] /\ 1 \in 1..Len(requests)
      /\ \A i \in 1..Len(requests) : requests[i] \in Asked
      /\ \A i \in 1..Len(requests') : requests'[i] = requests[i + 1] /\ i + 1 \in 1..Len(requests) /\ i \in Nat
  BY <1>0, <1>1, Unqueued
<1>3. r.kind \in {"get", "set"} /\ r.id \in Nat \ {0} /\ s \in Switches /\ r.on \in BOOLEAN
  <2>1. r.on \in BOOLEAN
    BY <1>2, Zenon DEF Asked
  <2> QED BY <1>2, <2>1, AskedTyped
<1>4. PICK a \in Answers :
        /\ replies' = Append(replies, a) /\ a.id = r.id /\ a.value = stored[s]
        /\ stored' = stored \/ (r.kind = "set" /\ stored' = [stored EXCEPT ![s] = r.on])
        /\ \/ upsets' = upsets /\ (r.kind = "set" => stored'[s] = IF a.ok THEN r.on ELSE stored[s])
           \/ upsets' = [upsets EXCEPT ![s] = upsets[s] \cup {"saveFailed"}]
  <2>0. stored[s] \in BOOLEAN
    BY <1>0, <1>3, Zenon
  <2>1. ASSUME NEW ok \in BOOLEAN
        PROVE  [id |-> r.id, ok |-> ok, value |-> stored[s]] \in Answers
    <3> DEFINE T == BOOLEAN
               v == stored[s]
               d == r.id
    <3>1. ok \in T /\ v \in T /\ d \in Nat \ {0}
      BY <1>3, <2>0
    <3> HIDE DEF T, v, d
    <3>2. [id |-> d, ok |-> ok, value |-> v] \in [id : Nat \ {0}, ok : T, value : T]
      BY <3>1
    <3> QED BY <3>2 DEF T, v, d, Answers
  <2> DEFINE good == [id |-> r.id, ok |-> TRUE, value |-> stored[s]]
             bad == [id |-> r.id, ok |-> FALSE, value |-> stored[s]]
  <2>2. good \in Answers /\ good.id = r.id /\ good.value = stored[s] /\ good.ok = TRUE
    BY <2>1
  <2>3. bad \in Answers /\ bad.id = r.id /\ bad.value = stored[s] /\ bad.ok = FALSE
    BY <2>1
  <2>4. CASE DeviceGets
    <3>1. replies' = Append(replies, good) /\ r.kind = "get" /\ stored' = stored /\ upsets' = upsets
      BY <2>4 DEF DeviceGets, Handle
    <3> HIDE DEF good, r
    <3> QED BY <2>2, <3>1
  <2>5. CASE DeviceSets
    <3>1. replies' = Append(replies, good) /\ r.kind = "set" /\ stored' = [stored EXCEPT ![s] = r.on] /\ upsets' = upsets
      BY <2>5 DEF DeviceSets, Handle, Remember
    <3>2. stored'[s] = r.on
      BY <1>0, <1>3, <3>1
    <3> HIDE DEF good, r
    <3> QED BY <2>2, <3>1, <3>2
  <2>6. CASE DeviceRefuses
    <3>1. replies' = Append(replies, bad) /\ stored' = stored /\ upsets' = upsets
      BY <2>6 DEF DeviceRefuses, Handle
    <3> HIDE DEF bad, r
    <3> QED BY <2>3, <3>1
  <2>7. CASE DeviceSaveFails
    <3>1. /\ replies' = Append(replies, bad) /\ r.kind = "set" /\ stored' = [stored EXCEPT ![s] = r.on]
          /\ upsets' = [upsets EXCEPT ![s] = upsets[s] \cup {"saveFailed"}]
      BY <2>7 DEF DeviceSaveFails, Handle, Remember
    <3> HIDE DEF bad, r
    <3> QED BY <2>3, <3>1
  <2> QED BY <2>4, <2>5, <2>6, <2>7
<1> HIDE DEF r, n
<1>5. /\ replies' \in Seq(Answers) /\ Len(replies) \in Nat /\ Len(replies') = Len(replies) + 1
      /\ replies'[Len(replies) + 1] = a
      /\ \A j \in 1..Len(replies) : replies'[j] = replies[j] /\ replies[j] \in Answers
      /\ \A j \in 1..(Len(replies) + 1) : j \in 1..Len(replies) \/ j = Len(replies) + 1
  BY <1>0, <1>4, Queued
<1>6. stored' \in [Switches -> BOOLEAN] /\ \A t \in Switches \ {s} : stored'[t] = stored[t]
  <2>1. CASE stored' = stored
    BY <1>0, <2>1
  <2>2. CASE stored' = [stored EXCEPT ![s] = r.on]
    <3>1. stored' \in [Switches -> BOOLEAN]
      BY <1>0, <1>3, <2>2, FlagSet
    <3> QED BY <1>0, <2>2, <3>1
  <2> QED BY <1>4, <2>1, <2>2
<1>7. /\ upsets' \in [Switches -> SUBSET Upsets]
      /\ \A t \in Switches : upsets'[t] = {} => upsets[t] = {}
      /\ upsets'[s] = {} => (r.kind = "set" => stored'[s] = IF a.ok THEN r.on ELSE stored[s])
  <2>1. CASE upsets' = upsets /\ (r.kind = "set" => stored'[s] = IF a.ok THEN r.on ELSE stored[s])
    BY <1>0, <2>1
  <2>2. CASE upsets' = [upsets EXCEPT ![s] = upsets[s] \cup {"saveFailed"}]
    <3>1. upsets[s] \cup {"saveFailed"} \in SUBSET Upsets
      BY <1>0, <1>3 DEF Upsets
    <3>2. upsets' \in [Switches -> SUBSET Upsets]
      BY <1>0, <2>2, <3>1
    <3>3. upsets'[s] # {} /\ \A t \in Switches \ {s} : upsets'[t] = upsets[t]
      BY <1>0, <1>3, <2>2
    <3> QED BY <3>2, <3>3
  <2> QED BY <1>4, <2>1, <2>2
<1>8. /\ r.id <= n /\ r.id <= newest[s]
      /\ \A c \in calls : c.id = r.id => c = r
      /\ \A i \in 1..Len(requests') : r.id < requests'[i].id /\ requests'[i] \in Asked
      /\ \A j \in 1..Len(replies) : replies[j].id < r.id
  <2>1. /\ r.id <= n /\ r.id <= newest[s] /\ \A c \in calls : c.id = r.id => c = r
        /\ \A j \in 1..Len(replies) : replies[j].id < r.id
        /\ \A i \in 1..Len(requests) : 1 < i => r.id < requests[i].id
    BY <1>0, <1>2 DEF InTurn, n
  <2>2. \A i \in 1..Len(requests') : 1 < i + 1
    BY <1>2
  <2> QED BY <1>2, <2>1, <2>2
<1>9. InTurn'
  <2>1. ASSUME NEW i \in 1..Len(requests')
        PROVE  /\ requests'[i].id <= n /\ requests'[i].id <= newest[requests'[i].switch]
               /\ \A j \in 1..Len(requests') : i < j => requests'[i].id < requests'[j].id
               /\ \A c \in calls : c.id = requests'[i].id => c = requests'[i]
               /\ \A j \in 1..Len(replies') : replies'[j].id < requests'[i].id
    <3>1. requests'[i] = requests[i + 1] /\ i + 1 \in 1..Len(requests)
      BY <1>2
    <3>2. /\ requests'[i].id <= n /\ requests'[i].id <= newest[requests'[i].switch]
          /\ \A c \in calls : c.id = requests'[i].id => c = requests'[i]
          /\ \A j \in 1..Len(replies) : replies[j].id < requests'[i].id
      BY <1>0, <3>1 DEF InTurn, n
    <3>3. ASSUME NEW j \in 1..Len(requests'), i < j PROVE requests'[i].id < requests'[j].id
      <4>1. requests'[j] = requests[j + 1] /\ j + 1 \in 1..Len(requests) /\ i + 1 < j + 1
        BY <1>2, <3>3
      <4> QED BY <1>0, <3>1, <4>1 DEF InTurn
    <3>4. \A j \in 1..Len(replies') : replies'[j].id < requests'[i].id
      BY <1>4, <1>5, <1>8, <3>2
    <3> QED BY <3>2, <3>3, <3>4
  <2>2. \A j \in 1..Len(replies') : replies'[j].id <= n
    BY <1>0, <1>4, <1>5, <1>8 DEF InTurn, n
  <2>3. n' = n
    BY <1>1 DEF n
  <2>4. /\ \A c \in calls : c.id <= n /\ \A q \in calls : c.id = q.id => c = q
        /\ \A t \in Switches : newest[t] <= n
    BY <1>0 DEF InTurn, n
  <2> QED BY <1>1, <2>1, <2>2, <2>4 DEF InTurn, n
<1>10. NewestIsLast'
  <2>1. ASSUME NEW t \in Switches, NEW i \in 1..Len(requests'), NEW j \in 1..Len(replies'), replies'[j].id = newest[t]
        PROVE  requests'[i].switch # t
    <3>1. requests'[i] = requests[i + 1] /\ i + 1 \in 1..Len(requests)
      BY <1>2
    <3>2. CASE j \in 1..Len(replies)
      BY <1>0, <1>5, <2>1, <3>1, <3>2 DEF NewestIsLast
    <3>3. CASE j = Len(replies) + 1
      <4>1. newest[t] = r.id
        BY <1>4, <1>5, <2>1, <3>3
      <4>2. requests'[i].id \in Nat /\ r.id < requests'[i].id /\ requests'[i].id <= newest[requests'[i].switch]
        BY <1>0, <1>8, <3>1, AskedTyped DEF InTurn
      <4> QED BY <1>3, <4>1, <4>2
    <3> QED BY <1>5, <3>2, <3>3
  <2>2. ASSUME NEW c \in calls, NEW j \in 1..Len(replies'), replies'[j].id = c.id, c.id = newest[c.switch], c.kind = "get"
        PROVE  replies'[j].value = stored'[c.switch]
    <3>0. c.switch \in Switches
      BY <1>0, AskedTyped
    <3>1. CASE j \in 1..Len(replies)
      <4>1. c.switch # s
        BY <1>0, <1>2, <1>5, <2>2, <3>0, <3>1 DEF NewestIsLast
      <4>2. replies[j].value = stored[c.switch]
        BY <1>0, <1>5, <2>2, <3>1 DEF NewestIsLast
      <4> QED BY <1>5, <1>6, <3>0, <3>1, <4>1, <4>2
    <3>2. CASE j = Len(replies) + 1
      <4>1. c = r
        BY <1>4, <1>5, <1>8, <2>2, <3>2
      <4>2. stored' = stored
        BY <1>4, <2>2, <4>1
      <4> QED BY <1>4, <1>5, <3>2, <4>1, <4>2
    <3> QED BY <1>5, <3>1, <3>2
  <2> QED BY <1>1, <2>1, <2>2 DEF NewestIsLast
<1>11. Agreed'
  <2> SUFFICES ASSUME NEW t \in Switches, upsets'[t] = {} PROVE Undisturbed(t)'
    BY DEF Agreed
  <2>1. upsets[t] = {} /\ Undisturbed(t)
    BY <1>0, <1>7 DEF Agreed
  <2>2. /\ \A c, q \in calls : c.switch = t /\ q.switch = t => c = q
        /\ \A c \in calls : c.switch = t => newest[t] = c.id
        /\ \A i \in 1..Len(requests') : requests'[i].switch = t => requests'[i] \in calls
        /\ shown'[t] = shown[t]
    BY <1>1, <1>2, <2>1 DEF Undisturbed
  <2>3. (\A c \in calls : c.switch = t => c.kind = "get") => shown[t] = stored'[t]
    <3> SUFFICES ASSUME \A c \in calls : c.switch = t => c.kind = "get" PROVE shown[t] = stored'[t]
      OBVIOUS
    <3>1. shown[t] = stored[t]
      BY <2>1 DEF Undisturbed
    <3>2. t = s => r.kind = "get"
      BY <1>2, <2>1 DEF Undisturbed
    <3> QED BY <1>4, <1>6, <3>1, <3>2
  <2>4. ASSUME NEW c \in calls, c.switch = t, c.kind = "set"
        PROVE  /\ shown[t] = c.on
               /\ \A i \in 1..Len(requests') : requests'[i] = c => stored'[t] = c.before
               /\ \A j \in 1..Len(replies') : replies'[j].id = c.id => stored'[t] = IF replies'[j].ok THEN c.on ELSE c.before
    <3>1. /\ shown[t] = c.on
          /\ \A i \in 1..Len(requests) : requests[i] = c => stored[t] = c.before
          /\ \A j \in 1..Len(replies) : replies[j].id = c.id => stored[t] = IF replies[j].ok THEN c.on ELSE c.before
      BY <2>1, <2>4 DEF Undisturbed
    <3>2. CASE c = r
      <4>1. t = s /\ stored[t] = c.before
        BY <1>2, <2>4, <3>1, <3>2
      <4>2. \A i \in 1..Len(requests') : requests'[i] # c
        <5>1. \A i \in 1..Len(requests') : requests'[i].id \in Nat /\ r.id < requests'[i].id
          BY <1>8, AskedTyped
        <5> QED BY <1>3, <3>2, <5>1
      <4>3. \A j \in 1..Len(replies) : replies'[j].id # c.id
        <5>1. \A j \in 1..Len(replies) : replies[j].id \in Nat /\ replies[j].id < r.id
          BY <1>5, <1>8, AnswerTyped
        <5> QED BY <1>3, <1>5, <3>2, <5>1
      <4>4. stored'[t] = IF a.ok THEN c.on ELSE c.before
        BY <1>7, <2>4, <3>2, <4>1
      <4> QED BY <1>5, <3>1, <4>2, <4>3, <4>4
    <3>3. CASE c # r
      <4>1. t # s
        <5>1. s = t => r \in calls
          BY <1>2, <2>1 DEF Undisturbed
        <5> QED BY <2>2, <2>4, <3>3, <5>1
      <4>2. stored'[t] = stored[t]
        BY <1>6, <4>1
      <4>3. a.id # c.id
        BY <1>4, <1>8, <3>3
      <4>4. \A i \in 1..Len(requests') : requests'[i] = c => stored'[t] = c.before
        BY <1>2, <3>1, <4>2
      <4>5. \A j \in 1..Len(replies') : replies'[j].id = c.id => stored'[t] = IF replies'[j].ok THEN c.on ELSE c.before
        BY <1>5, <3>1, <4>2, <4>3
      <4> QED BY <3>1, <4>4, <4>5
    <3> QED BY <3>2, <3>3
  <2> QED BY <1>1, <2>2, <2>3, <2>4 DEF Undisturbed
<1>12. SetTypes'
  <2>1. SettingsTypeOK'
    BY <1>0, <1>1, <1>6, <1>7 DEF SettingsTypeOK, SetTypes
  <2> QED BY <1>0, <1>1, <1>2, <1>5, <2>1 DEF SetTypes
<1> QED BY <1>9, <1>10, <1>11, <1>12 DEF SetIInv

\* A call ends: the others stay as they were.
LEMMA AnswerStep ==
  ASSUME SetIInv, AnswerArrives
  PROVE  SetIInv'
<1> DEFINE a == Head(replies)
           mine == {c \in calls : c.id = a.id}
<1>0. /\ SetTypes /\ InTurn /\ NewestIsLast /\ Agreed
      /\ shown \in [Switches -> BOOLEAN] /\ stored \in [Switches -> BOOLEAN] /\ upsets \in [Switches -> SUBSET Upsets]
      /\ calls \subseteq Asked /\ requests \in Seq(Asked) /\ replies \in Seq(Answers)
      /\ newest \in [Switches -> Nat] /\ clicks \in Nat /\ loads \in Nat
  BY SetTyped DEF SetIInv
<1>1. /\ replies # << >> /\ replies' = Tail(replies) /\ calls' = calls \ mine
      /\ UNCHANGED <<stored, requests, newest, clicks, loads>>
  BY DEF AnswerArrives
<1>2. /\ replies' \in Seq(Answers) /\ a \in Answers /\ Len(replies) \in Nat \ {0} /\ Len(replies') = Len(replies) - 1
      /\ a = replies[1] /\ 1 \in 1..Len(replies)
      /\ \A j \in 1..Len(replies') : replies'[j] = replies[j + 1] /\ j + 1 \in 1..Len(replies)
  BY <1>0, <1>1, Unqueued
<1>3. calls' \subseteq calls
  BY <1>1
<1>4. InTurn'
  <2>1. /\ \A r \in calls' : r.id <= clicks + loads
        /\ \A r, q \in calls' : r.id = q.id => r = q
        /\ \A s \in Switches : newest[s] <= clicks + loads
    BY <1>0, <1>3 DEF InTurn
  <2>2. ASSUME NEW i \in 1..Len(requests)
        PROVE  /\ requests[i].id <= clicks + loads /\ requests[i].id <= newest[requests[i].switch]
               /\ \A j \in 1..Len(requests) : i < j => requests[i].id < requests[j].id
               /\ \A r \in calls' : r.id = requests[i].id => r = requests[i]
    BY <1>0, <1>3 DEF InTurn
  <2>3. ASSUME NEW j \in 1..Len(replies')
        PROVE  /\ replies'[j].id <= clicks + loads
               /\ \A i \in 1..Len(requests) : replies'[j].id < requests[i].id
    <3>1. j + 1 \in 1..Len(replies) /\ replies'[j] = replies[j + 1]
      BY <1>2
    <3> QED BY <1>0, <3>1 DEF InTurn
  <2> QED BY <1>1, <2>1, <2>2, <2>3 DEF InTurn
<1>5. NewestIsLast'
  <2>1. ASSUME NEW t \in Switches, NEW i \in 1..Len(requests), NEW j \in 1..Len(replies'), replies'[j].id = newest[t]
        PROVE  requests[i].switch # t
    BY <1>0, <1>2, <2>1 DEF NewestIsLast
  <2>2. ASSUME NEW c \in calls', NEW j \in 1..Len(replies'), replies'[j].id = c.id, c.id = newest[c.switch], c.kind = "get"
        PROVE  replies'[j].value = stored[c.switch]
    <3>1. c \in calls /\ j + 1 \in 1..Len(replies) /\ replies'[j] = replies[j + 1]
      BY <1>2, <1>3
    <3> QED BY <1>0, <2>2, <3>1 DEF NewestIsLast
  <2> QED BY <1>1, <2>1, <2>2 DEF NewestIsLast
\* A control whose calls, picture and upsets this answer leaves alone.
<1>6. ASSUME NEW t \in Switches, upsets[t] = {}, shown'[t] = shown[t], \A c \in calls : c.switch = t => c \in calls'
      PROVE  Undisturbed(t)'
  <2>1. Undisturbed(t)
    BY <1>0, <1>6 DEF Agreed
  <2>2. /\ \A c, q \in calls' : c.switch = t /\ q.switch = t => c = q
        /\ \A c \in calls' : c.switch = t => newest[t] = c.id
        /\ \A i \in 1..Len(requests) : requests[i].switch = t => requests[i] \in calls'
        /\ (\A c \in calls' : c.switch = t => c.kind = "get") => shown'[t] = stored[t]
    BY <1>3, <1>6, <2>1 DEF Undisturbed
  <2>3. ASSUME NEW c \in calls', c.switch = t, c.kind = "set"
        PROVE  /\ shown'[t] = c.on
               /\ \A i \in 1..Len(requests) : requests[i] = c => stored[t] = c.before
               /\ \A j \in 1..Len(replies') : replies'[j].id = c.id => stored[t] = IF replies'[j].ok THEN c.on ELSE c.before
    BY <1>2, <1>3, <1>6, <2>1, <2>3 DEF Undisturbed
  <2> QED BY <1>1, <2>2, <2>3 DEF Undisturbed
<1>7. shown' \in [Switches -> BOOLEAN] /\ upsets' \in [Switches -> SUBSET Upsets] /\ Agreed'
  <2>1. CASE mine = {}
    <3>1. UNCHANGED <<shown, upsets>>
      BY <2>1 DEF AnswerArrives
    <3>2. calls' = calls
      BY <1>1, <2>1
    <3> QED BY <1>0, <1>6, <3>1, <3>2 DEF Agreed
  <2>2. CASE mine # {}
    <3>1. PICK r \in mine :
             /\ CASE r.kind = "get" /\ a.ok -> shown' = [shown EXCEPT ![r.switch] = a.value]
                  [] r.kind = "set" /\ ~a.ok -> Revert(r)
                  [] OTHER -> UNCHANGED shown
             /\ upsets' = SettledBy(r, a.ok)
      <4> DEFINE q == CHOOSE c \in mine : TRUE
      <4>1. q \in mine
        BY <2>2
      <4>2. /\ CASE q.kind = "get" /\ a.ok -> shown' = [shown EXCEPT ![q.switch] = a.value]
                 [] q.kind = "set" /\ ~a.ok -> Revert(q)
                 [] OTHER -> UNCHANGED shown
            /\ upsets' = SettledBy(q, a.ok)
        BY <2>2 DEF AnswerArrives
      <4> HIDE DEF q
      <4> QED BY <4>1, <4>2
    <3> DEFINE s == r.switch
    <3>3. r \in calls /\ r \in Asked /\ r.id = a.id /\ r.kind \in {"get", "set"} /\ s \in Switches
      BY <1>0, <3>1, AskedTyped
    <3>4. mine = {r} /\ calls' = calls \ {r}
      BY <1>0, <1>1, <3>1, <3>3 DEF InTurn
    <3>5. a.value \in BOOLEAN /\ r.before \in BOOLEAN
      <4>1. r.before \in BOOLEAN
        BY <3>3, Zenon DEF Asked
      <4> QED BY <1>2, <4>1, AnswerTyped
    <3>6. /\ r.kind = "get" /\ a.ok => shown' = [shown EXCEPT ![s] = a.value]
          /\ r.kind = "set" /\ ~a.ok => shown' = [shown EXCEPT ![s] = r.before]
          /\ ~(r.kind = "get" /\ a.ok) /\ ~(r.kind = "set" /\ ~a.ok) => shown' = shown
      BY <3>1 DEF Revert
    <3>7. shown' \in [Switches -> BOOLEAN] /\ \A t \in Switches \ {s} : shown'[t] = shown[t]
      <4>1. CASE r.kind = "get" /\ a.ok
        BY <1>0, <3>3, <3>5, <3>6, <4>1, FlagSet
      <4>2. CASE r.kind = "set" /\ ~a.ok
        BY <1>0, <3>3, <3>5, <3>6, <4>2, FlagSet
      <4>3. CASE ~(r.kind = "get" /\ a.ok) /\ ~(r.kind = "set" /\ ~a.ok)
        BY <1>0, <3>6, <4>3
      <4> QED BY <4>1, <4>2, <4>3
    <3> DEFINE settled == r.kind = "get" /\ a.ok /\ newest[s] = r.id /\ ~\E c \in calls \ {r} : c.switch = s
    <3>8. /\ upsets' \in [Switches -> SUBSET Upsets] /\ \A t \in Switches \ {s} : upsets'[t] = upsets[t]
          /\ ~settled => upsets' = upsets
      BY <1>0, <3>1, <3>3 DEF SettledBy
    <3>9. ASSUME NEW t \in Switches, upsets'[t] = {} PROVE Undisturbed(t)'
      <4>1. CASE t # s
        BY <1>6, <3>4, <3>7, <3>8, <3>9, <4>1
      <4>2. CASE t = s
        <5>1. ASSUME ~\E c \in calls \ {r} : c.switch = s, \A i \in 1..Len(requests) : requests[i].switch # s,
                     shown'[s] = stored[s]
              PROVE  Undisturbed(s)'
          <6>1. \A c \in calls' : c.switch # s
            BY <3>4, <5>1
          <6> QED BY <1>1, <5>1, <6>1 DEF Undisturbed
        <5>2. CASE settled
          <6>1. \A i \in 1..Len(requests) : requests[i].switch # s
            BY <1>0, <1>2, <3>3, <5>2 DEF NewestIsLast
          <6>2. a.value = stored[s]
            <7>1. replies[1].id = r.id /\ r.id = newest[r.switch] /\ r.kind = "get" /\ 1 \in 1..Len(replies) /\ r \in calls
              BY <1>2, <3>3, <5>2
            <7>2. replies[1].value = stored[r.switch]
              BY <1>0, <7>1 DEF NewestIsLast
            <7> QED BY <1>2, <7>2
          <6>3. shown'[s] = stored[s]
            BY <1>0, <3>3, <3>6, <5>2, <6>2
          <6> QED BY <4>2, <5>1, <5>2, <6>1, <6>3
        <5>3. CASE ~settled
          <6>1. Undisturbed(s)
            BY <1>0, <3>8, <3>9, <4>2, <5>3 DEF Agreed
          <6>2. (~\E c \in calls \ {r} : c.switch = s) /\ newest[s] = r.id
            BY <3>3, <6>1 DEF Undisturbed
          <6>3. \A i \in 1..Len(requests) : requests[i].switch # s
            <7> SUFFICES ASSUME NEW i \in 1..Len(requests), requests[i].switch = s PROVE FALSE
              OBVIOUS
            <7>1. requests[i] \in calls
              BY <6>1 DEF Undisturbed
            <7>2. requests[i] = r
              BY <6>2, <7>1
            <7>3. a.id < requests[i].id
              BY <1>0, <1>2 DEF InTurn
            <7>4. a.id \in Nat
              BY <1>2, AnswerTyped
            <7> QED BY <3>3, <7>2, <7>3, <7>4
          <6>4. ~(r.kind = "get" /\ a.ok)
            BY <5>3, <6>2
          <6>5. CASE r.kind = "get"
            <7>1. shown' = shown
              BY <3>6, <6>4, <6>5
            <7>2. shown[s] = stored[s]
              BY <6>1, <6>2, <6>5 DEF Undisturbed
            <7> QED BY <4>2, <5>1, <6>2, <6>3, <7>1, <7>2
          <6>6. CASE r.kind = "set"
            <7>1. shown[s] = r.on /\ stored[s] = IF a.ok THEN r.on ELSE r.before
              BY <1>2, <3>3, <6>1, <6>6 DEF Undisturbed
            <7>2. shown'[s] = stored[s]
              BY <1>0, <3>3, <3>6, <6>6, <7>1
            <7> QED BY <4>2, <5>1, <6>2, <6>3, <7>2
          <6> QED BY <3>3, <6>5, <6>6
        <5> QED BY <5>2, <5>3
      <4> QED BY <4>1, <4>2
    <3> QED BY <3>7, <3>8, <3>9 DEF Agreed
  <2> QED BY <2>1, <2>2
<1>8. SetTypes'
  <2>1. SettingsTypeOK'
    BY <1>0, <1>1, <1>3, <1>7 DEF SettingsTypeOK, SetTypes
  <2> QED BY <1>0, <1>1, <1>2, <1>3, <2>1 DEF SetTypes
<1> QED BY <1>4, <1>5, <1>7, <1>8 DEF SetIInv

\* A call gives up: its control is upset.
LEMMA GiveUpStep ==
  ASSUME SetIInv, NEW r \in calls, GiveUp(r)
  PROVE  SetIInv'
<1> DEFINE s == r.switch
<1>0. /\ SetTypes /\ InTurn /\ NewestIsLast /\ Agreed
      /\ shown \in [Switches -> BOOLEAN] /\ stored \in [Switches -> BOOLEAN] /\ upsets \in [Switches -> SUBSET Upsets]
      /\ calls \subseteq Asked /\ requests \in Seq(Asked) /\ replies \in Seq(Answers)
      /\ newest \in [Switches -> Nat] /\ clicks \in Nat /\ loads \in Nat
  BY SetTyped DEF SetIInv
<1>1. /\ calls' = calls \ {r} /\ UNCHANGED <<stored, requests, replies, newest, clicks, loads>>
      /\ upsets' = [upsets EXCEPT ![s] = upsets[s] \cup {"timeout"}]
      /\ shown' = shown \/ shown' = [shown EXCEPT ![s] = r.before]
  BY DEF GiveUp, Revert
<1>2. r \in Asked /\ s \in Switches
  BY <1>0, AskedTyped
<1>3. r.before \in BOOLEAN
  BY <1>2, Zenon DEF Asked
<1>4. shown' \in [Switches -> BOOLEAN] /\ \A t \in Switches \ {s} : shown'[t] = shown[t]
  <2>1. CASE shown' = shown
    BY <1>0, <2>1
  <2>2. CASE shown' = [shown EXCEPT ![s] = r.before]
    <3>1. shown' \in [Switches -> BOOLEAN]
      BY <1>0, <1>2, <1>3, <2>2, FlagSet
    <3> QED BY <1>0, <2>2, <3>1
  <2> QED BY <1>1, <2>1, <2>2
<1>5. /\ upsets' \in [Switches -> SUBSET Upsets] /\ upsets'[s] # {}
      /\ \A t \in Switches \ {s} : upsets'[t] = upsets[t]
  BY <1>0, <1>1, <1>2 DEF Upsets
<1>6. InTurn'
  BY <1>0, <1>1 DEF InTurn
<1>7. NewestIsLast'
  BY <1>0, <1>1 DEF NewestIsLast
<1>8. Agreed'
  <2> SUFFICES ASSUME NEW t \in Switches, upsets'[t] = {} PROVE Undisturbed(t)'
    BY DEF Agreed
  <2>1. t # s /\ Undisturbed(t) /\ shown'[t] = shown[t]
    BY <1>0, <1>4, <1>5 DEF Agreed
  <2>2. /\ \A c, q \in calls' : c.switch = t /\ q.switch = t => c = q
        /\ \A c \in calls' : c.switch = t => newest[t] = c.id
        /\ \A i \in 1..Len(requests) : requests[i].switch = t => requests[i] \in calls'
        /\ (\A c \in calls' : c.switch = t => c.kind = "get") => shown'[t] = stored[t]
    BY <1>1, <2>1 DEF Undisturbed
  <2>3. ASSUME NEW c \in calls', c.switch = t, c.kind = "set"
        PROVE  /\ shown'[t] = c.on
               /\ \A i \in 1..Len(requests) : requests[i] = c => stored[t] = c.before
               /\ \A j \in 1..Len(replies) : replies[j].id = c.id => stored[t] = IF replies[j].ok THEN c.on ELSE c.before
    BY <1>1, <2>1, <2>3 DEF Undisturbed
  <2> QED BY <1>1, <2>2, <2>3 DEF Undisturbed
<1>9. SetTypes'
  <2>1. SettingsTypeOK'
    BY <1>0, <1>1, <1>4, <1>5 DEF SettingsTypeOK, SetTypes
  <2> QED BY <1>0, <1>1, <2>1 DEF SetTypes
<1> QED BY <1>6, <1>7, <1>8, <1>9 DEF SetIInv

\* ClientSettings: for any number of controls, clicks, loads, refusals and timeouts, a loaded control
\* shows what the device has unless a change of it is under way, or since the last load calls about
\* it overlapped, timed out or failed to be saved.
THEOREM SettingsInvHolds == SettingsSpec => []SettingsInv
<1>1. SettingsInit => SetIInv
  <2> SUFFICES ASSUME SettingsInit PROVE SetIInv
    OBVIOUS
  <2>1. shown \in [Switches -> BOOLEAN]
    BY DEF SettingsInit
  <2>2. upsets \in [Switches -> SUBSET Upsets] /\ \A s \in Switches : upsets[s] # {}
    BY DEF SettingsInit, Upsets
  <2>3. SettingsTypeOK
    BY <2>1, <2>2 DEF SettingsInit, SettingsTypeOK
  <2>4. SetTypes
    BY <2>3 DEF SettingsInit, SetTypes
  <2>5. InTurn /\ NewestIsLast
    BY DEF SettingsInit, InTurn, NewestIsLast
  <2> QED BY <2>2, <2>4, <2>5 DEF SetIInv, Agreed
<1>2. SetIInv /\ [SettingsNext]_setVars => SetIInv'
  <2> SUFFICES ASSUME SetIInv, [SettingsNext]_setVars PROVE SetIInv'
    OBVIOUS
  <2>1. CASE \E s \in Switches : Click(s) \/ OpenPage(s)
    BY <2>1, AskStep
  <2>2. CASE DeviceGets \/ DeviceSets \/ DeviceRefuses \/ DeviceSaveFails
    BY <2>2, HandleStep
  <2>3. CASE AnswerArrives
    BY <2>3, AnswerStep
  <2>4. CASE \E r \in calls : GiveUp(r)
    BY <2>4, GiveUpStep
  <2>5. CASE UNCHANGED setVars
    <3>1. SetTypes /\ InTurn /\ NewestIsLast /\ Agreed
      BY DEF SetIInv
    <3>2. SetTypes'
      BY <2>5, <3>1 DEF setVars, SetTypes, SettingsTypeOK
    <3>3. InTurn'
      BY <2>5, <3>1 DEF setVars, InTurn
    <3>4. NewestIsLast'
      BY <2>5, <3>1 DEF setVars, NewestIsLast
    <3>5. ASSUME NEW s \in Switches, upsets'[s] = {} PROVE Undisturbed(s)'
      <4>1. Undisturbed(s)
        BY <2>5, <3>1, <3>5 DEF setVars, Agreed
      <4> QED BY <2>5, <4>1 DEF setVars, Undisturbed
    <3> QED BY <3>2, <3>3, <3>4, <3>5 DEF SetIInv, Agreed
  <2> QED BY <2>1, <2>2, <2>3, <2>4, <2>5 DEF SettingsNext
<1>3. SetIInv => SettingsInv
  <2> SUFFICES ASSUME SetIInv PROVE SettingsInv
    OBVIOUS
  <2>1. SettledShowsStored
    <3> SUFFICES ASSUME NEW s \in Switches, upsets[s] = {}, shown[s] # stored[s]
                 PROVE  \E r \in calls : r.kind = "set" /\ r.switch = s
      BY DEF SettledShowsStored
    <3>1. \E r \in calls : r.switch = s /\ r.kind # "get"
      BY DEF SetIInv, Agreed, Undisturbed
    <3> QED BY <3>1, AskedTyped DEF SetIInv, SetTypes
  <2> QED BY <2>1 DEF SetIInv, SetTypes, SettingsInv
<1> QED BY <1>1, <1>2, <1>3, PTL DEF SettingsSpec

-----------------------------------------------------------------------------
(* Keyboard and mouse input *)

InputTypes ==
  /\ pressed \subseteq Keys /\ kb \subseteq Keys /\ hostKeys \subseteq Keys /\ ordered \in Seq(SUBSET Keys)
  /\ uiOwns \in BOOLEAN /\ slot \in BOOLEAN /\ unsent \in BOOLEAN /\ missed \in BOOLEAN
  /\ button \in BOOLEAN /\ hostButton \in BOOLEAN /\ unreported \in BOOLEAN
  /\ IsFiniteSet(kb) /\ Cardinality(kb \ ModifierKeys) <= KeySlots
  /\ motion \subseteq Nat \X BOOLEAN /\ reports \in Nat /\ applied \in Nat /\ applied <= reports

\* What the host will have seen once everything on the ordered channel has arrived.
LastState == IF ordered = << >> THEN hostKeys ELSE ordered[Len(ordered)]

\* The page believes no key down that is up, and the host will see none down that the page does not,
\* unless a key event was missed or did not get through.
KeysFollow == (~missed => kb \subseteq pressed) /\ (~unsent => LastState \subseteq kb)

\* The newest mouse report, on its way or applied, carries the button as the page knows it.
ButtonFollows ==
  /\ \A m \in motion : m[1] <= reports /\ (m[1] = reports /\ ~unreported => m[2] = button)
  /\ NewestReportRepairs

InputIInv == InputTypes /\ KeysFollow /\ ButtonFollows

\* The keys of the state in which the listeners may leave KbState.
LEMMA KeysFit ==
  ASSUME InputTypes, NEW k \in Keys
  PROVE  /\ IsFiniteSet(kb \cup {k}) /\ IsFiniteSet(kb \ {k})
         /\ Cardinality((kb \ {k}) \ ModifierKeys) <= KeySlots
         /\ k \in ModifierKeys \/ Cardinality(kb \ ModifierKeys) < KeySlots
              => Cardinality((kb \cup {k}) \ ModifierKeys) <= KeySlots
<1> DEFINE K == kb \ ModifierKeys
<1>1. IsFiniteSet(kb) /\ Cardinality(K) <= KeySlots /\ KeySlots \in Nat
  BY InputAssumption DEF InputTypes
<1>2. IsFiniteSet(K) /\ Cardinality(K) \in Nat
  BY <1>1, FS_Subset, FS_CardinalityType
<1>3. IsFiniteSet(kb \cup {k}) /\ IsFiniteSet(kb \ {k})
  BY <1>1, FS_AddElement, FS_RemoveElement
<1>4. Cardinality((kb \ {k}) \ ModifierKeys) <= KeySlots
  <2>1. (kb \ {k}) \ ModifierKeys \subseteq K
    OBVIOUS
  <2>2. /\ Cardinality((kb \ {k}) \ ModifierKeys) <= Cardinality(K)
        /\ IsFiniteSet((kb \ {k}) \ ModifierKeys)
    BY <1>2, <2>1, FS_Subset
  <2>3. Cardinality((kb \ {k}) \ ModifierKeys) \in Nat
    BY <2>2, FS_CardinalityType
  <2> QED BY <1>1, <1>2, <2>2, <2>3
<1>5. CASE k \in ModifierKeys
  <2>1. (kb \cup {k}) \ ModifierKeys = K
    BY <1>5
  <2> QED BY <1>1, <1>3, <1>4, <2>1
<1>6. CASE k \notin ModifierKeys
  <2>1. (kb \cup {k}) \ ModifierKeys = K \cup {k}
    BY <1>6
  <2>2. Cardinality(K \cup {k}) = Cardinality(K) \/ Cardinality(K \cup {k}) = Cardinality(K) + 1
    BY <1>2, FS_AddElement
  <2> HIDE DEF K
  <2>3. Cardinality(K) < KeySlots => Cardinality(K \cup {k}) <= KeySlots
    BY <1>1, <1>2, <2>2
  <2> QED BY <1>3, <1>4, <1>6, <2>1, <2>3 DEF K
<1> QED BY <1>5, <1>6

\* A report at the end of the channel is the last the host will see.
LEMMA Reported ==
  ASSUME ordered \in Seq(SUBSET Keys), NEW state \in SUBSET Keys
  PROVE  /\ Append(ordered, state) \in Seq(SUBSET Keys) /\ Append(ordered, state) # << >>
         /\ Append(ordered, state)[Len(Append(ordered, state))] = state
<1> DEFINE T == SUBSET Keys
<1> HIDE DEF T
<1> QED BY DEF T

\* What a listener sends: the state as it is now, or nothing and a note of it.
LEMMA SendStep ==
  ASSUME InputTypes, kb' \subseteq Keys, SendKeyboard(kb'), UNCHANGED hostKeys
  PROVE  ordered' \in Seq(SUBSET Keys) /\ unsent' \in BOOLEAN /\ (~unsent' => LastState' \subseteq kb')
<1>1. CASE slot
  <2>1. ordered' = Append(ordered, kb') /\ unsent' = FALSE
    BY <1>1 DEF SendKeyboard
  <2>2. kb' \in SUBSET Keys /\ ordered \in Seq(SUBSET Keys)
    BY DEF InputTypes
  <2>3. ordered' \in Seq(SUBSET Keys) /\ ordered' # << >> /\ ordered'[Len(ordered')] = kb'
    BY <2>1, <2>2, Reported
  <2> QED BY <2>1, <2>3 DEF LastState
<1>2. CASE ~slot
  BY <1>2 DEF SendKeyboard, InputTypes
<1> QED BY <1>1, <1>2

\* A key event, heard by the page or not.
LEMMA KeyStep ==
  ASSUME InputIInv, NEW k \in Keys, KeyDown(k) \/ KeyUp(k) \/ KeyUpElsewhere(k)
  PROVE  InputIInv'
<1>1. InputTypes /\ KeysFollow /\ ButtonFollows
  BY DEF InputIInv
<1>2. UNCHANGED <<uiOwns, slot, hostKeys, mouseVars>> /\ pressed' \subseteq Keys /\ missed' \in BOOLEAN
  BY <1>1 DEF KeyDown, KeyUp, KeyUpElsewhere, InputTypes
<1>3. /\ kb' \subseteq Keys /\ IsFiniteSet(kb') /\ Cardinality(kb' \ ModifierKeys) <= KeySlots
      /\ ~missed' => kb' \subseteq pressed'
  <2>1. CASE kb' = kb \cup {k}
    <3>1. KeyDown(k) \/ kb' = kb
      BY <2>1 DEF KeyUp, KeyUpElsewhere
    <3>2. CASE kb' = kb
      BY <1>1, <2>1, <3>2 DEF InputTypes, KeysFollow, KeyDown, KeyUp, KeyUpElsewhere
    <3>3. CASE KeyDown(k) /\ kb' # kb
      <4>1. k \in ModifierKeys \/ Cardinality(kb \ ModifierKeys) < KeySlots
        BY <3>3 DEF KeyDown
      <4>2. IsFiniteSet(kb') /\ Cardinality(kb' \ ModifierKeys) <= KeySlots
        BY <1>1, <2>1, <4>1, KeysFit
      <4> QED BY <1>1, <2>1, <3>3, <4>2 DEF InputTypes, KeysFollow, KeyDown
    <3> QED BY <3>1, <3>2, <3>3
  <2>2. CASE kb' = kb \ {k}
    <3>1. IsFiniteSet(kb') /\ Cardinality(kb' \ ModifierKeys) <= KeySlots
      BY <1>1, <2>2, KeysFit
    <3> QED BY <1>1, <2>2, <3>1 DEF InputTypes, KeysFollow, KeyDown, KeyUp, KeyUpElsewhere
  <2>3. CASE kb' = kb
    BY <1>1, <2>3 DEF InputTypes, KeysFollow, KeyDown, KeyUp, KeyUpElsewhere
  <2> QED BY <2>1, <2>2, <2>3 DEF KeyDown, KeyUp, KeyUpElsewhere
<1>4. ordered' \in Seq(SUBSET Keys) /\ unsent' \in BOOLEAN /\ (~unsent' => LastState' \subseteq kb')
  <2>1. CASE SendKeyboard(kb')
    BY <1>1, <1>2, <1>3, <2>1, SendStep
  <2>2. CASE UNCHANGED <<kb, ordered, unsent>>
    BY <1>1, <1>2, <2>2 DEF InputTypes, KeysFollow, LastState
  <2>3. CASE KeyUp(k) /\ uiOwns /\ k \notin kb
    <3>1. kb' = kb /\ ordered' = ordered /\ unsent' = unsent
      BY <2>3 DEF KeyUp
    <3> QED BY <1>1, <1>2, <3>1 DEF InputTypes, KeysFollow, LastState
  <2> QED BY <2>1, <2>2, <2>3 DEF KeyDown, KeyUp, KeyUpElsewhere
<1>5. InputTypes' /\ KeysFollow' /\ ButtonFollows'
  BY <1>1, <1>2, <1>3, <1>4 DEF InputTypes, KeysFollow, ButtonFollows, NewestReportRepairs, mouseVars
<1> QED BY <1>5 DEF InputIInv

\* The two reports of a combination, the second of them empty.
LEMMA ComboReported ==
  ASSUME ordered \in Seq(SUBSET Keys)
  PROVE  /\ ordered \o <<Keys, {}>> \in Seq(SUBSET Keys) /\ ordered \o <<Keys, {}>> # << >>
         /\ (ordered \o <<Keys, {}>>)[Len(ordered \o <<Keys, {}>>)] = {}
<1> DEFINE T == SUBSET Keys
<1>1. Keys \in T /\ {} \in T /\ ordered \in Seq(T)
  OBVIOUS
<1> HIDE DEF T
<1>2. <<Keys, {}>> \in Seq(T) /\ Len(<<Keys, {}>>) = 2 /\ <<Keys, {}>>[2] = {}
  BY <1>1
<1> DEFINE q == <<Keys, {}>>
<1> HIDE DEF q
<1>3. /\ ordered \o q \in Seq(T) /\ ordered \o q # << >>
      /\ (ordered \o q)[Len(ordered \o q)] = {}
  BY <1>1, <1>2 DEF q
<1> QED BY <1>3 DEF T, q

\* The host sees the next state.
LEMMA DeliverStep ==
  ASSUME InputIInv, DeliverKeys
  PROVE  InputIInv'
<1> DEFINE T == SUBSET Keys
<1>1. InputTypes /\ KeysFollow /\ ButtonFollows
  BY DEF InputIInv
<1>2. ordered \in Seq(T) /\ ordered # << >> /\ hostKeys' = Head(ordered) /\ ordered' = Tail(ordered)
  BY <1>1 DEF InputTypes, DeliverKeys
<1> HIDE DEF T
<1>3. /\ ordered' \in Seq(T) /\ hostKeys' \in T
      /\ ordered' = << >> => hostKeys' = ordered[Len(ordered)]
      /\ ordered' # << >> => ordered'[Len(ordered')] = ordered[Len(ordered)]
  BY <1>2
<1>4. LastState' = LastState
  BY <1>2, <1>3 DEF LastState
<1> QED BY <1>1, <1>3, <1>4
       DEF T, DeliverKeys, InputIInv, InputTypes, KeysFollow, ButtonFollows, NewestReportRepairs, mouseVars

\* The mouse: an event, a report that arrives or is lost.
LEMMA MouseStep ==
  ASSUME InputIInv, (\E b \in BOOLEAN : MouseEvent(b)) \/ DeliverMotion \/ LoseMotion
  PROVE  InputIInv'
<1>1. InputTypes /\ KeysFollow /\ ButtonFollows
  BY DEF InputIInv
<1>2. UNCHANGED <<slot, keyVars>>
  BY DEF MouseEvent, DeliverMotion, LoseMotion
<1>3. ASSUME NEW b \in BOOLEAN, MouseEvent(b) PROVE InputIInv'
  <2>1. button' = b /\ unreported' = (~slot) /\ UNCHANGED <<applied, hostButton>>
    BY <1>3 DEF MouseEvent
  <2>2. (~slot) \in BOOLEAN
    BY Zenon
  <2>3. CASE slot
    <3>1. reports' = reports + 1 /\ motion' = motion \cup {<<reports + 1, b>>}
      BY <1>3, <2>3 DEF MouseEvent
    <3>2. reports \in Nat /\ applied \in Nat /\ applied <= reports /\ motion \subseteq Nat \X BOOLEAN
      BY <1>1 DEF InputTypes
    <3>3. <<reports + 1, b>> \in Nat \X BOOLEAN
      <4> DEFINE T == BOOLEAN
      <4>1. b \in T
        OBVIOUS
      <4> HIDE DEF T
      <4>2. <<reports + 1, b>> \in Nat \X T
        BY <3>2, <4>1
      <4> QED BY <4>2 DEF T
    <3>4. \A m \in motion : m[1] \in Nat /\ m[1] <= reports
      BY <1>1, <3>2 DEF ButtonFollows
    <3>5. ButtonFollows'
      BY <2>1, <3>1, <3>2, <3>4 DEF ButtonFollows, NewestReportRepairs
    <3>6. motion' \subseteq Nat \X BOOLEAN
      BY <3>1, <3>2, <3>3
    <3>7. reports' \in Nat /\ applied' \in Nat /\ applied' <= reports'
      BY <2>1, <3>1, <3>2
    <3> QED BY <1>1, <1>2, <2>1, <2>2, <3>5, <3>6, <3>7
            DEF InputIInv, InputTypes, KeysFollow, LastState, keyVars
  <2>4. CASE ~slot
    <3>1. UNCHANGED <<reports, motion>> /\ unreported'
      BY <1>3, <2>1, <2>4 DEF MouseEvent
    <3>2. ButtonFollows'
      BY <1>1, <2>1, <3>1 DEF ButtonFollows, NewestReportRepairs
    <3> QED BY <1>1, <1>2, <2>1, <2>2, <3>1, <3>2 DEF InputIInv, InputTypes, KeysFollow, LastState, keyVars
  <2> QED BY <2>3, <2>4
<1>4. CASE DeliverMotion
  <2>1. PICK m \in motion : motion' = motion \ {m} /\ applied' = m[1] /\ hostButton' = m[2]
    BY <1>4 DEF DeliverMotion
  <2>2. UNCHANGED <<button, reports, unreported>>
    BY <1>4 DEF DeliverMotion
  <2>3. m[1] \in Nat /\ m[2] \in BOOLEAN
    <3> DEFINE T == BOOLEAN
    <3>1. m \in Nat \X T
      BY <1>1, <2>1 DEF InputTypes
    <3> HIDE DEF T
    <3>2. m[1] \in Nat /\ m[2] \in T
      BY <3>1
    <3> QED BY <3>2 DEF T
  <2>4. ButtonFollows' /\ m[1] <= reports
    BY <1>1, <2>1, <2>2 DEF ButtonFollows, NewestReportRepairs
  <2> QED BY <1>1, <1>2, <2>1, <2>2, <2>3, <2>4 DEF InputIInv, InputTypes, KeysFollow, LastState, keyVars
<1>5. CASE LoseMotion
  <2>1. motion' \subseteq motion /\ UNCHANGED <<button, reports, applied, hostButton, unreported>>
    BY <1>5 DEF LoseMotion
  <2>2. ButtonFollows'
    BY <1>1, <2>1 DEF ButtonFollows, NewestReportRepairs
  <2> QED BY <1>1, <1>2, <2>1, <2>2 DEF InputIInv, InputTypes, KeysFollow, LastState, keyVars
<1> QED BY <1>3, <1>4, <1>5

\* The connection is lost, with what was on its way.
LEMMA LossStep ==
  ASSUME InputIInv, LoseConnection
  PROVE  InputIInv'
<1>1. InputTypes /\ KeysFollow /\ ButtonFollows
  BY DEF InputIInv
<1>2. /\ slot' = FALSE /\ unsent' = (unsent \/ ordered # << >>) /\ ordered' = << >> /\ motion' = {}
      /\ UNCHANGED <<pressed, kb, uiOwns, hostKeys, missed, keyEvents, button, reports, applied, hostButton, unreported>>
  BY DEF LoseConnection
<1>3. unsent' \in BOOLEAN
  <2>1. (unsent \/ ordered # << >>) \in BOOLEAN
    BY Zenon
  <2> QED BY <1>2, <2>1
<1>4. ~unsent' => LastState' \subseteq kb'
  <2>1. ~unsent' => ~unsent /\ ordered = << >>
    BY <1>2
  <2>2. ~unsent /\ ordered = << >> => hostKeys \subseteq kb
    BY <1>1 DEF KeysFollow, LastState
  <2>3. LastState' = hostKeys
    BY <1>2 DEF LastState
  <2> QED BY <1>2, <2>1, <2>2, <2>3
<1>5. KeysFollow'
  BY <1>1, <1>2, <1>4 DEF KeysFollow
<1>6. ButtonFollows'
  BY <1>1, <1>2 DEF ButtonFollows, NewestReportRepairs
<1>7. ordered' \in Seq(SUBSET Keys)
  BY <1>2
<1>8. InputTypes'
  BY <1>1, <1>2, <1>3, <1>7 DEF InputTypes
<1> QED BY <1>5, <1>6, <1>8 DEF InputIInv

\* It holds at first.
LEMMA InputInitially == InputInit => InputIInv
<1> SUFFICES ASSUME InputInit PROVE InputIInv
  OBVIOUS
<1>1. IsFiniteSet(kb) /\ kb \ ModifierKeys = {} /\ Cardinality(kb \ ModifierKeys) = 0
  BY FS_EmptySet DEF InputInit
<1>2. InputTypes
  <2>1. /\ uiOwns \in BOOLEAN /\ slot \in BOOLEAN /\ unsent \in BOOLEAN /\ missed \in BOOLEAN
        /\ button \in BOOLEAN /\ hostButton \in BOOLEAN /\ unreported \in BOOLEAN
    BY Zenon DEF InputInit
  <2>2. pressed \subseteq Keys /\ kb \subseteq Keys /\ hostKeys \subseteq Keys /\ ordered \in Seq(SUBSET Keys)
    BY DEF InputInit
  <2>3. motion \subseteq Nat \X BOOLEAN /\ reports \in Nat /\ applied \in Nat /\ applied <= reports
    BY DEF InputInit
  <2>4. Cardinality(kb \ ModifierKeys) <= KeySlots
    BY <1>1, InputAssumption
  <2> QED BY <1>1, <2>1, <2>2, <2>3, <2>4 DEF InputTypes
<1>3. KeysFollow /\ ButtonFollows
  BY DEF InputInit, KeysFollow, LastState, ButtonFollows, NewestReportRepairs
<1> QED BY <1>2, <1>3 DEF InputIInv

\* Every step of the page, of the host and of the connection keeps it.
LEMMA InputStep == InputIInv /\ [InputNext]_inputVars => InputIInv'
<1> SUFFICES ASSUME InputIInv, [InputNext]_inputVars PROVE InputIInv'
  OBVIOUS
<1>0. InputTypes /\ KeysFollow /\ ButtonFollows
  BY DEF InputIInv
<1>1. CASE \E k \in Keys : KeyDown(k) \/ KeyUp(k) \/ KeyUpElsewhere(k)
  BY <1>1, KeyStep
<1>2. CASE MoveFocus
  <2>1. (~uiOwns) \in BOOLEAN
    BY Zenon
  <2> QED BY <1>0, <1>2, <2>1
         DEF MoveFocus, InputIInv, InputTypes, KeysFollow, LastState, ButtonFollows, NewestReportRepairs, mouseVars
<1>3. CASE SendKeyCombo(Keys)
  <2>1. ordered' = ordered \o <<Keys, {}>> /\ unsent' = FALSE
    BY <1>3 DEF SendKeyCombo
  <2>2. ordered' \in Seq(SUBSET Keys) /\ LastState' = {}
    BY <1>0, <2>1, ComboReported DEF InputTypes, LastState
  <2> QED BY <1>0, <1>3, <2>1, <2>2
         DEF SendKeyCombo, InputIInv, InputTypes, KeysFollow, ButtonFollows, NewestReportRepairs, mouseVars
<1>4. CASE DeliverKeys
  BY <1>4, DeliverStep
<1>5. CASE LoseConnection
  BY <1>5, LossStep
<1>6. CASE Reconnect
  BY <1>0, <1>6 DEF Reconnect, InputIInv, InputTypes, KeysFollow, LastState, ButtonFollows, NewestReportRepairs,
                    keyVars, mouseVars
<1>7. CASE (\E b \in BOOLEAN : MouseEvent(b)) \/ DeliverMotion \/ LoseMotion
  BY <1>7, MouseStep
<1>8. CASE UNCHANGED inputVars
  BY <1>0, <1>8 DEF inputVars, InputIInv, InputTypes, KeysFollow, LastState, ButtonFollows, NewestReportRepairs
<1> QED BY <1>1, <1>2, <1>3, <1>4, <1>5, <1>6, <1>7, <1>8 DEF InputNext, KeyInputNext, MouseInputNext

\* It implies what the runs check.
LEMMA InputIInvImplies == InputIInv => InputInv
  BY DEF InputIInv, InputTypes, KeysFollow, LastState, ButtonFollows, InputInv, InputTypeOK, NothingStuck

\* Keyboard and mouse: for any number of keys, reports, losses and connections, once everything sent
\* has arrived the host sees no key down that the user does not hold, and it holds the button the
\* page last saw as soon as it has applied the newest report.
THEOREM InputInvHolds == InputSpec => []InputInv
<1>1. InputInit => InputIInv
  BY InputInitially
<1>2. InputIInv /\ [InputNext]_inputVars => InputIInv'
  BY InputStep
<1>3. InputIInv => InputInv
  BY InputIInvImplies
<1> QED BY <1>1, <1>2, <1>3, PTL DEF InputSpec

-----------------------------------------------------------------------------
(* The forgiving conversion of numbers *)

SentValues == [form : {"int", "float", "digits", "half", "word"}, n : Int]
TypeNames == {"u8", "u32", "i8", "string"}

\* A conversion keeps the number, and makes an integer of nothing but a whole number.
LEMMA ConversionKeeps ==
  ASSUME NEW v \in SentValues
  PROVE  /\ ConvertObjectValue(v).n = v.n /\ (ConvertObjectValue(v).form = "int" => Whole(v))
         /\ ConvertArrayValue(v).n = v.n /\ (ConvertArrayValue(v).form = "int" => Whole(v))
<1>1. v.n \in Int /\ U8Max \in Nat /\ U32Max \in Nat
  BY ApiAssumption DEF SentValues
<1>2. \A n \in Int, top \in Nat : n >= 0 /\ n <= top => Saturate(n, top) = n
  BY DEF Saturate
<1>3. CASE v.form = "float" /\ v.n >= 0 /\ v.n <= U32Max
  <2>1. ConvertObjectValue(v) = Sent("int", Saturate(v.n, U32Max))
    BY <1>3 DEF ConvertObjectValue
  <2>2. ConvertObjectValue(v).n = v.n
    BY <1>1, <1>2, <1>3, <2>1 DEF Sent
  <2>3. ConvertArrayValue(v).n = v.n
    BY <1>1, <1>2, <1>3 DEF ConvertArrayValue, Sent
  <2> QED BY <1>3, <2>2, <2>3 DEF Whole
<1>4. CASE v.form = "digits"
  <2>1. ConvertObjectValue(v) = Sent("int", v.n)
    BY <1>4 DEF ConvertObjectValue
  <2>2. ConvertArrayValue(v) = v
    BY <1>4 DEF ConvertArrayValue
  <2> QED BY <1>4, <2>1, <2>2 DEF Sent, Whole
<1>5. CASE ~(v.form = "float" /\ v.n >= 0 /\ v.n <= U32Max) /\ v.form # "digits"
  <2>1. ConvertObjectValue(v) = v
    BY <1>5 DEF ConvertObjectValue
  <2>2. ConvertArrayValue(v) = v
    BY <1>1, <1>5, ApiAssumption DEF ConvertArrayValue
  <2> QED BY <2>1, <2>2 DEF Whole
<1> QED BY <1>3, <1>4, <1>5

\* What a handler can read of a number is an integer.
LEMMA ReadsWhole ==
  ASSUME NEW type \in TypeNames, NEW v, Reads(type, v), type # "string"
  PROVE  v.form = "int"
BY DEF TypeNames, Reads

\* What convert_parameters hands over are the numbers that were sent.
LEMMA ConvertedIsSent ==
  ASSUME NEW types, types[1] \in TypeNames, types[2] \in TypeNames,
         NEW first \in SentValues, NEW second \in SentValues, NEW listed,
         ConvertParameters(types, first, second, listed) # << >>
  PROVE  LET got == ConvertParameters(types, first, second, listed)
         IN  /\ got[1].n = first.n /\ got[2].n = second.n
             /\ (types[1] # "string" => Whole(first)) /\ (types[2] # "string" => Whole(second))
<1> DEFINE again1 == ConvertObjectValue(first)
           again2 == IF listed THEN ConvertArrayValue(second) ELSE ConvertObjectValue(second)
           got == ConvertParameters(types, first, second, listed)
<1>1. \/ got = <<first, second>> /\ Reads(types[1], first) /\ Reads(types[2], second)
      \/ got = <<again1, again2>> /\ Reads(types[1], again1) /\ Reads(types[2], again2)
  BY DEF ConvertParameters
<1>2. /\ again1.n = first.n /\ (again1.form = "int" => Whole(first))
      /\ again2.n = second.n /\ (again2.form = "int" => Whole(second))
  BY ConversionKeeps
<1>3. (first.form = "int" => Whole(first)) /\ (second.form = "int" => Whole(second))
  BY DEF Whole
<1> HIDE DEF again1, again2, got
<1>4. CASE got = <<first, second>> /\ Reads(types[1], first) /\ Reads(types[2], second)
  <2>1. (types[1] # "string" => Whole(first)) /\ (types[2] # "string" => Whole(second))
    BY <1>3, <1>4, ReadsWhole
  <2>2. got[1].n = first.n /\ got[2].n = second.n
    BY <1>4
  <2> QED BY <2>1, <2>2 DEF got
<1>5. CASE got = <<again1, again2>> /\ Reads(types[1], again1) /\ Reads(types[2], again2)
  <2>1. (types[1] # "string" => Whole(first)) /\ (types[2] # "string" => Whole(second))
    BY <1>2, <1>5, ReadsWhole
  <2>2. got[1].n = first.n /\ got[2].n = second.n
    BY <1>2, <1>5
  <2> QED BY <2>1, <2>2 DEF got
<1> QED BY <1>1, <1>4, <1>5

\* A call with numbers is one whose conversion decides the answer.
NumberIInv ==
  call.from = "number" =>
    /\ call.types[1] \in TypeNames /\ call.types[2] \in TypeNames
    /\ call.sent[1] \in SentValues /\ call.sent[2] \in SentValues
    /\ answer = "accepted" => ConvertParameters(call.types, call.sent[1], call.sent[2], call.listed) # << >>

\* It holds at first.
LEMMA NumberInitially == ApiInit => NumberIInv
BY DEF ApiInit, Idle, NumberIInv

\* Every call keeps it.
LEMMA NumberStep == NumberIInv /\ [ApiNext]_apiVars => NumberIInv'
<1> SUFFICES ASSUME NumberIInv, [ApiNext]_apiVars PROVE NumberIInv'
  OBVIOUS
<1>1. CASE ApiAsk
  <2>1. answer' = "none"
    BY <1>1 DEF ApiAsk
  <2>2. CASE ClientAsks
    BY <2>2 DEF ClientAsks, NumberIInv
  <2>3. CASE McpAsks
    BY <2>3 DEF McpAsks, NumberIInv
  <2>4. CASE NumberAsks
    <3>1. PICK t1 \in {"u8", "u32", "i8"}, t2 \in {"u8", "u32", "string"}, listed \in BOOLEAN,
               f1 \in NumberForms, f2 \in NumberForms, n1 \in NumberEdges, n2 \in NumberEdges :
            call' = [from |-> "number", types |-> <<t1, t2>>, listed |-> listed,
                     sent |-> <<Sent(f1, n1), Sent(f2, n2)>>]
      BY <2>4 DEF NumberAsks
    <3>2. call'.types = <<t1, t2>> /\ call'.sent = <<Sent(f1, n1), Sent(f2, n2)>>
      BY <3>1
    <3>3. n1 \in Int /\ n2 \in Int
      BY ApiAssumption DEF NumberEdges
    <3>4. Sent(f1, n1) \in SentValues /\ Sent(f2, n2) \in SentValues
      BY <3>3 DEF Sent, SentValues, NumberForms
    <3> QED BY <2>1, <3>2, <3>4 DEF NumberIInv, TypeNames
  <2> QED BY <1>1, <2>2, <2>3, <2>4 DEF ApiAsk
<1>2. CASE ApiAnswer
  <2>1. call' = call
    BY <1>2 DEF ApiAnswer
  <2>2. ASSUME call.from = "number"
        PROVE  answer' = IF ConvertParameters(call.types, call.sent[1], call.sent[2], call.listed) = << >>
                         THEN "refused" ELSE "accepted"
    BY <1>2, <2>2 DEF ApiAnswer
  <2> QED BY <2>1, <2>2 DEF NumberIInv
<1>3. CASE ApiDone
  BY <1>3 DEF ApiDone, Idle, NumberIInv
<1>4. CASE UNCHANGED apiVars
  BY <1>4 DEF apiVars, NumberIInv
<1> QED BY <1>1, <1>2, <1>3, <1>4 DEF ApiNext

\* It implies that the numbers a handler receives were sent.
LEMMA NumberIInvImplies == NumberIInv => AcceptedIsWhatWasSent
<1> SUFFICES ASSUME NumberIInv, call.from = "number", answer = "accepted"
             PROVE  LET got == ConvertParameters(call.types, call.sent[1], call.sent[2], call.listed)
                    IN  \A i \in 1..2 : /\ got[i].n = call.sent[i].n
                                        /\ call.types[i] # "string" => Whole(call.sent[i])
  BY DEF AcceptedIsWhatWasSent
<1> DEFINE got == ConvertParameters(call.types, call.sent[1], call.sent[2], call.listed)
<1>1. /\ got[1].n = call.sent[1].n /\ got[2].n = call.sent[2].n
      /\ call.types[1] # "string" => Whole(call.sent[1])
      /\ call.types[2] # "string" => Whole(call.sent[2])
  BY ConvertedIsSent DEF NumberIInv
<1> HIDE DEF got
<1>2. \A i \in 1..2 : i = 1 \/ i = 2
  OBVIOUS
<1>3. \A i \in 1..2 : got[i].n = call.sent[i].n /\ (call.types[i] # "string" => Whole(call.sent[i]))
  BY <1>1, <1>2
<1> QED BY <1>3 DEF got

\* The forgiving conversion: for any widths of the types, a handler receives the numbers that were
\* sent, in whichever way they were written, or the call is refused.
THEOREM AcceptedIsWhatWasSentHolds == ApiSpec => []AcceptedIsWhatWasSent
<1>1. ApiInit => NumberIInv
  BY NumberInitially
<1>2. NumberIInv /\ [ApiNext]_apiVars => NumberIInv'
  BY NumberStep
<1>3. NumberIInv => AcceptedIsWhatWasSent
  BY NumberIInvImplies
<1> QED BY <1>1, <1>2, <1>3, PTL DEF ApiSpec

-----------------------------------------------------------------------------
(* The registry, its callers and their tools *)

\* An entry of the registry, and a call that is accepted.
Row(m, kind, need) == [method |-> m, kind |-> kind, need |-> need]
Serves(m, p) == RegistryCall(m, p) = "accepted"

\* A call is accepted if an entry of its method can read the parameters.
LEMMA RowServes ==
  ASSUME NEW m, NEW kind, NEW need, NEW p, Row(m, kind, need) \in Registry, Readable(Row(m, kind, need), p)
  PROVE  Serves(m, p)
<1> DEFINE named == {r \in Registry : r.method = m}
<1>1. RegistryCall(m, p) = IF named = {} THEN "unknown"
                           ELSE IF \E r \in named : Readable(r, p) THEN "accepted" ELSE "refused"
  BY DEF RegistryCall
<1>2. Row(m, kind, need) \in named
  BY DEF Row
<1> HIDE DEF named
<1> QED BY <1>1, <1>2 DEF Serves

\* A method without parameters takes any.
LEMMA IgnoredServes ==
  ASSUME NEW m, NEW p, Row(m, "ignored", {}) \in Registry
  PROVE  Serves(m, p)
<1>1. Readable(Row(m, "ignored", {}), p)
  BY DEF Readable, Row
<1> QED BY <1>1, RowServes

\* A method with parameters takes the object that has the fields it needs.
LEMMA FieldsServe ==
  ASSUME NEW m, NEW kind \in {"typed", "raw", "optional", "unwrapped"}, NEW need, NEW keys,
         Row(m, kind, need) \in Registry, need \subseteq keys, "params" \notin keys
  PROVE  Serves(m, Object(keys))
<1>1. Object(keys).shape = "object" /\ Object(keys).keys = keys
  BY DEF Object
<1>2. Row(m, kind, need).kind = kind /\ Row(m, kind, need).need = need
  BY DEF Row
<1>3. TypedFields(Object(keys)) = keys
  BY <1>1 DEF TypedFields
<1>4. Readable(Row(m, kind, need), Object(keys))
  BY <1>1, <1>2, <1>3 DEF Readable
<1> QED BY <1>4, RowServes

\* A method that needs no field takes a call without parameters.
LEMMA NothingServes ==
  ASSUME NEW m, NEW kind \in {"typed", "optional"}, Row(m, kind, {}) \in Registry
  PROVE  Serves(m, NoArgs)
<1>1. Readable(Row(m, kind, {}), NoArgs)
  BY DEF Readable, Row, NoArgs, TypedFields
<1> QED BY <1>1, RowServes

\* What the calls and the tools use of this part of the registry.
LEMMA RegisteredVideoRows ==
  /\ \A m \in {"getDeviceID", "getHealth", "getDisplayRotation", "getBacklightSettings",
       "getStreamQualityFactor", "getAutoUpdateState", "getEDID", "getAudioConfig", "getUsbDevices",
       "getUsbEmulationState"} : Row(m, "ignored", {}) \in Registry
  /\ \A m \in {"reboot", "setEDID"} : Row(m, "typed", {}) \in Registry
  /\ \A m \in {"setStreamQualityFactor"} : Row(m, "typed", {"factor"}) \in Registry
  /\ \A m \in {"setUsbDeviceState"} : Row(m, "typed", {"device", "enabled"}) \in Registry
  /\ \A m \in {"setDisplayRotation"} : Row(m, "raw", {"rotation"}) \in Registry
  /\ \A m \in {
       "setBacklightSettings"} : Row(m, "raw", {"max_brightness", "dim_after", "off_after"}) \in Registry
  /\ \A m \in {"setAutoUpdateState", "setUsbEmulationState"} : Row(m, "raw", {"enabled"}) \in Registry
  /\ \A m \in {"setAudioConfig"} : Row(m, "raw", {"params"}) \in Registry
<1>1. RegisteredVideo \subseteq Registry
  BY DEF Registry
<1>2. \A m \in {"getDeviceID", "getHealth", "getDisplayRotation", "getBacklightSettings",
        "getStreamQualityFactor", "getAutoUpdateState", "getEDID", "getAudioConfig", "getUsbDevices",
        "getUsbEmulationState"} : Row(m, "ignored", {}) \in RegisteredVideo
  BY DEF RegisteredVideo, Reading, Ignoring, Row
<1>3. \A m \in {"reboot", "setEDID"} : Row(m, "typed", {}) \in RegisteredVideo
  BY DEF RegisteredVideo, Reading, Ignoring, Row
<1>4. \A m \in {"setStreamQualityFactor"} : Row(m, "typed", {"factor"}) \in RegisteredVideo
  BY DEF RegisteredVideo, Reading, Ignoring, Row
<1>5. \A m \in {"setUsbDeviceState"} : Row(m, "typed", {"device", "enabled"}) \in RegisteredVideo
  BY DEF RegisteredVideo, Reading, Ignoring, Row
<1>6. \A m \in {"setDisplayRotation"} : Row(m, "raw", {"rotation"}) \in RegisteredVideo
  BY DEF RegisteredVideo, Reading, Ignoring, Row
<1>7. \A m \in {
        "setBacklightSettings"} : Row(m, "raw", {"max_brightness", "dim_after", "off_after"}) \in RegisteredVideo
  BY DEF RegisteredVideo, Reading, Ignoring, Row
<1>8. \A m \in {"setAutoUpdateState",
        "setUsbEmulationState"} : Row(m, "raw", {"enabled"}) \in RegisteredVideo
  BY DEF RegisteredVideo, Reading, Ignoring, Row
<1>9. \A m \in {"setAudioConfig"} : Row(m, "raw", {"params"}) \in RegisteredVideo
  BY DEF RegisteredVideo, Reading, Ignoring, Row
<1> QED BY <1>1, <1>2, <1>3, <1>4, <1>5, <1>6, <1>7, <1>8, <1>9

\* What the calls and the tools use of this part of the registry.
LEMMA RegisteredInputRows ==
  /\ \A m \in {"getKeyboardLayout", "getKeyboardLedState", "getUpdateStatus", "getLocalVersion",
       "getDevChannelState", "getTLSState", "getKeyboardMacros"} : Row(m, "ignored", {}) \in Registry
  /\ \A m \in {"wheelReport"} : Row(m, "typed", {"wheelY"}) \in Registry
  /\ \A m \in {"setKeyboardLayout"} : Row(m, "optional", {"layout"}) \in Registry
  /\ \A m \in {"setDevChannelState"} : Row(m, "raw", {"enabled"}) \in Registry
  /\ \A m \in {"setTLSState"} : Row(m, "state", {"mode"}) \in Registry
  /\ \A m \in {"setKeyboardMacros"} : Row(m, "unwrapped", {"macros"}) \in Registry
<1>1. RegisteredInput \subseteq Registry
  BY DEF Registry
<1>2. \A m \in {"getKeyboardLayout", "getKeyboardLedState", "getUpdateStatus", "getLocalVersion",
        "getDevChannelState", "getTLSState",
        "getKeyboardMacros"} : Row(m, "ignored", {}) \in RegisteredInput
  BY DEF RegisteredInput, Reading, Ignoring, Row
<1>3. \A m \in {"wheelReport"} : Row(m, "typed", {"wheelY"}) \in RegisteredInput
  BY DEF RegisteredInput, Reading, Ignoring, Row
<1>4. \A m \in {"setKeyboardLayout"} : Row(m, "optional", {"layout"}) \in RegisteredInput
  BY DEF RegisteredInput, Reading, Ignoring, Row
<1>5. \A m \in {"setDevChannelState"} : Row(m, "raw", {"enabled"}) \in RegisteredInput
  BY DEF RegisteredInput, Reading, Ignoring, Row
<1>6. \A m \in {"setTLSState"} : Row(m, "state", {"mode"}) \in RegisteredInput
  BY DEF RegisteredInput, Reading, Ignoring, Row
<1>7. \A m \in {"setKeyboardMacros"} : Row(m, "unwrapped", {"macros"}) \in RegisteredInput
  BY DEF RegisteredInput, Reading, Ignoring, Row
<1> QED BY <1>1, <1>2, <1>3, <1>4, <1>5, <1>6, <1>7

\* What the calls and the tools use of this part of the registry.
LEMMA RegisteredNetworkRows ==
  /\ \A m \in {"getCloudState", "deregisterDevice", "resetConfig", "getNetworkState",
       "getNetworkSettings", "renewDHCPLease"} : Row(m, "ignored", {}) \in Registry
  /\ \A m \in {"setCloudUrl"} : Row(m, "raw", {"apiUrl", "appUrl"}) \in Registry
  /\ \A m \in {"setNetworkSettings"} : Row(m, "raw", {"settings"}) \in Registry
  /\ \A m \in {"sendWOLMagicPacket"} : Row(m, "raw", {"macAddress"}) \in Registry
<1>1. RegisteredNetwork \subseteq Registry
  BY DEF Registry
<1>2. \A m \in {"getCloudState", "deregisterDevice", "resetConfig", "getNetworkState",
        "getNetworkSettings", "renewDHCPLease"} : Row(m, "ignored", {}) \in RegisteredNetwork
  BY DEF RegisteredNetwork, Reading, Ignoring, Row
<1>3. \A m \in {"setCloudUrl"} : Row(m, "raw", {"apiUrl", "appUrl"}) \in RegisteredNetwork
  BY DEF RegisteredNetwork, Reading, Ignoring, Row
<1>4. \A m \in {"setNetworkSettings"} : Row(m, "raw", {"settings"}) \in RegisteredNetwork
  BY DEF RegisteredNetwork, Reading, Ignoring, Row
<1>5. \A m \in {"sendWOLMagicPacket"} : Row(m, "raw", {"macAddress"}) \in RegisteredNetwork
  BY DEF RegisteredNetwork, Reading, Ignoring, Row
<1> QED BY <1>1, <1>2, <1>3, <1>4, <1>5

\* What the calls and the tools use of this part of the registry.
LEMMA RegisteredMediaRows ==
  /\ \A m \in {"getVirtualMediaState", "getVideoState", "unmountImage", "getSSHKeyState",
       "getDevModeState"} : Row(m, "ignored", {}) \in Registry
  /\ \A m \in {"mountWithHTTP"} : Row(m, "raw", {"url", "mode"}) \in Registry
  /\ \A m \in {"mountWithStorage"} : Row(m, "raw", {"filename", "mode"}) \in Registry
  /\ \A m \in {"startStorageFileUpload"} : Row(m, "raw", {"filename", "size"}) \in Registry
  /\ \A m \in {"setSSHKeyState"} : Row(m, "raw", {"sshKey"}) \in Registry
  /\ \A m \in {"setDevModeState"} : Row(m, "raw", {"enabled"}) \in Registry
<1>1. RegisteredMedia \subseteq Registry
  BY DEF Registry
<1>2. \A m \in {"getVirtualMediaState", "getVideoState", "unmountImage", "getSSHKeyState",
        "getDevModeState"} : Row(m, "ignored", {}) \in RegisteredMedia
  BY DEF RegisteredMedia, Reading, Ignoring, Row
<1>3. \A m \in {"mountWithHTTP"} : Row(m, "raw", {"url", "mode"}) \in RegisteredMedia
  BY DEF RegisteredMedia, Reading, Ignoring, Row
<1>4. \A m \in {"mountWithStorage"} : Row(m, "raw", {"filename", "mode"}) \in RegisteredMedia
  BY DEF RegisteredMedia, Reading, Ignoring, Row
<1>5. \A m \in {"startStorageFileUpload"} : Row(m, "raw", {"filename", "size"}) \in RegisteredMedia
  BY DEF RegisteredMedia, Reading, Ignoring, Row
<1>6. \A m \in {"setSSHKeyState"} : Row(m, "raw", {"sshKey"}) \in RegisteredMedia
  BY DEF RegisteredMedia, Reading, Ignoring, Row
<1>7. \A m \in {"setDevModeState"} : Row(m, "raw", {"enabled"}) \in RegisteredMedia
  BY DEF RegisteredMedia, Reading, Ignoring, Row
<1> QED BY <1>1, <1>2, <1>3, <1>4, <1>5, <1>6, <1>7

\* What the calls and the tools use of this part of the registry.
LEMMA RegisteredSystemRows ==
  /\ \A m \in {"getVideoCodecPreference", "tryUpdate", "factoryReset", "getDefaultLogLevel",
       "getTimezone"} : Row(m, "ignored", {}) \in Registry
  /\ \A m \in {"setVideoCodecPreference"} : Row(m, "typed", {"codec"}) \in Registry
  /\ \A m \in {"setDefaultLogLevel"} : Row(m, "typed", {"level"}) \in Registry
  /\ \A m \in {"getRecentLogs"} : Row(m, "typed", {}) \in Registry
  /\ \A m \in {"readScreenText", "waitScreenStable"} : Row(m, "optional", {}) \in Registry
  /\ \A m \in {"findScreenText", "waitForText"} : Row(m, "raw", {"text"}) \in Registry
<1>1. RegisteredSystem \subseteq Registry
  BY DEF Registry
<1>2. \A m \in {"getVideoCodecPreference", "tryUpdate", "factoryReset", "getDefaultLogLevel",
        "getTimezone"} : Row(m, "ignored", {}) \in RegisteredSystem
  BY DEF RegisteredSystem, Reading, Ignoring, Row
<1>3. \A m \in {"setVideoCodecPreference"} : Row(m, "typed", {"codec"}) \in RegisteredSystem
  BY DEF RegisteredSystem, Reading, Ignoring, Row
<1>4. \A m \in {"setDefaultLogLevel"} : Row(m, "typed", {"level"}) \in RegisteredSystem
  BY DEF RegisteredSystem, Reading, Ignoring, Row
<1>5. \A m \in {"getRecentLogs"} : Row(m, "typed", {}) \in RegisteredSystem
  BY DEF RegisteredSystem, Reading, Ignoring, Row
<1>6. \A m \in {"readScreenText", "waitScreenStable"} : Row(m, "optional", {}) \in RegisteredSystem
  BY DEF RegisteredSystem, Reading, Ignoring, Row
<1>7. \A m \in {"findScreenText", "waitForText"} : Row(m, "raw", {"text"}) \in RegisteredSystem
  BY DEF RegisteredSystem, Reading, Ignoring, Row
<1> QED BY <1>1, <1>2, <1>3, <1>4, <1>5, <1>6, <1>7

\* What the calls and the tools use of this part of the registry.
LEMMA RegisteredExtensionsRows ==
  /\ \A m \in {"getDCPowerState", "getATXState", "getActiveExtension", "getJigglerState",
       "getTailscaleStatus", "getMqttSettings", "getSerialCommandHistory",
       "deleteSerialCommandHistory"} : Row(m, "ignored", {}) \in Registry
  /\ \A m \in {"setDCPowerState", "setJigglerState"} : Row(m, "raw", {"enabled"}) \in Registry
  /\ \A m \in {"setDCRestoreState"} : Row(m, "raw", {"state"}) \in Registry
  /\ \A m \in {"setATXPowerAction"} : Row(m, "raw", {"action"}) \in Registry
  /\ \A m \in {"setActiveExtension"} : Row(m, "raw", {"extensionId"}) \in Registry
  /\ \A m \in {"setMqttSettings"} : Row(m, "raw", {"settings"}) \in Registry
  /\ \A m \in {"executeKeyboardMacro"} : Row(m, "steps", {}) \in Registry
  /\ \A m \in {"typeText"} : Row(m, "raw", {"text"}) \in Registry
  /\ \A m \in {"pressCombo"} : Row(m, "raw", {"combo"}) \in Registry
  /\ \A m \in {"mouseMove", "mouseClick"} : Row(m, "raw", {"x", "y"}) \in Registry
<1>1. RegisteredExtensions \subseteq Registry
  BY DEF Registry
<1>2. \A m \in {"getDCPowerState", "getATXState", "getActiveExtension", "getJigglerState",
        "getTailscaleStatus", "getMqttSettings", "getSerialCommandHistory",
        "deleteSerialCommandHistory"} : Row(m, "ignored", {}) \in RegisteredExtensions
  BY DEF RegisteredExtensions, Reading, Ignoring, Row
<1>3. \A m \in {"setDCPowerState",
        "setJigglerState"} : Row(m, "raw", {"enabled"}) \in RegisteredExtensions
  BY DEF RegisteredExtensions, Reading, Ignoring, Row
<1>4. \A m \in {"setDCRestoreState"} : Row(m, "raw", {"state"}) \in RegisteredExtensions
  BY DEF RegisteredExtensions, Reading, Ignoring, Row
<1>5. \A m \in {"setATXPowerAction"} : Row(m, "raw", {"action"}) \in RegisteredExtensions
  BY DEF RegisteredExtensions, Reading, Ignoring, Row
<1>6. \A m \in {"setActiveExtension"} : Row(m, "raw", {"extensionId"}) \in RegisteredExtensions
  BY DEF RegisteredExtensions, Reading, Ignoring, Row
<1>7. \A m \in {"setMqttSettings"} : Row(m, "raw", {"settings"}) \in RegisteredExtensions
  BY DEF RegisteredExtensions, Reading, Ignoring, Row
<1>8. \A m \in {"executeKeyboardMacro"} : Row(m, "steps", {}) \in RegisteredExtensions
  BY DEF RegisteredExtensions, Reading, Ignoring, Row
<1>9. \A m \in {"typeText"} : Row(m, "raw", {"text"}) \in RegisteredExtensions
  BY DEF RegisteredExtensions, Reading, Ignoring, Row
<1>10. \A m \in {"pressCombo"} : Row(m, "raw", {"combo"}) \in RegisteredExtensions
  BY DEF RegisteredExtensions, Reading, Ignoring, Row
<1>11. \A m \in {"mouseMove", "mouseClick"} : Row(m, "raw", {"x", "y"}) \in RegisteredExtensions
  BY DEF RegisteredExtensions, Reading, Ignoring, Row
<1> QED BY <1>1, <1>2, <1>3, <1>4, <1>5, <1>6, <1>7, <1>8, <1>9, <1>10, <1>11

\* These calls are accepted.
LEMMA SettingsLoadsServed == \A c \in SettingsLoads : Serves(c[1], c[2])
<1>1. \A m \in {"getVideoCodecPreference", "getDefaultLogLevel"} : Serves(m, NoArgs)
  BY IgnoredServes, RegisteredSystemRows
<1>2. \A m \in {"getDisplayRotation", "getBacklightSettings", "getDeviceID", "getUsbDevices",
        "getEDID", "getAutoUpdateState", "getUsbEmulationState"} : Serves(m, NoArgs)
  BY IgnoredServes, RegisteredVideoRows
<1>3. \A m \in {"getKeyboardLayout", "getLocalVersion"} : Serves(m, NoArgs)
  BY IgnoredServes, RegisteredInputRows
<1>4. \A m \in {"getVirtualMediaState", "getSSHKeyState"} : Serves(m, NoArgs)
  BY IgnoredServes, RegisteredMediaRows
<1>5. \A m \in {"getNetworkState", "getNetworkSettings"} : Serves(m, NoArgs)
  BY IgnoredServes, RegisteredNetworkRows
<1>6. \A m \in {"getJigglerState", "getMqttSettings"} : Serves(m, NoArgs)
  BY IgnoredServes, RegisteredExtensionsRows
<1> QED BY <1>1, <1>2, <1>3, <1>4, <1>5, <1>6
      DEF SettingsLoads, Get

\* These calls are accepted.
LEMMA SettingsMediaActionsServed == \A c \in SettingsMediaActions : Serves(c[1], c[2])
<1>1. \A m \in {"unmountImage"} : Serves(m, NoArgs)
  BY IgnoredServes, RegisteredMediaRows
<1>2. \A m \in {"renewDHCPLease"} : Serves(m, NoArgs)
  BY IgnoredServes, RegisteredNetworkRows
<1>3. \A m \in {"getUpdateStatus"} : Serves(m, NoArgs)
  BY IgnoredServes, RegisteredInputRows
<1>4. \A m \in {"tryUpdate"} : Serves(m, NoArgs)
  BY IgnoredServes, RegisteredSystemRows
<1>5. Serves("mountWithHTTP", Object({"url", "mode"}))
  <2>1. Row("mountWithHTTP", "raw", {"url", "mode"}) \in Registry
    BY RegisteredMediaRows
  <2>2. /\ {"url", "mode"} \subseteq {"url", "mode"}
        /\ "params" \notin {"url", "mode"}
    OBVIOUS
  <2> QED BY <2>1, <2>2, FieldsServe
<1> QED BY <1>1, <1>2, <1>3, <1>4, <1>5
      DEF SettingsMediaActions, Get, With

\* These calls are accepted.
LEMMA SettingsSavesServed == \A c \in SettingsSaves : Serves(c[1], c[2])
<1>1. Serves("setUsbDeviceState", Object({"device", "enabled"}))
  <2>1. Row("setUsbDeviceState", "typed", {"device", "enabled"}) \in Registry
    BY RegisteredVideoRows
  <2>2. /\ {"device", "enabled"} \subseteq {"device", "enabled"}
        /\ "params" \notin {"device", "enabled"}
    OBVIOUS
  <2> QED BY <2>1, <2>2, FieldsServe
<1>2. Serves("setEDID", Object({"edid"}))
  <2>1. Row("setEDID", "typed", {}) \in Registry
    BY RegisteredVideoRows
  <2>2. /\ {} \subseteq {"edid"}
        /\ "params" \notin {"edid"}
    OBVIOUS
  <2> QED BY <2>1, <2>2, FieldsServe
<1>3. Serves("sendWOLMagicPacket", Object({"macAddress"}))
  <2>1. Row("sendWOLMagicPacket", "raw", {"macAddress"}) \in Registry
    BY RegisteredNetworkRows
  <2>2. /\ {"macAddress"} \subseteq {"macAddress"}
        /\ "params" \notin {"macAddress"}
    OBVIOUS
  <2> QED BY <2>1, <2>2, FieldsServe
<1>4. Serves("setNetworkSettings", Object({"settings"}))
  <2>1. Row("setNetworkSettings", "raw", {"settings"}) \in Registry
    BY RegisteredNetworkRows
  <2>2. /\ {"settings"} \subseteq {"settings"}
        /\ "params" \notin {"settings"}
    OBVIOUS
  <2> QED BY <2>1, <2>2, FieldsServe
<1>5. Serves("setMqttSettings", Object({"settings"}))
  <2>1. Row("setMqttSettings", "raw", {"settings"}) \in Registry
    BY RegisteredExtensionsRows
  <2>2. /\ {"settings"} \subseteq {"settings"}
        /\ "params" \notin {"settings"}
    OBVIOUS
  <2> QED BY <2>1, <2>2, FieldsServe
<1>6. Serves("setSSHKeyState", Object({"sshKey"}))
  <2>1. Row("setSSHKeyState", "raw", {"sshKey"}) \in Registry
    BY RegisteredMediaRows
  <2>2. /\ {"sshKey"} \subseteq {"sshKey"}
        /\ "params" \notin {"sshKey"}
    OBVIOUS
  <2> QED BY <2>1, <2>2, FieldsServe
<1>7. Serves("setDefaultLogLevel", Object({"level"}))
  <2>1. Row("setDefaultLogLevel", "typed", {"level"}) \in Registry
    BY RegisteredSystemRows
  <2>2. /\ {"level"} \subseteq {"level"}
        /\ "params" \notin {"level"}
    OBVIOUS
  <2> QED BY <2>1, <2>2, FieldsServe
<1>8. Serves("setVideoCodecPreference", Object({"codec"}))
  <2>1. Row("setVideoCodecPreference", "typed", {"codec"}) \in Registry
    BY RegisteredSystemRows
  <2>2. /\ {"codec"} \subseteq {"codec"}
        /\ "params" \notin {"codec"}
    OBVIOUS
  <2> QED BY <2>1, <2>2, FieldsServe
<1>9. Serves("setDisplayRotation", Object({"rotation"}))
  <2>1. Row("setDisplayRotation", "raw", {"rotation"}) \in Registry
    BY RegisteredVideoRows
  <2>2. /\ {"rotation"} \subseteq {"rotation"}
        /\ "params" \notin {"rotation"}
    OBVIOUS
  <2> QED BY <2>1, <2>2, FieldsServe
<1>10. Serves("setKeyboardLayout", Object({"layout"}))
  <2>1. Row("setKeyboardLayout", "optional", {"layout"}) \in Registry
    BY RegisteredInputRows
  <2>2. /\ {"layout"} \subseteq {"layout"}
        /\ "params" \notin {"layout"}
    OBVIOUS
  <2> QED BY <2>1, <2>2, FieldsServe
<1>11. Serves("setBacklightSettings", Object({"max_brightness", "dim_after", "off_after"}))
  <2>1. Row("setBacklightSettings", "raw", {"max_brightness", "dim_after", "off_after"}) \in Registry
    BY RegisteredVideoRows
  <2>2. /\ {"max_brightness", "dim_after", "off_after"} \subseteq {"max_brightness", "dim_after", "off_after"}
        /\ "params" \notin {"max_brightness", "dim_after", "off_after"}
    OBVIOUS
  <2> QED BY <2>1, <2>2, FieldsServe
<1>12. Serves("reboot", Object({"force"}))
  <2>1. Row("reboot", "typed", {}) \in Registry
    BY RegisteredVideoRows
  <2>2. /\ {} \subseteq {"force"}
        /\ "params" \notin {"force"}
    OBVIOUS
  <2> QED BY <2>1, <2>2, FieldsServe
<1> QED BY <1>1, <1>2, <1>3, <1>4, <1>5, <1>6, <1>7, <1>8, <1>9, <1>10, <1>11, <1>12
      DEF SettingsSaves, With

\* These calls are accepted.
LEMMA SettingsTogglesServed == \A c \in SettingsToggles : Serves(c[1], c[2])
<1>1. Serves("setJigglerState", Object({"enabled"}))
  <2>1. Row("setJigglerState", "raw", {"enabled"}) \in Registry
    BY RegisteredExtensionsRows
  <2>2. /\ {"enabled"} \subseteq {"enabled"}
        /\ "params" \notin {"enabled"}
    OBVIOUS
  <2> QED BY <2>1, <2>2, FieldsServe
<1>2. Serves("setUsbEmulationState", Object({"enabled"}))
  <2>1. Row("setUsbEmulationState", "raw", {"enabled"}) \in Registry
    BY RegisteredVideoRows
  <2>2. /\ {"enabled"} \subseteq {"enabled"}
        /\ "params" \notin {"enabled"}
    OBVIOUS
  <2> QED BY <2>1, <2>2, FieldsServe
<1>3. Serves("setAutoUpdateState", Object({"enabled"}))
  <2>1. Row("setAutoUpdateState", "raw", {"enabled"}) \in Registry
    BY RegisteredVideoRows
  <2>2. /\ {"enabled"} \subseteq {"enabled"}
        /\ "params" \notin {"enabled"}
    OBVIOUS
  <2> QED BY <2>1, <2>2, FieldsServe
<1> QED BY <1>1, <1>2, <1>3
      DEF SettingsToggles, With

\* These calls are accepted.
LEMMA AdvancedLoadsServed == \A c \in AdvancedLoads : Serves(c[1], c[2])
<1>1. \A m \in {"getDCPowerState", "getATXState", "getActiveExtension", "getTailscaleStatus",
        "getSerialCommandHistory"} : Serves(m, NoArgs)
  BY IgnoredServes, RegisteredExtensionsRows
<1>2. \A m \in {"getCloudState"} : Serves(m, NoArgs)
  BY IgnoredServes, RegisteredNetworkRows
<1>3. \A m \in {"getDevModeState"} : Serves(m, NoArgs)
  BY IgnoredServes, RegisteredMediaRows
<1>4. \A m \in {"getDevChannelState", "getTLSState", "getKeyboardMacros"} : Serves(m, NoArgs)
  BY IgnoredServes, RegisteredInputRows
<1>5. \A m \in {"getTimezone"} : Serves(m, NoArgs)
  BY IgnoredServes, RegisteredSystemRows
<1> QED BY <1>1, <1>2, <1>3, <1>4, <1>5
      DEF AdvancedLoads, Get

\* These calls are accepted.
LEMMA AdvancedActionsServed == \A c \in AdvancedActions : Serves(c[1], c[2])
<1>1. \A m \in {"deregisterDevice", "resetConfig"} : Serves(m, NoArgs)
  BY IgnoredServes, RegisteredNetworkRows
<1>2. \A m \in {"deleteSerialCommandHistory"} : Serves(m, NoArgs)
  BY IgnoredServes, RegisteredExtensionsRows
<1>3. \A m \in {"factoryReset"} : Serves(m, NoArgs)
  BY IgnoredServes, RegisteredSystemRows
<1>4. Serves("setDCPowerState", Object({"enabled"}))
  <2>1. Row("setDCPowerState", "raw", {"enabled"}) \in Registry
    BY RegisteredExtensionsRows
  <2>2. /\ {"enabled"} \subseteq {"enabled"}
        /\ "params" \notin {"enabled"}
    OBVIOUS
  <2> QED BY <2>1, <2>2, FieldsServe
<1>5. Serves("setDCRestoreState", Object({"state"}))
  <2>1. Row("setDCRestoreState", "raw", {"state"}) \in Registry
    BY RegisteredExtensionsRows
  <2>2. /\ {"state"} \subseteq {"state"}
        /\ "params" \notin {"state"}
    OBVIOUS
  <2> QED BY <2>1, <2>2, FieldsServe
<1>6. Serves("setATXPowerAction", Object({"action"}))
  <2>1. Row("setATXPowerAction", "raw", {"action"}) \in Registry
    BY RegisteredExtensionsRows
  <2>2. /\ {"action"} \subseteq {"action"}
        /\ "params" \notin {"action"}
    OBVIOUS
  <2> QED BY <2>1, <2>2, FieldsServe
<1>7. Serves("setCloudUrl", Object({"apiUrl", "appUrl"}))
  <2>1. Row("setCloudUrl", "raw", {"apiUrl", "appUrl"}) \in Registry
    BY RegisteredNetworkRows
  <2>2. /\ {"apiUrl", "appUrl"} \subseteq {"apiUrl", "appUrl"}
        /\ "params" \notin {"apiUrl", "appUrl"}
    OBVIOUS
  <2> QED BY <2>1, <2>2, FieldsServe
<1>8. Serves("setActiveExtension", Object({"extensionId"}))
  <2>1. Row("setActiveExtension", "raw", {"extensionId"}) \in Registry
    BY RegisteredExtensionsRows
  <2>2. /\ {"extensionId"} \subseteq {"extensionId"}
        /\ "params" \notin {"extensionId"}
    OBVIOUS
  <2> QED BY <2>1, <2>2, FieldsServe
<1>9. Serves("setDevModeState", Object({"enabled"}))
  <2>1. Row("setDevModeState", "raw", {"enabled"}) \in Registry
    BY RegisteredMediaRows
  <2>2. /\ {"enabled"} \subseteq {"enabled"}
        /\ "params" \notin {"enabled"}
    OBVIOUS
  <2> QED BY <2>1, <2>2, FieldsServe
<1>10. Serves("setDevChannelState", Object({"enabled"}))
  <2>1. Row("setDevChannelState", "raw", {"enabled"}) \in Registry
    BY RegisteredInputRows
  <2>2. /\ {"enabled"} \subseteq {"enabled"}
        /\ "params" \notin {"enabled"}
    OBVIOUS
  <2> QED BY <2>1, <2>2, FieldsServe
<1>11. Serves("setKeyboardMacros", Object({"macros"}))
  <2>1. Row("setKeyboardMacros", "unwrapped", {"macros"}) \in Registry
    BY RegisteredInputRows
  <2>2. /\ {"macros"} \subseteq {"macros"}
        /\ "params" \notin {"macros"}
    OBVIOUS
  <2> QED BY <2>1, <2>2, FieldsServe
<1>12. Serves("setTLSState", Wrapped("state", {"mode"}))
  <2>1. Row("setTLSState", "state", {"mode"}) \in Registry
    BY RegisteredInputRows
  <2>2. Readable(Row("setTLSState", "state", {"mode"}), Wrapped("state", {"mode"}))
    BY DEF Readable, Row, Wrapped, List
  <2> QED BY <2>1, <2>2, RowServes
<1>13. Serves("setTLSState", Wrapped("state", {"mode", "certificate", "privateKey"}))
  <2>1. Row("setTLSState", "state", {"mode"}) \in Registry
    BY RegisteredInputRows
  <2>2. Readable(Row("setTLSState", "state", {"mode"}), Wrapped("state", {"mode", "certificate", "privateKey"}))
    BY DEF Readable, Row, Wrapped, List
  <2> QED BY <2>1, <2>2, RowServes
<1>14. Serves("executeKeyboardMacro", List)
  <2>1. Row("executeKeyboardMacro", "steps", {}) \in Registry
    BY RegisteredExtensionsRows
  <2>2. Readable(Row("executeKeyboardMacro", "steps", {}), List)
    BY DEF Readable, Row, Wrapped, List
  <2> QED BY <2>1, <2>2, RowServes
<1> QED BY <1>1, <1>2, <1>3, <1>4, <1>5, <1>6, <1>7, <1>8, <1>9, <1>10, <1>11, <1>12, <1>13, <1>14
      DEF AdvancedActions, Get, With

\* These calls are accepted.
LEMMA ConsoleCallsServed == \A c \in ConsoleCalls : Serves(c[1], c[2])
<1>1. \A m \in {"getVideoState"} : Serves(m, NoArgs)
  BY IgnoredServes, RegisteredMediaRows
<1>2. \A m \in {"getKeyboardLedState"} : Serves(m, NoArgs)
  BY IgnoredServes, RegisteredInputRows
<1>3. \A m \in {"getAudioConfig", "getStreamQualityFactor", "getUsbDevices"} : Serves(m, NoArgs)
  BY IgnoredServes, RegisteredVideoRows
<1>4. Serves("setAudioConfig", Wrapped("params", {"enabled"}))
  <2>1. Row("setAudioConfig", "raw", {"params"}) \in Registry
    BY RegisteredVideoRows
  <2>2. Readable(Row("setAudioConfig", "raw", {"params"}), Wrapped("params", {"enabled"}))
    BY DEF Readable, Row, Wrapped, List
  <2> QED BY <2>1, <2>2, RowServes
<1>5. Serves("setStreamQualityFactor", Object({"factor"}))
  <2>1. Row("setStreamQualityFactor", "typed", {"factor"}) \in Registry
    BY RegisteredVideoRows
  <2>2. /\ {"factor"} \subseteq {"factor"}
        /\ "params" \notin {"factor"}
    OBVIOUS
  <2> QED BY <2>1, <2>2, FieldsServe
<1>6. Serves("wheelReport", Object({"wheelY", "wheelX"}))
  <2>1. Row("wheelReport", "typed", {"wheelY"}) \in Registry
    BY RegisteredInputRows
  <2>2. /\ {"wheelY"} \subseteq {"wheelY", "wheelX"}
        /\ "params" \notin {"wheelY", "wheelX"}
    OBVIOUS
  <2> QED BY <2>1, <2>2, FieldsServe
<1>7. Serves("readScreenText", Object({}))
  <2>1. Row("readScreenText", "optional", {}) \in Registry
    BY RegisteredSystemRows
  <2>2. /\ {} \subseteq {}
        /\ "params" \notin {}
    OBVIOUS
  <2> QED BY <2>1, <2>2, FieldsServe
<1>8. Serves("startStorageFileUpload", Object({"filename", "size"}))
  <2>1. Row("startStorageFileUpload", "raw", {"filename", "size"}) \in Registry
    BY RegisteredMediaRows
  <2>2. /\ {"filename", "size"} \subseteq {"filename", "size"}
        /\ "params" \notin {"filename", "size"}
    OBVIOUS
  <2> QED BY <2>1, <2>2, FieldsServe
<1>9. Serves("mountWithStorage", Object({"filename", "mode"}))
  <2>1. Row("mountWithStorage", "raw", {"filename", "mode"}) \in Registry
    BY RegisteredMediaRows
  <2>2. /\ {"filename", "mode"} \subseteq {"filename", "mode"}
        /\ "params" \notin {"filename", "mode"}
    OBVIOUS
  <2> QED BY <2>1, <2>2, FieldsServe
<1> QED BY <1>1, <1>2, <1>3, <1>4, <1>5, <1>6, <1>7, <1>8, <1>9
      DEF ConsoleCalls, Get, With

\* Every call the web client makes is accepted.
LEMMA ClientIsServed == \A c \in ClientCalls : Serves(c[1], c[2])
BY SettingsLoadsServed, SettingsMediaActionsServed, SettingsSavesServed, SettingsTogglesServed, AdvancedLoadsServed,
   AdvancedActionsServed, ConsoleCallsServed DEF ClientCalls

\* An entry of the registry takes whatever the schema of a tool allows.
Takes(tool, kind, need) ==
  \/ kind = "ignored" /\ need = {}
  \/ kind \in {"typed", "optional"} /\ need = {}
  \/ kind = "raw" /\ need # {} /\ \A t \in Tools : t.tool = tool => need \subseteq t.required
Backed(tool, method) ==
  \E need : \E kind \in {"ignored", "typed", "optional", "raw"} :
    Row(method, kind, need) \in Registry /\ Takes(tool, kind, need)

\* Every tool calls a method with such an entry.
LEMMA ToolsBacked == \A m \in RpcMethodForTool : Backed(m[1], m[2])
<1>1. Backed("get_health", "getHealth")
  <2>1. Row("getHealth", "ignored", {}) \in Registry
    BY RegisteredVideoRows
  <2>3. Takes("get_health", "ignored", {})
    BY DEF Takes
  <2> QED BY <2>1, <2>3 DEF Backed
<1>2. Backed("get_logs", "getRecentLogs")
  <2>1. Row("getRecentLogs", "typed", {}) \in Registry
    BY RegisteredSystemRows
  <2>3. Takes("get_logs", "typed", {})
    BY DEF Takes
  <2> QED BY <2>1, <2>3 DEF Backed
<1>3. Backed("type_text", "typeText")
  <2>1. Row("typeText", "raw", {"text"}) \in Registry
    BY RegisteredExtensionsRows
  <2>2. \A s \in Tools : s.tool = "type_text" => {"text"} \subseteq s.required
    BY DEF Tools, ToolSchemas, ToolSchemasVision, Schema
  <2>3. Takes("type_text", "raw", {"text"})
    BY <2>2 DEF Takes
  <2> QED BY <2>1, <2>3 DEF Backed
<1>4. Backed("press_combo", "pressCombo")
  <2>1. Row("pressCombo", "raw", {"combo"}) \in Registry
    BY RegisteredExtensionsRows
  <2>2. \A s \in Tools : s.tool = "press_combo" => {"combo"} \subseteq s.required
    BY DEF Tools, ToolSchemas, ToolSchemasVision, Schema
  <2>3. Takes("press_combo", "raw", {"combo"})
    BY <2>2 DEF Takes
  <2> QED BY <2>1, <2>3 DEF Backed
<1>5. Backed("mouse_move", "mouseMove")
  <2>1. Row("mouseMove", "raw", {"x", "y"}) \in Registry
    BY RegisteredExtensionsRows
  <2>2. \A s \in Tools : s.tool = "mouse_move" => {"x", "y"} \subseteq s.required
    BY DEF Tools, ToolSchemas, ToolSchemasVision, Schema
  <2>3. Takes("mouse_move", "raw", {"x", "y"})
    BY <2>2 DEF Takes
  <2> QED BY <2>1, <2>3 DEF Backed
<1>6. Backed("mouse_click", "mouseClick")
  <2>1. Row("mouseClick", "raw", {"x", "y"}) \in Registry
    BY RegisteredExtensionsRows
  <2>2. \A s \in Tools : s.tool = "mouse_click" => {"x", "y"} \subseteq s.required
    BY DEF Tools, ToolSchemas, ToolSchemasVision, Schema
  <2>3. Takes("mouse_click", "raw", {"x", "y"})
    BY <2>2 DEF Takes
  <2> QED BY <2>1, <2>3 DEF Backed
<1>7. Backed("atx_power", "setATXPowerAction")
  <2>1. Row("setATXPowerAction", "raw", {"action"}) \in Registry
    BY RegisteredExtensionsRows
  <2>2. \A s \in Tools : s.tool = "atx_power" => {"action"} \subseteq s.required
    BY DEF Tools, ToolSchemas, ToolSchemasVision, Schema
  <2>3. Takes("atx_power", "raw", {"action"})
    BY <2>2 DEF Takes
  <2> QED BY <2>1, <2>3 DEF Backed
<1>8. Backed("get_atx_state", "getATXState")
  <2>1. Row("getATXState", "ignored", {}) \in Registry
    BY RegisteredExtensionsRows
  <2>3. Takes("get_atx_state", "ignored", {})
    BY DEF Takes
  <2> QED BY <2>1, <2>3 DEF Backed
<1>9. Backed("dc_power", "setDCPowerState")
  <2>1. Row("setDCPowerState", "raw", {"enabled"}) \in Registry
    BY RegisteredExtensionsRows
  <2>2. \A s \in Tools : s.tool = "dc_power" => {"enabled"} \subseteq s.required
    BY DEF Tools, ToolSchemas, ToolSchemasVision, Schema
  <2>3. Takes("dc_power", "raw", {"enabled"})
    BY <2>2 DEF Takes
  <2> QED BY <2>1, <2>3 DEF Backed
<1>10. Backed("get_dc_power_state", "getDCPowerState")
  <2>1. Row("getDCPowerState", "ignored", {}) \in Registry
    BY RegisteredExtensionsRows
  <2>3. Takes("get_dc_power_state", "ignored", {})
    BY DEF Takes
  <2> QED BY <2>1, <2>3 DEF Backed
<1>11. Backed("wake_on_lan", "sendWOLMagicPacket")
  <2>1. Row("sendWOLMagicPacket", "raw", {"macAddress"}) \in Registry
    BY RegisteredNetworkRows
  <2>2. \A s \in Tools : s.tool = "wake_on_lan" => {"macAddress"} \subseteq s.required
    BY DEF Tools, ToolSchemas, ToolSchemasVision, Schema
  <2>3. Takes("wake_on_lan", "raw", {"macAddress"})
    BY <2>2 DEF Takes
  <2> QED BY <2>1, <2>3 DEF Backed
<1>12. Backed("read_screen_text", "readScreenText")
  <2>1. Row("readScreenText", "optional", {}) \in Registry
    BY RegisteredSystemRows
  <2>3. Takes("read_screen_text", "optional", {})
    BY DEF Takes
  <2> QED BY <2>1, <2>3 DEF Backed
<1>13. Backed("find_text", "findScreenText")
  <2>1. Row("findScreenText", "raw", {"text"}) \in Registry
    BY RegisteredSystemRows
  <2>2. \A s \in Tools : s.tool = "find_text" => {"text"} \subseteq s.required
    BY DEF Tools, ToolSchemas, ToolSchemasVision, Schema
  <2>3. Takes("find_text", "raw", {"text"})
    BY <2>2 DEF Takes
  <2> QED BY <2>1, <2>3 DEF Backed
<1>14. Backed("wait_until_stable", "waitScreenStable")
  <2>1. Row("waitScreenStable", "optional", {}) \in Registry
    BY RegisteredSystemRows
  <2>3. Takes("wait_until_stable", "optional", {})
    BY DEF Takes
  <2> QED BY <2>1, <2>3 DEF Backed
<1>15. Backed("wait_for_text", "waitForText")
  <2>1. Row("waitForText", "raw", {"text"}) \in Registry
    BY RegisteredSystemRows
  <2>2. \A s \in Tools : s.tool = "wait_for_text" => {"text"} \subseteq s.required
    BY DEF Tools, ToolSchemas, ToolSchemasVision, Schema
  <2>3. Takes("wait_for_text", "raw", {"text"})
    BY <2>2 DEF Takes
  <2> QED BY <2>1, <2>3 DEF Backed
<1> QED BY <1>1, <1>2, <1>3, <1>4, <1>5, <1>6, <1>7, <1>8, <1>9, <1>10, <1>11, <1>12, <1>13, <1>14, <1>15
      DEF RpcMethodForTool

\* Every tool but the three that call_tool handles itself has a method, and no schema names "params".
LEMMA ToolsNamed ==
  \A t \in Tools :
    /\ t.tool \notin {"screenshot", "list_rpc_methods", "rpc_call"} => \E m \in RpcMethodForTool : m[1] = t.tool
    /\ t.tool # "rpc_call" => "params" \notin t.required \cup t.optional
<1>1. \A t \in ToolSchemas :
        /\ t.tool \notin {"screenshot", "list_rpc_methods"} => \E m \in RpcMethodForTool : m[1] = t.tool
        /\ "params" \notin t.required \cup t.optional
  BY DEF ToolSchemas, Schema, RpcMethodForTool
<1>2. \A t \in ToolSchemasVision : t.tool # "rpc_call" => /\ \E m \in RpcMethodForTool : m[1] = t.tool
                                                          /\ "params" \notin t.required \cup t.optional
  BY DEF ToolSchemasVision, Schema, RpcMethodForTool
<1> QED BY <1>1, <1>2 DEF Tools

\* A listed tool is accepted with any optional arguments.
LEMMA ToolServed ==
  ASSUME NEW t \in Tools, NEW optional \in SUBSET t.optional, NEW named, t.tool # "rpc_call"
  PROVE  CallTool(t.tool, t.required \cup optional, named) = "accepted"
<1> DEFINE args == t.required \cup optional
           sent == IF args = {} THEN NoArgs ELSE Object(args)
           m == CHOOSE q \in RpcMethodForTool : q[1] = t.tool
<1>1. CASE t.tool \in {"screenshot", "list_rpc_methods"}
  BY <1>1 DEF CallTool
<1>2. CASE t.tool \notin {"screenshot", "list_rpc_methods"}
  <2>1. \E q \in RpcMethodForTool : q[1] = t.tool
    BY <1>2, ToolsNamed
  <2>2. m \in RpcMethodForTool /\ m[1] = t.tool
    BY <2>1
  <2>3. CallTool(t.tool, args, named) = RegistryCall(m[2], sent)
    BY <1>2, <2>1 DEF CallTool
  <2> HIDE DEF m, sent, args
  <2>4. Backed(t.tool, m[2])
    BY <2>2, ToolsBacked
  <2>5. PICK need : \E kind \in {"ignored", "typed", "optional", "raw"} :
          Row(m[2], kind, need) \in Registry /\ Takes(t.tool, kind, need)
    BY <2>4 DEF Backed
  <2>6. PICK kind \in {"ignored", "typed", "optional", "raw"} :
          Row(m[2], kind, need) \in Registry /\ Takes(t.tool, kind, need)
    BY <2>5
  <2>7. "params" \notin args
    BY ToolsNamed DEF args
  <2>8. Serves(m[2], sent)
    <3>1. CASE kind = "ignored" /\ need = {}
      BY <2>6, <3>1, IgnoredServes
    <3>2. CASE kind \in {"typed", "optional"} /\ need = {}
      <4>1. CASE args = {}
        BY <2>6, <3>2, <4>1, NothingServes DEF sent
      <4>2. CASE args # {}
        BY <2>6, <2>7, <3>2, <4>2, FieldsServe DEF sent
      <4> QED BY <4>1, <4>2
    <3>3. CASE kind = "raw" /\ need # {} /\ \A s \in Tools : s.tool = t.tool => need \subseteq s.required
      <4>1. need \subseteq args /\ args # {}
        BY <3>3 DEF args
      <4> QED BY <2>6, <2>7, <3>3, <4>1, FieldsServe DEF sent
    <3> QED BY <2>6, <3>1, <3>2, <3>3 DEF Takes
  <2> QED BY <2>3, <2>8 DEF Serves, args
<1> QED BY <1>1, <1>2

\* Answers that the registry and the tools give.
Outcomes == {"accepted", "refused", "unknown"}

\* The registry and the tools answer every call, and never with silence.
LEMMA CallsAnswered == /\ \A m, p : RegistryCall(m, p) \in Outcomes
                       /\ \A t, args, named : CallTool(t, args, named) \in Outcomes
<1>1. ASSUME NEW m, NEW p PROVE RegistryCall(m, p) \in Outcomes
  <2> DEFINE named == {r \in Registry : r.method = m}
  <2>1. RegistryCall(m, p) = IF named = {} THEN "unknown"
                             ELSE IF \E r \in named : Readable(r, p) THEN "accepted" ELSE "refused"
    BY DEF RegistryCall
  <2> HIDE DEF named
  <2> QED BY <2>1 DEF Outcomes
<1>2. ASSUME NEW t, NEW args, NEW named PROVE CallTool(t, args, named) \in Outcomes
  <2>1. CASE t \in {"screenshot", "list_rpc_methods"}
    BY <2>1 DEF CallTool, Outcomes
  <2>2. CASE t = "rpc_call"
    BY <1>1, <2>2 DEF CallTool, Outcomes
  <2>3. CASE t \notin {"screenshot", "list_rpc_methods", "rpc_call"}
    BY <1>1, <2>3 DEF CallTool, Outcomes
  <2> QED BY <2>1, <2>2, <2>3
<1> QED BY <1>1, <1>2

\* A request with an id is answered, one without is met with silence.
LEMMA McpAnswered ==
  ASSUME NEW c, c.id \in BOOLEAN
  PROVE  /\ ~c.id => McpHandle(c) = "silence"
         /\ c.id => McpHandle(c) \in Outcomes
         /\ c.id /\ c.method = "tools/call" => McpHandle(c) = CallTool(c.tool, c.args, c.named)
<1>1. CASE c.id = FALSE
  BY <1>1 DEF McpHandle
<1>2. CASE c.id = TRUE
  <2>1. CASE c.method \in {"initialize", "ping", "tools/list"}
    BY <1>2, <2>1 DEF McpHandle, Outcomes
  <2>2. CASE c.method = "tools/call"
    <3>1. McpHandle(c) = CallTool(c.tool, c.args, c.named)
      BY <1>2, <2>2 DEF McpHandle
    <3> QED BY <1>2, <3>1, CallsAnswered
  <2>3. CASE c.method \notin {"initialize", "ping", "tools/list", "tools/call"}
    BY <1>2, <2>3 DEF McpHandle, Outcomes
  <2> QED BY <2>1, <2>2, <2>3
<1> QED BY <1>1, <1>2

\* A call of the client is one of its calls, a call of a tool is what the tool's schema allows, and what is
\* answered is what the registry or the tool answers.
ClientCallIInv ==
  /\ call.from = "nobody" => call = Idle
  /\ call.from = "client" => /\ \E c \in ClientCalls : call.method = c[1] /\ call.params = c[2]
                            /\ answer \in {"none", "accepted"}
ToolCallIInv ==
  call.from = "mcp" =>
    /\ call.id \in BOOLEAN /\ (answer # "none" => answer = McpHandle(call))
    /\ \E t \in Tools : \E optional \in SUBSET t.optional : call.tool = t.tool /\ call.args = t.required \cup optional
ApiIInv == ApiTypeOK /\ ClientCallIInv /\ ToolCallIInv /\ NumberIInv

\* Asking keeps it.
LEMMA ApiAsks == ASSUME ApiIInv, ApiAsk PROVE ApiTypeOK' /\ ClientCallIInv' /\ ToolCallIInv'
<1>1. answer = "none" /\ answer' = "none"
  BY DEF ApiAsk
<1>2. CASE ClientAsks
  <2>1. PICK c \in ClientCalls : call' = [from |-> "client", method |-> c[1], params |-> c[2]]
    BY <1>2 DEF ClientAsks
  <2>2. call'.from = "client" /\ call'.method = c[1] /\ call'.params = c[2]
    BY <2>1
  <2> QED BY <1>1, <2>2 DEF ApiTypeOK, ClientCallIInv, ToolCallIInv
<1>3. CASE McpAsks
  <2>1. PICK id \in BOOLEAN, m \in McpMethods, named \in NamedMethods :
          \E t \in Tools : \E optional \in SUBSET t.optional :
             call' = [from |-> "mcp", id |-> id, method |-> m, tool |-> t.tool, args |-> t.required \cup optional,
                      named |-> named]
    BY <1>3 DEF McpAsks
  <2>2. PICK t \in Tools : \E optional \in SUBSET t.optional :
             call' = [from |-> "mcp", id |-> id, method |-> m, tool |-> t.tool, args |-> t.required \cup optional,
                      named |-> named]
    BY <2>1
  <2>3. PICK optional \in SUBSET t.optional :
             call' = [from |-> "mcp", id |-> id, method |-> m, tool |-> t.tool, args |-> t.required \cup optional,
                      named |-> named]
    BY <2>2
  <2>4. call'.from = "mcp" /\ call'.id = id /\ call'.tool = t.tool /\ call'.args = t.required \cup optional
    BY <2>3
  <2>5. call'.id \in BOOLEAN
    BY <2>4, Zenon
  <2>6. \E s \in Tools : \E p \in SUBSET s.optional : call'.tool = s.tool /\ call'.args = s.required \cup p
    BY <2>4
  <2> QED BY <1>1, <2>4, <2>5, <2>6 DEF ApiTypeOK, ClientCallIInv, ToolCallIInv
<1>4. CASE NumberAsks
  <2>1. call'.from = "number"
    BY <1>4 DEF NumberAsks
  <2>2. call' # Idle
    BY <2>1 DEF Idle
  <2> QED BY <1>1, <2>1 DEF ApiTypeOK, ClientCallIInv, ToolCallIInv
<1> QED BY <1>2, <1>3, <1>4 DEF ApiAsk

\* Answering keeps it.
LEMMA ApiAnswers == ASSUME ApiIInv, ApiAnswer PROVE ApiTypeOK' /\ ClientCallIInv' /\ ToolCallIInv'
<1>1. call' = call /\ call # Idle /\ call.from \in {"nobody", "client", "mcp", "number"} /\ answer = "none"
  BY DEF ApiAnswer, ApiIInv, ApiTypeOK
<1>2. CASE call.from = "client"
  <2>1. answer' = RegistryCall(call.method, call.params)
    BY <1>2 DEF ApiAnswer
  <2>2. \E c \in ClientCalls : call.method = c[1] /\ call.params = c[2]
    BY <1>2 DEF ApiIInv, ClientCallIInv
  <2>3. answer' = "accepted"
    BY <2>1, <2>2, ClientIsServed DEF Serves
  <2> QED BY <1>1, <1>2, <2>2, <2>3 DEF ApiTypeOK, ClientCallIInv, ToolCallIInv
<1>3. CASE call.from = "mcp"
  <2>1. answer' = McpHandle(call)
    BY <1>3 DEF ApiAnswer
  <2>2. /\ call.id \in BOOLEAN
        /\ \E t \in Tools : \E optional \in SUBSET t.optional : call.tool = t.tool /\ call.args = t.required \cup optional
    BY <1>3 DEF ApiIInv, ToolCallIInv
  <2>3. answer' \in Outcomes \cup {"silence"}
    BY <2>1, <2>2, McpAnswered
  <2>4. ToolCallIInv'
    BY <1>1, <2>1, <2>2 DEF ToolCallIInv
  <2> QED BY <1>1, <1>3, <2>3, <2>4 DEF ApiTypeOK, ClientCallIInv, Outcomes
<1>4. CASE call.from = "number"
  <2>1. answer' \in {"refused", "accepted"}
    BY <1>4 DEF ApiAnswer
  <2> QED BY <1>1, <1>4, <2>1 DEF ApiTypeOK, ClientCallIInv, ToolCallIInv
<1>5. CASE call.from = "nobody"
  <2>1. call = Idle
    BY <1>5 DEF ApiIInv, ClientCallIInv
  <2> QED BY <1>1, <2>1
<1> QED BY <1>1, <1>2, <1>3, <1>4, <1>5

\* Every call keeps it.
LEMMA ApiStep == ApiIInv /\ [ApiNext]_apiVars => ApiIInv'
<1> SUFFICES ASSUME ApiIInv, [ApiNext]_apiVars PROVE ApiIInv'
  OBVIOUS
<1>1. NumberIInv'
  BY NumberStep DEF ApiIInv
<1>2. CASE ApiAsk
  BY <1>1, <1>2, ApiAsks DEF ApiIInv
<1>3. CASE ApiAnswer
  BY <1>1, <1>3, ApiAnswers DEF ApiIInv
<1>4. CASE ApiDone
  <2>1. call' = Idle /\ answer' = "none" /\ call'.from = "nobody"
    BY <1>4 DEF ApiDone, Idle
  <2> QED BY <1>1, <2>1 DEF ApiIInv, ApiTypeOK, ClientCallIInv, ToolCallIInv
<1>5. CASE UNCHANGED apiVars
  BY <1>1, <1>5 DEF apiVars, ApiIInv, ApiTypeOK, ClientCallIInv, ToolCallIInv
<1> QED BY <1>2, <1>3, <1>4, <1>5 DEF ApiNext

\* What a listed tool is told.
LEMMA ToolsHonoured == ApiIInv => ToolsAreHonoured
<1> SUFFICES ASSUME ApiIInv, call.from = "mcp", answer # "none" PROVE ToolsAreHonoured
  BY DEF ToolsAreHonoured
<1>1. call.id \in BOOLEAN /\ answer = McpHandle(call)
  BY DEF ApiIInv, ToolCallIInv
<1>6. PICK t \in Tools : \E optional \in SUBSET t.optional : call.tool = t.tool /\ call.args = t.required \cup optional
  BY DEF ApiIInv, ToolCallIInv
<1>2. PICK optional \in SUBSET t.optional : call.tool = t.tool /\ call.args = t.required \cup optional
  BY <1>6
<1>3. /\ ~call.id => answer = "silence"
      /\ call.id => answer \in Outcomes
      /\ call.id /\ call.method = "tools/call" => answer = CallTool(call.tool, call.args, call.named)
  BY <1>1, McpAnswered
<1>4. call.id /\ call.method = "tools/call" /\ call.tool # "rpc_call" => answer = "accepted"
  BY <1>2, <1>3, ToolServed
<1>5. (answer = "silence") <=> ~call.id
  BY <1>1, <1>3 DEF Outcomes
<1> QED BY <1>4, <1>5 DEF ToolsAreHonoured

\* For any widths of the integers: every call of the web client is accepted by the registry, every tool takes
\* what its schema allows, silence answers a request without an id, and no number changes on its way.
THEOREM ApiInvHolds == ApiSpec => []ApiInv
<1>1. ApiInit => ApiIInv
  BY DEF ApiInit, Idle, ApiIInv, ApiTypeOK, ClientCallIInv, ToolCallIInv, NumberIInv
<1>2. ApiIInv /\ [ApiNext]_apiVars => ApiIInv'
  BY ApiStep
<1>3. ApiIInv => ApiInv
  BY ToolsHonoured, NumberIInvImplies DEF ApiIInv, ApiInv, ClientCallIInv, ClientSpeaksDevice
<1> QED BY <1>1, <1>2, <1>3, PTL DEF ApiSpec

-----------------------------------------------------------------------------
(* What MQTT leaves on the broker *)

OpName(op) == <<op.c, op.o>>
NameOf(e) == <<e.c, e.o>>
Mentions(ops) == {OpName(ops[i]) : i \in 1..Len(ops)}

\* The names of all entries there can be.
ControlNames ==
  {<<"select", "virtual_media">>, <<"sensor", "virtual_media">>, <<"switch", "jiggler">>,
   <<"binary_sensor", "jiggler">>, <<"button", "reboot">>, <<"update", "firmware">>}
AtxNames ==
  {<<"binary_sensor", "power_led">>, <<"binary_sensor", "hdd_led">>, <<"button", "atx_power_short">>,
   <<"button", "atx_power_long">>, <<"button", "atx_reset">>}
DcNames ==
  {<<"sensor", "voltage">>, <<"sensor", "current">>, <<"sensor", "power">>, <<"switch", "dc_power">>,
   <<"binary_sensor", "dc_power">>, <<"select", "dc_restore">>, <<"sensor", "dc_restore">>}
AllNames == StatusNames \cup NetworkNames \cup SystemNames \cup ControlNames \cup AtxNames \cup DcNames

\* Entries and messages about them.
Components == {n[1] : n \in AllNames}
Objects == {n[2] : n \in AllNames}
EntryType == [c : Components, o : Objects, state : CleanedTopics \cup {""}, command : SubscribedCommands \cup {""}]
OpType == [put : BOOLEAN, c : Components, o : Objects, entry : SUBSET EntryType]

\* Two forms of one entry.
Twofold == {"virtual_media", "jiggler", "dc_power", "dc_restore"}
Rivals(m, n) == m[2] = n[2] /\ n[2] \in Twofold /\ m # n

\* One form of each entry.
Unrivalled(es) == \A d, e \in es : (d.o = e.o /\ d.o \in Twofold) => d.c = e.c

Served(e, x) ==
  /\ e.state = "" \/ e.state \in PublishedTopics(x)
  /\ e.command = "" \/ (e.command \in SubscribedCommands /\ Offered(e) \subseteq Understood(e.command))

\* A message that suits the settings: it puts what is wanted and removes what is not.
Suits(op, a, x, r) ==
  /\ op \in OpType /\ OpName(op) \in AllNames
  /\ op.put <=> OpName(op) \in Wanted(a, x, r)
  /\ op.put <=> op.entry # {}
  /\ \A e \in op.entry : NameOf(e) = OpName(op) /\ Served(e, x)

\* The message before which the i-th one must not arrive.
RivalsFirst(ops, i) ==
  \A m \in AllNames : ops[i].put /\ Rivals(m, OpName(ops[i])) => \E j \in 1..Len(ops) : j < i /\ OpName(ops[j]) = m

Sound(ops, a, x, r) ==
  ops \in Seq(OpType) /\ \A i \in 1..Len(ops) : Suits(ops[i], a, x, r) /\ RivalsFirst(ops, i)

\* A message that removes.
Removes(op) == op \in OpType /\ ~op.put /\ op.entry = {} /\ OpName(op) \in AllNames

-----------------------------------------------------------------------------
TopicTypes ==
  /\ TopicsTypeOK /\ nextMode \in Modes /\ converged \in BOOLEAN /\ work \in Seq(OpType)
  /\ entries \subseteq EntryType /\ Names(entries) \subseteq AllNames
  /\ work # << >> => stage \in {"connecting", "removing"}
  /\ stage # "off" => mode.enabled
  /\ stage \in {"off", "connecting", "steady"} => nextMode = mode

\* What the messages still to come will do: suit the settings, or remove everything.
WorkInv ==
  /\ stage = "connecting" => \A i \in 1..Len(work) : Suits(work[i], mode.actions, extension, restore)
  /\ stage = "connecting" /\ ~mode.discovery => work = << >>
  /\ stage = "removing" => \A i \in 1..Len(work) : Removes(work[i])

\* While discovery is sent, an entry that no message still to come names is as it should be.
RepairInv ==
  stage \in {"connecting", "steady"} /\ mode.discovery /\ converged =>
    /\ \A n \in AllNames \ Mentions(work) : n \in Names(entries) <=> n \in Wanted(mode.actions, extension, restore)
    /\ \A e \in entries : NameOf(e) \notin Mentions(work) => Served(e, extension)

\* A removal has named, or will name, everything there is.
RemovalInv ==
  converged =>
    /\ stage = "removing" /\ ~(nextMode.enabled /\ nextMode.discovery) => Names(entries) \subseteq Mentions(work)
    /\ stage = "saving" /\ ~(nextMode.enabled /\ nextMode.discovery) => entries = {}
    /\ stage \in {"off", "connecting", "steady"} /\ ~(mode.enabled /\ mode.discovery) => entries = {}
    /\ stage = "saving" /\ ~nextMode.enabled => topics = {}
    /\ stage = "off" /\ ~mode.enabled => topics \subseteq {"status"}

\* Without losses a form is put only after its rival was removed.
RivalsGone ==
  stage = "connecting" => \A i \in 1..Len(work) : \A m \in AllNames :
    work[i].put /\ Rivals(m, OpName(work[i]))
      => m \notin Names(entries) \/ \E j \in 1..Len(work) : j < i /\ OpName(work[j]) = m
MediaSettled ==
  stage \in {"steady", "removing", "saving"} /\ mode.discovery /\ mode.actions
    => <<"sensor", "virtual_media">> \notin Names(entries)
DiscoveryWhole == stage \in {"connecting", "steady"} /\ mode.discovery => converged
FormsInv == lost = 0 => Unrivalled(entries) /\ DiscoveryWhole /\ RivalsGone /\ MediaSettled

TopicsIInv == TopicTypes /\ WorkInv /\ RepairInv /\ RemovalInv /\ FormsInv
-----------------------------------------------------------------------------
\* Two parts of a procedure one after the other.
LEMMA MentionsConcat ==
  ASSUME NEW s \in Seq(OpType), NEW t \in Seq(OpType)
  PROVE  Mentions(s \o t) = Mentions(s) \cup Mentions(t)
<1>1. /\ Len(s \o t) = Len(s) + Len(t) /\ Len(s) \in Nat /\ Len(t) \in Nat
      /\ \A i \in 1..Len(s) : (s \o t)[i] = s[i]
      /\ \A i \in 1..Len(t) : (s \o t)[Len(s) + i] = t[i]
  BY ConcatProperties
<1> DEFINE u == s \o t
<1> HIDE DEF u
<1>2. ASSUME NEW n \in Mentions(u) PROVE n \in Mentions(s) \cup Mentions(t)
  <2>1. PICK i \in 1..Len(u) : n = OpName(u[i])
    BY DEF Mentions
  <2>2. CASE i <= Len(s)
    BY <1>1, <2>1, <2>2 DEF Mentions, u
  <2>3. CASE i > Len(s)
    <3>1. i - Len(s) \in 1..Len(t) /\ i = Len(s) + (i - Len(s))
      BY <1>1, <2>3 DEF u
    <3>2. u[i] = t[i - Len(s)]
      BY <1>1, <3>1 DEF u
    <3> QED BY <2>1, <3>1, <3>2 DEF Mentions
  <2> QED BY <1>1, <2>2, <2>3 DEF u
<1>3. ASSUME NEW n \in Mentions(s) PROVE n \in Mentions(u)
  <2>1. PICK i \in 1..Len(s) : n = OpName(s[i])
    BY <1>3 DEF Mentions
  <2>2. i \in 1..Len(u) /\ u[i] = s[i]
    BY <1>1 DEF u
  <2> QED BY <2>1, <2>2 DEF Mentions
<1>4. ASSUME NEW n \in Mentions(t) PROVE n \in Mentions(u)
  <2>1. PICK i \in 1..Len(t) : n = OpName(t[i])
    BY <1>4 DEF Mentions
  <2>2. Len(s) + i \in 1..Len(u) /\ u[Len(s) + i] = t[i]
    BY <1>1 DEF u
  <2> QED BY <2>1, <2>2 DEF Mentions
<1> QED BY <1>2, <1>3, <1>4 DEF u

\* Sound parts one after the other are sound, and name what the two name.
LEMMA SoundConcat ==
  ASSUME NEW a \in BOOLEAN, NEW x, NEW r \in BOOLEAN, NEW s, NEW t, Sound(s, a, x, r), Sound(t, a, x, r)
  PROVE  Sound(s \o t, a, x, r) /\ Mentions(s \o t) = Mentions(s) \cup Mentions(t)
<1> DEFINE u == s \o t
<1>0. s \in Seq(OpType) /\ t \in Seq(OpType)
  BY DEF Sound
<1>1. /\ u \in Seq(OpType) /\ Len(u) = Len(s) + Len(t) /\ Len(s) \in Nat /\ Len(t) \in Nat
      /\ \A i \in 1..Len(s) : u[i] = s[i]
      /\ \A i \in 1..Len(t) : u[Len(s) + i] = t[i]
  BY <1>0, ConcatProperties
<1>2. Mentions(u) = Mentions(s) \cup Mentions(t)
  BY <1>0, MentionsConcat
<1> HIDE DEF u
<1>3. ASSUME NEW i \in 1..Len(u) PROVE Suits(u[i], a, x, r) /\ RivalsFirst(u, i)
  <2>1. CASE i <= Len(s)
    <3>1. i \in 1..Len(s) /\ u[i] = s[i]
      BY <1>1, <2>1
    <3>2. Suits(s[i], a, x, r) /\ RivalsFirst(s, i)
      BY <3>1 DEF Sound
    <3>3. RivalsFirst(u, i)
      <4>1. SUFFICES ASSUME NEW m \in AllNames, u[i].put, Rivals(m, OpName(u[i]))
                     PROVE  \E j \in 1..Len(u) : j < i /\ OpName(u[j]) = m
        BY DEF RivalsFirst
      <4>2. PICK j \in 1..Len(s) : j < i /\ OpName(s[j]) = m
        BY <3>1, <3>2, <4>1 DEF RivalsFirst
      <4>3. j \in 1..Len(u) /\ u[j] = s[j]
        BY <1>1, <4>2
      <4> QED BY <4>2, <4>3
    <3> QED BY <3>1, <3>2, <3>3
  <2>2. CASE i > Len(s)
    <3> DEFINE k == i - Len(s)
    <3>1. k \in 1..Len(t) /\ i = Len(s) + k
      BY <1>1, <2>2
    <3> HIDE DEF k
    <3>2. u[i] = t[k] /\ Suits(t[k], a, x, r) /\ RivalsFirst(t, k)
      BY <1>1, <3>1 DEF Sound
    <3>3. RivalsFirst(u, i)
      <4>1. SUFFICES ASSUME NEW m \in AllNames, u[i].put, Rivals(m, OpName(u[i]))
                     PROVE  \E j \in 1..Len(u) : j < i /\ OpName(u[j]) = m
        BY DEF RivalsFirst
      <4>2. PICK j \in 1..Len(t) : j < k /\ OpName(t[j]) = m
        BY <3>2, <4>1 DEF RivalsFirst
      <4>3. Len(s) + j \in 1..Len(u) /\ u[Len(s) + j] = t[j] /\ Len(s) + j < i
        BY <1>1, <3>1, <4>2
      <4> QED BY <4>2, <4>3
    <3> QED BY <3>2, <3>3
  <2> QED BY <1>1, <2>1, <2>2
<1>4. Sound(u, a, x, r)
  BY <1>1, <1>3 DEF Sound
<1> QED BY <1>2, <1>4 DEF u

\* A name is a pair.
LEMMA NamesArePairs == \A n \in AllNames : n = <<n[1], n[2]>> /\ n[1] \in Components /\ n[2] \in Objects
<1>1. \A n \in StatusNames \cup NetworkNames : n = <<n[1], n[2]>>
  BY DEF StatusNames, NetworkNames
<1>2. \A n \in SystemNames \cup ControlNames : n = <<n[1], n[2]>>
  BY DEF SystemNames, ControlNames
<1>3. \A n \in AtxNames \cup DcNames : n = <<n[1], n[2]>>
  BY DEF AtxNames, DcNames
<1>4. \A n \in AllNames : n = <<n[1], n[2]>>
  BY <1>1, <1>2, <1>3, Zenon DEF AllNames
<1> QED BY <1>4, Zenon DEF Components, Objects

\* A message that puts a wanted entry without a rival, or removes one that is not wanted, is sound alone.
LEMMA PutSuits ==
  ASSUME NEW a \in BOOLEAN, NEW x, NEW r \in BOOLEAN, NEW e \in EntryType, NameOf(e) \in Wanted(a, x, r),
         NameOf(e) \in AllNames, Served(e, x)
  PROVE  Suits(Put(e), a, x, r) /\ OpName(Put(e)) = NameOf(e) /\ Put(e) \in OpType /\ Put(e).put
<1>1. Put(e) \in OpType /\ OpName(Put(e)) = NameOf(e) /\ Put(e).entry = {e} /\ Put(e).put = TRUE
  BY DEF Put, OpType, EntryType, OpName, NameOf
<1> QED BY <1>1 DEF Suits

\* The same for a removal.
LEMMA DelSuits ==
  ASSUME NEW a \in BOOLEAN, NEW x, NEW r \in BOOLEAN, NEW c \in Components, NEW o \in Objects,
         <<c, o>> \notin Wanted(a, x, r),
         <<c, o>> \in AllNames
  PROVE  Suits(Del(c, o), a, x, r) /\ OpName(Del(c, o)) = <<c, o>> /\ Del(c, o) \in OpType /\ ~Del(c, o).put
<1>1. Del(c, o) \in OpType /\ OpName(Del(c, o)) = <<c, o>> /\ Del(c, o).entry = {} /\ Del(c, o).put = FALSE
  BY DEF Del, OpType, OpName
<1> QED BY <1>1 DEF Suits

\* A list of entries without rivals.
LEMMA PutAllSound ==
  ASSUME NEW a \in BOOLEAN, NEW x, NEW r \in BOOLEAN, NEW es \in Seq(EntryType),
         \A i \in 1..Len(es) : /\ NameOf(es[i]) \in Wanted(a, x, r) \cap AllNames /\ Served(es[i], x)
                               /\ es[i].o \notin Twofold
  PROVE  Sound(PutAll(es), a, x, r) /\ Mentions(PutAll(es)) = {NameOf(es[i]) : i \in 1..Len(es)}
<1>1. PutAll(es) = [i \in 1..Len(es) |-> Put(es[i])] /\ Len(es) \in Nat
  BY DEF PutAll
<1>2. \A i \in 1..Len(es) : /\ Suits(Put(es[i]), a, x, r) /\ OpName(Put(es[i])) = NameOf(es[i])
                            /\ Put(es[i]) \in OpType
  BY PutSuits
<1>3. PutAll(es) \in Seq(OpType) /\ Len(PutAll(es)) = Len(es) /\ \A i \in 1..Len(es) : PutAll(es)[i] = Put(es[i])
  BY <1>1, <1>2
<1>4. ASSUME NEW i \in 1..Len(es) PROVE RivalsFirst(PutAll(es), i)
  <2>1. ASSUME NEW m, Rivals(m, NameOf(es[i])) PROVE FALSE
    BY <2>1 DEF Rivals, NameOf
  <2> QED BY <1>2, <1>3, <2>1 DEF RivalsFirst
<1>5. Sound(PutAll(es), a, x, r)
  BY <1>2, <1>3, <1>4 DEF Sound
<1>6. Mentions(PutAll(es)) = {NameOf(es[i]) : i \in 1..Len(es)}
  BY <1>2, <1>3 DEF Mentions
<1> QED BY <1>5, <1>6

\* A list of removals.
LEMMA DelAllRemoves ==
  ASSUME NEW names \in Seq(AllNames)
  PROVE  /\ DelAll(names) \in Seq(OpType) /\ Len(DelAll(names)) = Len(names)
         /\ \A i \in 1..Len(names) : DelAll(names)[i] = Del(names[i][1], names[i][2]) /\ Removes(DelAll(names)[i])
         /\ Mentions(DelAll(names)) = {names[i] : i \in 1..Len(names)}
<1>1. \A n \in AllNames : n[1] \in Components /\ n[2] \in Objects /\ n = <<n[1], n[2]>>
  BY NamesArePairs
<1>2. DelAll(names) = [i \in 1..Len(names) |-> Del(names[i][1], names[i][2])] /\ Len(names) \in Nat
  BY DEF DelAll
<1>3. \A n \in AllNames : Removes(Del(n[1], n[2])) /\ OpName(Del(n[1], n[2])) = n
  <2>1. TAKE n \in AllNames
  <2>2. n[1] \in Components /\ n[2] \in Objects /\ n = <<n[1], n[2]>>
    BY <1>1
  <2> DEFINE c == n[1]
             o == n[2]
  <2>3. c \in Components /\ o \in Objects /\ <<c, o>> \in AllNames
    BY <2>2
  <2> HIDE DEF c, o
  <2>4. Removes(Del(c, o)) /\ OpName(Del(c, o)) = <<c, o>>
    <3> HIDE DEF AllNames
    <3> QED BY <2>3 DEF Removes, Del, OpName, OpType
  <2> QED BY <2>2, <2>4 DEF c, o
<1>4. \A i \in 1..Len(names) : names[i] \in AllNames
  BY <1>2
<1> HIDE DEF AllNames
<1>5. DelAll(names) \in Seq(OpType) /\ Len(DelAll(names)) = Len(names)
  BY <1>2, <1>3, <1>4 DEF Removes
<1>6. \A i \in 1..Len(names) : DelAll(names)[i] = Del(names[i][1], names[i][2]) /\ Removes(DelAll(names)[i])
  BY <1>2, <1>3, <1>4
<1>7. Mentions(DelAll(names)) = {names[i] : i \in 1..Len(names)}
  BY <1>3, <1>4, <1>5, <1>6 DEF Mentions
<1> QED BY <1>5, <1>6, <1>7

\* A list of removals of what is not wanted.
LEMMA DelAllSound ==
  ASSUME NEW a \in BOOLEAN, NEW x, NEW r \in BOOLEAN, NEW names \in Seq(AllNames),
         \A i \in 1..Len(names) : names[i] \notin Wanted(a, x, r)
  PROVE  Sound(DelAll(names), a, x, r) /\ Mentions(DelAll(names)) = {names[i] : i \in 1..Len(names)}
<1>1. /\ DelAll(names) \in Seq(OpType) /\ Len(DelAll(names)) = Len(names) /\ Len(names) \in Nat
      /\ \A i \in 1..Len(names) : DelAll(names)[i] = Del(names[i][1], names[i][2]) /\ Removes(DelAll(names)[i])
      /\ Mentions(DelAll(names)) = {names[i] : i \in 1..Len(names)}
  BY DelAllRemoves
<1>2. ASSUME NEW i \in 1..Len(names) PROVE Suits(DelAll(names)[i], a, x, r) /\ RivalsFirst(DelAll(names), i)
  <2> DEFINE op == DelAll(names)[i]
  <2>0. op = Del(names[i][1], names[i][2]) /\ Removes(op) /\ names[i] \in AllNames
    BY <1>1
  <2> HIDE DEF op
  <2>1. OpName(op) = names[i]
    <3>1. names[i] = <<names[i][1], names[i][2]>>
      BY <2>0, NamesArePairs
    <3> QED BY <2>0, <3>1 DEF Del, OpName
  <2>2. op.put = FALSE
    BY <2>0 DEF Del
  <2>3. Suits(op, a, x, r)
    BY <2>0, <2>1, <2>2 DEF Suits, Removes
  <2>4. RivalsFirst(DelAll(names), i)
    BY <2>2 DEF RivalsFirst, op
  <2> QED BY <2>3, <2>4 DEF op
<1> QED BY <1>1, <1>2 DEF Sound

\* A sound part of a procedure and the names it takes care of.
Part(ops, a, x, r, N) == Sound(ops, a, x, r) /\ Mentions(ops) = N

\* Parts one after the other.
LEMMA PartConcat ==
  ASSUME NEW a \in BOOLEAN, NEW x, NEW r \in BOOLEAN, NEW s, NEW t, NEW M, NEW N, Part(s, a, x, r, M), Part(t, a, x, r, N)
  PROVE  Part(s \o t, a, x, r, M \cup N)
<1>1. Sound(s, a, x, r) /\ Sound(t, a, x, r) /\ Mentions(s) = M /\ Mentions(t) = N
  BY DEF Part
<1>2. s \in Seq(OpType) /\ t \in Seq(OpType)
  BY <1>1 DEF Sound
<1>3. Mentions(s \o t) = Mentions(s) \cup Mentions(t)
  BY <1>2, MentionsConcat
<1>4. Sound(s \o t, a, x, r)
  BY <1>1, SoundConcat
<1> QED BY <1>1, <1>3, <1>4 DEF Part


\* What is wanted of each kind of name.
LEMMA WantedByKind ==
  ASSUME NEW a \in BOOLEAN, NEW x, NEW r \in BOOLEAN
  PROVE  /\ \A n \in StatusNames \cup NetworkNames \cup SystemNames : n \in Wanted(a, x, r) /\ n[2] \notin Twofold
         /\ \A n \in ControlNames : n \in Wanted(a, x, r) <=> n \in WantedControls(a)
         /\ \A n \in AtxNames : n \in Wanted(a, x, r) <=> (x = "atx-power" /\ n \in WantedAtx(a))
         /\ \A n \in DcNames : n \in Wanted(a, x, r) <=> (x = "dc-power" /\ n \in WantedDc(a, r))
         /\ WantedControls(a) \subseteq ControlNames
         /\ WantedAtx(a) \subseteq AtxNames
         /\ WantedDc(a, r) \subseteq DcNames
         /\ Wanted(a, x, r) \subseteq AllNames
<1> DEFINE plain == StatusNames \cup NetworkNames \cup SystemNames
<1>1. \A n \in plain : n[2] \notin Twofold
  BY DEF StatusNames, NetworkNames, SystemNames, Twofold
<1>2. WantedControls(a) \subseteq ControlNames
  BY DEF WantedControls, ControlNames
<1>3. WantedAtx(a) \subseteq AtxNames
  BY DEF WantedAtx, AtxNames
<1>4. WantedDc(a, r) \subseteq DcNames
  BY DEF WantedDc, DcNames
<1>5. \A n \in plain : n \notin ControlNames
  BY DEF StatusNames, NetworkNames, SystemNames, ControlNames
<1>6. \A n \in plain : n \notin AtxNames
  BY DEF StatusNames, NetworkNames, SystemNames, AtxNames
<1>7. \A n \in plain : n \notin DcNames
  BY DEF StatusNames, NetworkNames, SystemNames, DcNames
<1>8. (\A n \in ControlNames : n \notin AtxNames /\ n \notin DcNames) /\ (\A n \in AtxNames : n \notin DcNames)
  BY DEF ControlNames, AtxNames, DcNames
<1>9. Wanted(a, x, r) = plain \cup WantedControls(a)
        \cup IF x = "atx-power" THEN WantedAtx(a) ELSE IF x = "dc-power" THEN WantedDc(a, r) ELSE {}
  BY DEF Wanted
<1>10. AllNames = plain \cup ControlNames \cup AtxNames \cup DcNames
  BY DEF AllNames
<1> HIDE DEF plain
<1>11. \A n \in plain : n \in Wanted(a, x, r) /\ n[2] \notin Twofold
  BY <1>1, <1>9
<1>12. Wanted(a, x, r) \subseteq AllNames
  BY <1>2, <1>3, <1>4, <1>9, <1>10
<1>13. \A n \in ControlNames : n \in Wanted(a, x, r) <=> n \in WantedControls(a)
  BY <1>3, <1>4, <1>5, <1>8, <1>9
<1>14. \A n \in AtxNames : n \in Wanted(a, x, r) <=> (x = "atx-power" /\ n \in WantedAtx(a))
  BY <1>2, <1>4, <1>6, <1>8, <1>9
<1>15. \A n \in DcNames : n \in Wanted(a, x, r) <=> (x = "dc-power" /\ n \in WantedDc(a, r))
  BY <1>2, <1>3, <1>7, <1>8, <1>9
<1> QED BY <1>2, <1>3, <1>4, <1>11, <1>12, <1>13, <1>14, <1>15 DEF plain

\* The two forms of an entry are never wanted together.
LEMMA NoRivalsWanted ==
  ASSUME NEW a \in BOOLEAN, NEW x, NEW r \in BOOLEAN, NEW m \in Wanted(a, x, r), NEW n \in Wanted(a, x, r)
  PROVE  ~Rivals(m, n)
<1>1. SUFFICES ASSUME m[2] = n[2], n[2] \in Twofold PROVE m = n
  BY DEF Rivals
<1>2. ASSUME NEW k \in Wanted(a, x, r), k[2] \in Twofold
      PROVE  k = IF a THEN CASE k[2] = "virtual_media" -> <<"select", "virtual_media">>
                             [] k[2] = "jiggler" -> <<"switch", "jiggler">>
                             [] k[2] = "dc_power" -> <<"switch", "dc_power">>
                             [] k[2] = "dc_restore" -> <<"select", "dc_restore">>
                 ELSE CASE k[2] = "virtual_media" -> <<"sensor", "virtual_media">>
                        [] k[2] = "jiggler" -> <<"binary_sensor", "jiggler">>
                        [] k[2] = "dc_power" -> <<"binary_sensor", "dc_power">>
                        [] k[2] = "dc_restore" -> <<"sensor", "dc_restore">>
  <2>1. k \in WantedControls(a) \cup WantedAtx(a) \cup WantedDc(a, r)
    BY <1>2, WantedByKind DEF Wanted
  <2>2. CASE k \in WantedControls(a)
    BY <1>2, <2>2 DEF WantedControls, Twofold
  <2>3. CASE k \in WantedAtx(a)
    BY <1>2, <2>3 DEF WantedAtx, Twofold
  <2>4. CASE k \in WantedDc(a, r)
    BY <1>2, <2>4 DEF WantedDc, Twofold
  <2> QED BY <2>1, <2>2, <2>3, <2>4
<1> QED BY <1>1, <1>2

\* An entry without a command.
LEMMA ReadingEntry ==
  ASSUME NEW c, NEW o, <<c, o>> \in AllNames, NEW s \in CleanedTopics
  PROVE  /\ Entry(c, o, s, "") \in EntryType /\ NameOf(Entry(c, o, s, "")) = <<c, o>>
         /\ \A x : s \in PublishedTopics(x) => Served(Entry(c, o, s, ""), x)
<1>1. c \in Components /\ o \in Objects
  <2>1. <<c, o>>[1] = c /\ <<c, o>>[2] = o
    OBVIOUS
  <2> QED BY <2>1, NamesArePairs
<1> DEFINE e == Entry(c, o, s, "")
<1>2. e = [c |-> c, o |-> o, state |-> s, command |-> ""]
  BY DEF Entry
<1> HIDE DEF e
<1>3. e.c = c /\ e.o = o /\ e.state = s /\ e.command = ""
  BY <1>2
<1>4. e \in EntryType
  BY <1>1, <1>2 DEF EntryType
<1>5. NameOf(e) = <<c, o>>
  BY <1>3 DEF NameOf
<1>6. \A x : s \in PublishedTopics(x) => Served(e, x)
  BY <1>3 DEF Served
<1> QED BY <1>4, <1>5, <1>6 DEF e

\* An entry with a command that is subscribed and understood.
LEMMA ActingEntry ==
  ASSUME NEW c, NEW o, <<c, o>> \in AllNames, NEW s \in CleanedTopics \cup {""}, NEW k \in SubscribedCommands,
         Offered(Entry(c, o, s, k)) \subseteq Understood(k)
  PROVE  /\ Entry(c, o, s, k) \in EntryType /\ NameOf(Entry(c, o, s, k)) = <<c, o>>
         /\ \A x : s = "" \/ s \in PublishedTopics(x) => Served(Entry(c, o, s, k), x)
<1>1. c \in Components /\ o \in Objects
  <2>1. <<c, o>>[1] = c /\ <<c, o>>[2] = o
    OBVIOUS
  <2> QED BY <2>1, NamesArePairs
<1> DEFINE e == Entry(c, o, s, k)
<1>2. e = [c |-> c, o |-> o, state |-> s, command |-> k]
  BY DEF Entry
<1> HIDE DEF e
<1>3. e.c = c /\ e.o = o /\ e.state = s /\ e.command = k
  BY <1>2
<1>4. e \in EntryType
  BY <1>1, <1>2 DEF EntryType
<1>5. NameOf(e) = <<c, o>>
  BY <1>3 DEF NameOf
<1>6. \A x : s = "" \/ s \in PublishedTopics(x) => Served(e, x)
  <2>1. Offered(e) \subseteq Understood(k)
    BY DEF e
  <2> QED BY <1>3, <2>1 DEF Served
<1> QED BY <1>4, <1>5, <1>6 DEF e

\* The entries that are always there.
LEMMA PlainSound ==
  ASSUME NEW a \in BOOLEAN, NEW x, NEW r \in BOOLEAN
  PROVE  /\ Sound(PutAll(StatusEntries), a, x, r) /\ Mentions(PutAll(StatusEntries)) = StatusNames
         /\ Sound(PutAll(NetworkEntries), a, x, r) /\ Mentions(PutAll(NetworkEntries)) = NetworkNames
         /\ Sound(PutAll(SystemEntries), a, x, r) /\ Mentions(PutAll(SystemEntries)) = SystemNames
<1> DEFINE Plain(es, N) ==
      /\ es \in Seq(EntryType)
      /\ \A i \in 1..Len(es) : NameOf(es[i]) \in N /\ Served(es[i], x)
      /\ {NameOf(es[i]) : i \in 1..Len(es)} = N
<1>1. ASSUME NEW es, NEW N, Plain(es, N), N \subseteq StatusNames \cup NetworkNames \cup SystemNames
      PROVE  Sound(PutAll(es), a, x, r) /\ Mentions(PutAll(es)) = N
  <2>1. \A n \in N : n \in Wanted(a, x, r) /\ n \in AllNames /\ n[2] \notin Twofold
    BY <1>1, WantedByKind DEF AllNames
  <2>2. ASSUME NEW i \in 1..Len(es)
        PROVE  /\ NameOf(es[i]) \in Wanted(a, x, r) \cap AllNames /\ Served(es[i], x)
               /\ es[i].o \notin Twofold
    <3>1. NameOf(es[i]) \in N /\ Served(es[i], x)
      BY <1>1
    <3>2. NameOf(es[i])[2] = es[i].o
      BY DEF NameOf
    <3> QED BY <2>1, <3>1, <3>2
  <2>3. es \in Seq(EntryType) /\ {NameOf(es[i]) : i \in 1..Len(es)} = N
    BY <1>1
  <2> HIDE DEF Plain
  <2> QED BY <2>2, <2>3, PutAllSound
<1>2. \A n \in StatusNames \cup NetworkNames \cup SystemNames : n \in AllNames
  BY DEF AllNames
<1>3. \A s \in ExtendedTopics \cup {"status"} : s \in CleanedTopics /\ s \in PublishedTopics(x)
  BY DEF CleanedTopics, PublishedTopics
<1>4. ASSUME NEW c, NEW o,
             NEW s \in ExtendedTopics \cup {"status"}, <<c, o>> \in StatusNames \cup NetworkNames \cup SystemNames
      PROVE  /\ Entry(c, o, s, "") \in EntryType /\ NameOf(Entry(c, o, s, "")) = <<c, o>>
             /\ Served(Entry(c, o, s, ""), x)
  BY <1>2, <1>3, <1>4, ReadingEntry
<1>5. /\ "status" \in ExtendedTopics \cup {"status"} /\ "video" \in ExtendedTopics \cup {"status"}
      /\ "cloud" \in ExtendedTopics \cup {"status"} /\ "sessions" \in ExtendedTopics \cup {"status"}
      /\ "usb" \in ExtendedTopics \cup {"status"} /\ "network" \in ExtendedTopics \cup {"status"}
      /\ "system" \in ExtendedTopics \cup {"status"}
  BY DEF ExtendedTopics
<1>6. Plain(StatusEntries, StatusNames)
  <2> DEFINE e1 == Entry("binary_sensor", "online", "status", "")
             e2 == Entry("binary_sensor", "video_signal", "video", "")
             e3 == Entry("sensor", "video_resolution", "video", "")
             e4 == Entry("sensor", "video_fps", "video", "")
             e5 == Entry("binary_sensor", "cloud_connected", "cloud", "")
             e6 == Entry("sensor", "active_sessions", "sessions", "")
             e7 == Entry("binary_sensor", "usb_state", "usb", "")
             Good(e, n) == e \in EntryType /\ NameOf(e) = n /\ Served(e, x)
  <2>1. /\ Good(e1, <<"binary_sensor", "online">>) /\ Good(e2, <<"binary_sensor", "video_signal">>)
        /\ Good(e3, <<"sensor", "video_resolution">>) /\ Good(e4, <<"sensor", "video_fps">>)
    BY <1>4, <1>5 DEF StatusNames
  <2>2. /\ Good(e5, <<"binary_sensor", "cloud_connected">>) /\ Good(e6, <<"sensor", "active_sessions">>)
        /\ Good(e7, <<"binary_sensor", "usb_state">>)
    BY <1>4, <1>5 DEF StatusNames
  <2>3. StatusEntries = <<e1, e2, e3, e4, e5, e6, e7>>
    BY DEF StatusEntries
  <2> HIDE DEF e1, e2, e3, e4, e5, e6, e7
  <2>4. Len(StatusEntries) = 7 /\ StatusEntries \in Seq(EntryType)
    BY <2>1, <2>2, <2>3
  <2>5. /\ StatusEntries[1] = e1 /\ StatusEntries[2] = e2 /\ StatusEntries[3] = e3 /\ StatusEntries[4] = e4
        /\ StatusEntries[5] = e5 /\ StatusEntries[6] = e6 /\ StatusEntries[7] = e7
    BY <2>3
  <2>6. \A i \in 1..7 : NameOf(StatusEntries[i]) \in StatusNames /\ Served(StatusEntries[i], x)
    BY <2>1, <2>2, <2>5 DEF StatusNames
  <2>7. \A n \in StatusNames : \E i \in 1..7 : n = NameOf(StatusEntries[i])
    BY <2>1, <2>2, <2>5 DEF StatusNames
  <2> QED BY <2>4, <2>6, <2>7
<1>7. Plain(NetworkEntries, NetworkNames)
  <2> DEFINE e1 == Entry("sensor", "ip_address", "network", "")
             e2 == Entry("sensor", "hostname", "network", "")
  <2>1. /\ e1 \in EntryType /\ NameOf(e1) = <<"sensor", "ip_address">> /\ Served(e1, x)
        /\ e2 \in EntryType /\ NameOf(e2) = <<"sensor", "hostname">> /\ Served(e2, x)
    BY <1>4, <1>5 DEF NetworkNames
  <2>2. NetworkEntries = <<e1, e2>>
    BY DEF NetworkEntries
  <2> HIDE DEF e1, e2
  <2> QED BY <2>1, <2>2 DEF NetworkNames
<1>8. Plain(SystemEntries, SystemNames)
  <2> DEFINE o == <<"cpu_load", "temperature", "memory_used", "storage_used", "storage_free">>
  <2>1. SystemEntries = [i \in 1..5 |-> Entry("sensor", o[i], "system", "")]
    BY DEF SystemEntries
  <2>2. \A i \in 1..5 : <<"sensor", o[i]>> \in SystemNames
    BY DEF SystemNames
  <2>3. \A n \in SystemNames : \E i \in 1..5 : n = <<"sensor", o[i]>>
    BY DEF SystemNames
  <2> HIDE DEF o
  <2>4. \A i \in 1..5 : LET e == Entry("sensor", o[i], "system", "")
                        IN  e \in EntryType /\ NameOf(e) = <<"sensor", o[i]>> /\ Served(e, x)
    BY <1>4, <1>5, <2>2
  <2> DEFINE E(i) == Entry("sensor", o[i], "system", "")
  <2> HIDE DEF E
  <2>5. SystemEntries \in Seq(EntryType) /\ Len(SystemEntries) = 5
    <3>1. SystemEntries = [i \in 1..5 |-> E(i)] /\ \A i \in 1..5 : E(i) \in EntryType
      BY <2>1, <2>4 DEF E
    <3> QED BY <3>1
  <2>6. \A i \in 1..5 : NameOf(SystemEntries[i]) = <<"sensor", o[i]>> /\ Served(SystemEntries[i], x)
    BY <2>1, <2>4
  <2>7. {NameOf(SystemEntries[i]) : i \in 1..5} = SystemNames
    BY <2>2, <2>3, <2>6
  <2> HIDE DEF SystemEntries
  <2> QED BY <2>2, <2>5, <2>6, <2>7
<1> HIDE DEF Plain
<1> QED BY <1>1, <1>6, <1>7, <1>8

\* The names an object with two forms goes by.
LEMMA RivalNames ==
  ASSUME NEW m \in AllNames, NEW n \in AllNames, Rivals(m, n)
  PROVE  {m, n} \in {{<<"select", "virtual_media">>, <<"sensor", "virtual_media">>},
                     {<<"switch", "jiggler">>, <<"binary_sensor", "jiggler">>},
                     {<<"switch", "dc_power">>, <<"binary_sensor", "dc_power">>},
                     {<<"select", "dc_restore">>, <<"sensor", "dc_restore">>}}
<1>1. ASSUME NEW k \in AllNames, k[2] \in Twofold
      PROVE  \/ k[2] = "virtual_media" /\ k \in {<<"select", "virtual_media">>, <<"sensor", "virtual_media">>}
             \/ k[2] = "jiggler" /\ k \in {<<"switch", "jiggler">>, <<"binary_sensor", "jiggler">>}
             \/ k[2] = "dc_power" /\ k \in {<<"switch", "dc_power">>, <<"binary_sensor", "dc_power">>}
             \/ k[2] = "dc_restore" /\ k \in {<<"select", "dc_restore">>, <<"sensor", "dc_restore">>}
  <2>1. k \in ControlNames \cup AtxNames \cup DcNames
    <3>1. k \notin StatusNames \cup NetworkNames \cup SystemNames
      BY <1>1 DEF StatusNames, NetworkNames, SystemNames, Twofold
    <3> QED BY <3>1 DEF AllNames
  <2>2. CASE k \in ControlNames
    BY <1>1, <2>2 DEF ControlNames, Twofold
  <2>3. CASE k \in AtxNames
    BY <1>1, <2>3 DEF AtxNames, Twofold
  <2>4. CASE k \in DcNames
    BY <1>1, <2>4 DEF DcNames, Twofold
  <2> QED BY <2>1, <2>2, <2>3, <2>4
<1>2. m[2] = n[2] /\ n[2] \in Twofold /\ m # n
  BY DEF Rivals
<1>3. CASE n[2] = "virtual_media"
  <2>1. /\ m \in {<<"select", "virtual_media">>, <<"sensor", "virtual_media">>}
        /\ n \in {<<"select", "virtual_media">>, <<"sensor", "virtual_media">>}
    BY <1>1, <1>2, <1>3
  <2> QED BY <1>2, <2>1
<1>4. CASE n[2] = "jiggler"
  <2>1. m \in {<<"switch", "jiggler">>, <<"binary_sensor", "jiggler">>}
        /\ n \in {<<"switch", "jiggler">>, <<"binary_sensor", "jiggler">>}
    BY <1>1, <1>2, <1>4
  <2> QED BY <1>2, <2>1
<1>5. CASE n[2] = "dc_power"
  <2>1. m \in {<<"switch", "dc_power">>, <<"binary_sensor", "dc_power">>}
        /\ n \in {<<"switch", "dc_power">>, <<"binary_sensor", "dc_power">>}
    BY <1>1, <1>2, <1>5
  <2> QED BY <1>2, <2>1
<1>6. CASE n[2] = "dc_restore"
  <2>1. m \in {<<"select", "dc_restore">>, <<"sensor", "dc_restore">>}
        /\ n \in {<<"select", "dc_restore">>, <<"sensor", "dc_restore">>}
    BY <1>1, <1>2, <1>6
  <2> QED BY <1>2, <2>1
<1> QED BY <1>2, <1>3, <1>4, <1>5, <1>6 DEF Twofold

\* The form not wanted is removed first.
LEMMA VariantSound ==
  ASSUME NEW a \in BOOLEAN, NEW x, NEW r \in BOOLEAN, NEW acting \in EntryType, NEW reading \in EntryType,
         NameOf(acting) \in AllNames, NameOf(reading) \in AllNames,
         NameOf(acting) \in Wanted(a, x, r) <=> a, NameOf(reading) \in Wanted(a, x, r) <=> ~a,
         \A n \in AllNames : (Rivals(n, NameOf(acting)) => n = NameOf(reading))
                             /\ (Rivals(n, NameOf(reading)) => n = NameOf(acting)),
         Served(acting, x), Served(reading, x)
  PROVE  /\ Sound(Variant(a, acting, reading), a, x, r)
         /\ Mentions(Variant(a, acting, reading)) = {NameOf(acting), NameOf(reading)}
<1>1. ASSUME NEW put \in EntryType, NEW del \in EntryType, NameOf(put) \in Wanted(a, x, r),
             NameOf(del) \notin Wanted(a, x, r),
             NameOf(put) \in AllNames, NameOf(del) \in AllNames, Served(put, x),
             \A n \in AllNames : Rivals(n, NameOf(put)) => n = NameOf(del)
      PROVE  LET ops == <<Del(del.c, del.o), Put(put)>>
             IN  Sound(ops, a, x, r) /\ Mentions(ops) = {NameOf(put), NameOf(del)}
  <2> DEFINE op1 == Del(del.c, del.o)
             op2 == Put(put)
             ops == <<op1, op2>>
  <2>1. Suits(op2, a, x, r) /\ OpName(op2) = NameOf(put) /\ op2 \in OpType
    BY <1>1, PutSuits
  <2>2. del.c \in Components /\ del.o \in Objects /\ <<del.c, del.o>> = NameOf(del)
    BY DEF EntryType, NameOf
  <2>3. Suits(op1, a, x, r) /\ OpName(op1) = NameOf(del) /\ op1 \in OpType /\ ~op1.put
    BY <1>1, <2>2, DelSuits
  <2> HIDE DEF op1, op2
  <2>4. ops \in Seq(OpType) /\ Len(ops) = 2 /\ ops[1] = op1 /\ ops[2] = op2
    BY <2>1, <2>3
  <2> HIDE DEF ops
  <2>5. RivalsFirst(ops, 1)
    BY <2>3, <2>4 DEF RivalsFirst
  <2>6. RivalsFirst(ops, 2)
    <3>1. SUFFICES ASSUME NEW m \in AllNames, Rivals(m, OpName(op2)) PROVE OpName(ops[1]) = m
      BY <2>4 DEF RivalsFirst
    <3> QED BY <1>1, <2>1, <2>3, <2>4, <3>1
  <2>7. Sound(ops, a, x, r)
    BY <2>1, <2>3, <2>4, <2>5, <2>6 DEF Sound
  <2>8. Mentions(ops) = {NameOf(put), NameOf(del)}
    BY <2>1, <2>3, <2>4 DEF Mentions
  <2> QED BY <2>7, <2>8 DEF ops, op1, op2
<1>2. CASE a
  BY <1>1, <1>2 DEF Variant
<1>3. CASE ~a
  BY <1>1, <1>3 DEF Variant
<1> QED BY <1>2, <1>3

\* The virtual media entry, a select or a sensor.
LEMMA MediaSound ==
  ASSUME NEW a \in BOOLEAN, NEW x, NEW r \in BOOLEAN
  PROVE  /\ Sound(MediaOps(a), a, x, r)
         /\ Mentions(MediaOps(a)) = {<<"select", "virtual_media">>, <<"sensor", "virtual_media">>}
<1> DEFINE e == Entry("select", "virtual_media", "virtual_media", "virtual_media/set")
           d == Entry("sensor", "virtual_media", "virtual_media", "")
           m == <<"select", "virtual_media">>
           n == <<"sensor", "virtual_media">>
<1>1. m \in ControlNames /\ n \in ControlNames /\ m \in AllNames /\ n \in AllNames
  BY DEF ControlNames, AllNames
<1>2. (m \in Wanted(a, x, r) <=> a) /\ (n \in Wanted(a, x, r) <=> ~a)
  BY <1>1, WantedByKind DEF WantedControls
<1>3. "virtual_media" \in CleanedTopics /\ "virtual_media" \in PublishedTopics(x)
  BY DEF CleanedTopics, PublishedTopics, ExtendedTopics
<1>4. d \in EntryType /\ NameOf(d) = n /\ Served(d, x)
  BY <1>1, <1>3, ReadingEntry
<1>5. Offered(e) \subseteq Understood("virtual_media/set") /\ "virtual_media/set" \in SubscribedCommands
  BY DEF Entry, Offered, Understood, SubscribedCommands
<1>6. e \in EntryType /\ NameOf(e) = m /\ Served(e, x)
  BY <1>1, <1>3, <1>5, ActingEntry
<1>7. \A k \in AllNames : (Rivals(k, m) => k = n) /\ (Rivals(k, n) => k = m)
  BY <1>1, RivalNames
<1>8. MediaOps(a) = Variant(a, e, d)
  BY DEF MediaOps
<1> HIDE DEF e, d, m, n
<1>9. Sound(MediaOps(a), a, x, r) /\ Mentions(MediaOps(a)) = {m, n}
  BY <1>1, <1>2, <1>4, <1>6, <1>7, <1>8, VariantSound
<1> QED BY <1>9 DEF m, n

\* The jiggler entry, a switch or a sensor.
LEMMA JigglerSound ==
  ASSUME NEW a \in BOOLEAN, NEW x, NEW r \in BOOLEAN
  PROVE  LET ops == JigglerOps(a)
         IN  Sound(ops, a, x, r) /\ Mentions(ops) = {<<"switch", "jiggler">>, <<"binary_sensor", "jiggler">>}
<1> DEFINE e == Entry("switch", "jiggler", "jiggler", "jiggler/set")
           d == Entry("binary_sensor", "jiggler", "jiggler", "")
           m == <<"switch", "jiggler">>
           n == <<"binary_sensor", "jiggler">>
<1>1. m \in ControlNames /\ n \in ControlNames /\ m \in AllNames /\ n \in AllNames
  BY DEF ControlNames, AllNames
<1>2. (m \in Wanted(a, x, r) <=> a) /\ (n \in Wanted(a, x, r) <=> ~a)
  BY <1>1, WantedByKind DEF WantedControls
<1>3. "jiggler" \in CleanedTopics /\ "jiggler" \in PublishedTopics(x)
  BY DEF CleanedTopics, PublishedTopics, ExtendedTopics
<1>4. d \in EntryType /\ NameOf(d) = n /\ Served(d, x)
  BY <1>1, <1>3, ReadingEntry
<1>5. Offered(e) \subseteq Understood("jiggler/set") /\ "jiggler/set" \in SubscribedCommands
  BY DEF Entry, Offered, Understood, SubscribedCommands
<1>6. e \in EntryType /\ NameOf(e) = m /\ Served(e, x)
  BY <1>1, <1>3, <1>5, ActingEntry
<1>7. \A k \in AllNames : (Rivals(k, m) => k = n) /\ (Rivals(k, n) => k = m)
  BY <1>1, RivalNames
<1>8. JigglerOps(a) = Variant(a, e, d)
  BY DEF JigglerOps
<1> HIDE DEF e, d, m, n
<1>9. Sound(Variant(a, e, d), a, x, r) /\ Mentions(Variant(a, e, d)) = {m, n}
  BY <1>1, <1>2, <1>4, <1>6, <1>7, VariantSound
<1> QED BY <1>8, <1>9 DEF m, n

\* The DC power entry, a switch or a sensor.
LEMMA DcPowerSound ==
  ASSUME NEW a \in BOOLEAN, NEW x, NEW r \in BOOLEAN, x = "dc-power"
  PROVE  LET ops == Variant(a, Entry("switch", "dc_power", "dc", "dc_power/set"),
                            Entry("binary_sensor", "dc_power", "dc", ""))
         IN  Sound(ops, a, x, r) /\ Mentions(ops) = {<<"switch", "dc_power">>, <<"binary_sensor", "dc_power">>}
<1> DEFINE e == Entry("switch", "dc_power", "dc", "dc_power/set")
           d == Entry("binary_sensor", "dc_power", "dc", "")
           m == <<"switch", "dc_power">>
           n == <<"binary_sensor", "dc_power">>
<1>1. m \in DcNames /\ n \in DcNames /\ m \in AllNames /\ n \in AllNames
  BY DEF DcNames, AllNames
<1>2. (m \in Wanted(a, x, r) <=> a) /\ (n \in Wanted(a, x, r) <=> ~a)
  BY <1>1, WantedByKind DEF WantedDc
<1>3. "dc" \in CleanedTopics /\ "dc" \in PublishedTopics(x)
  BY DEF CleanedTopics, PublishedTopics, ExtendedTopics
<1>4. d \in EntryType /\ NameOf(d) = n /\ Served(d, x)
  BY <1>1, <1>3, ReadingEntry
<1>5. Offered(e) \subseteq Understood("dc_power/set") /\ "dc_power/set" \in SubscribedCommands
  BY DEF Entry, Offered, Understood, SubscribedCommands
<1>6. e \in EntryType /\ NameOf(e) = m /\ Served(e, x)
  BY <1>1, <1>3, <1>5, ActingEntry
<1>7. \A k \in AllNames : (Rivals(k, m) => k = n) /\ (Rivals(k, n) => k = m)
  BY <1>1, RivalNames
<1>8. Variant(a, Entry("switch", "dc_power", "dc", "dc_power/set"), Entry("binary_sensor", "dc_power", "dc", ""))
        = Variant(a, e, d)
  OBVIOUS
<1> HIDE DEF e, d, m, n
<1>9. Sound(Variant(a, e, d), a, x, r) /\ Mentions(Variant(a, e, d)) = {m, n}
  BY <1>1, <1>2, <1>4, <1>6, <1>7, VariantSound
<1> QED BY <1>8, <1>9 DEF m, n

\* The restore policy where it is offered, a select or a sensor.
LEMMA RestorePolicySound ==
  ASSUME NEW a \in BOOLEAN, NEW x, NEW r \in BOOLEAN, x = "dc-power",
         <<"select", "dc_restore">> \in Wanted(a, x, r) <=> a, <<"sensor", "dc_restore">> \in Wanted(a, x, r) <=> ~a
  PROVE  LET ops == Variant(a, Entry("select", "dc_restore", "dc", "dc_restore/set"),
                            Entry("sensor", "dc_restore", "dc", ""))
         IN  Sound(ops, a, x, r) /\ Mentions(ops) = {<<"select", "dc_restore">>, <<"sensor", "dc_restore">>}
<1> DEFINE e == Entry("select", "dc_restore", "dc", "dc_restore/set")
           d == Entry("sensor", "dc_restore", "dc", "")
           m == <<"select", "dc_restore">>
           n == <<"sensor", "dc_restore">>
<1>1. m \in AllNames /\ n \in AllNames
  BY DEF DcNames, AllNames
<1>2. (m \in Wanted(a, x, r) <=> a) /\ (n \in Wanted(a, x, r) <=> ~a)
  OBVIOUS
<1>3. "dc" \in CleanedTopics /\ "dc" \in PublishedTopics(x)
  BY DEF CleanedTopics, PublishedTopics, ExtendedTopics
<1>4. d \in EntryType /\ NameOf(d) = n /\ Served(d, x)
  BY <1>1, <1>3, ReadingEntry
<1>5. Offered(e) \subseteq Understood("dc_restore/set") /\ "dc_restore/set" \in SubscribedCommands
  BY DEF Entry, Offered, Understood, SubscribedCommands
<1>6. e \in EntryType /\ NameOf(e) = m /\ Served(e, x)
  BY <1>1, <1>3, <1>5, ActingEntry
<1>7. \A k \in AllNames : (Rivals(k, m) => k = n) /\ (Rivals(k, n) => k = m)
  BY <1>1, RivalNames
<1>8. Variant(a, Entry("select", "dc_restore", "dc", "dc_restore/set"), Entry("sensor", "dc_restore", "dc", ""))
        = Variant(a, e, d)
  OBVIOUS
<1> HIDE DEF e, d, m, n
<1>9. Sound(Variant(a, e, d), a, x, r) /\ Mentions(Variant(a, e, d)) = {m, n}
  BY <1>1, <1>2, <1>4, <1>6, <1>7, VariantSound
<1> QED BY <1>8, <1>9 DEF m, n

\* The reboot button, and the firmware entry with or without its command.
LEMMA SingleSound ==
  ASSUME NEW a \in BOOLEAN, NEW x, NEW r \in BOOLEAN
  PROVE  /\ Sound(RebootOps(a), a, x, r) /\ Mentions(RebootOps(a)) = {<<"button", "reboot">>}
         /\ Sound(FirmwareOps(a), a, x, r) /\ Mentions(FirmwareOps(a)) = {<<"update", "firmware">>}
<1> DEFINE m == <<"button", "reboot">>
           n == <<"update", "firmware">>
           e == Entry("button", "reboot", "", "reboot/set")
           f(k) == Entry("update", "firmware", "update", k)
<1>1. m \in ControlNames /\ n \in ControlNames /\ m \in AllNames /\ n \in AllNames
  BY DEF ControlNames, AllNames
<1>2. (m \in Wanted(a, x, r) <=> a) /\ n \in Wanted(a, x, r)
  BY <1>1, WantedByKind DEF WantedControls
<1>3. "update" \in CleanedTopics /\ "update" \in PublishedTopics(x)
  BY DEF CleanedTopics, PublishedTopics, ExtendedTopics
<1>4. f("") \in EntryType /\ NameOf(f("")) = n /\ Served(f(""), x)
  BY <1>1, <1>3, ReadingEntry
<1>5. Offered(e) \subseteq Understood("reboot/set") /\ "reboot/set" \in SubscribedCommands
  BY DEF Entry, Offered, Understood, SubscribedCommands
<1>6. e \in EntryType /\ NameOf(e) = m /\ Served(e, x)
  BY <1>1, <1>5, ActingEntry
<1>7. Offered(f("update/install")) \subseteq Understood("update/install") /\ "update/install" \in SubscribedCommands
  BY DEF Entry, Offered, Understood, SubscribedCommands
<1>8. f("update/install") \in EntryType /\ NameOf(f("update/install")) = n /\ Served(f("update/install"), x)
  BY <1>1, <1>3, <1>7, ActingEntry
<1>9. m[2] \notin Twofold /\ n[2] \notin Twofold
  BY DEF Twofold
<1>10. ASSUME NEW g \in EntryType, NEW k \in AllNames, NameOf(g) = k, Served(g, x),
              k \in Wanted(a, x, r), k[2] \notin Twofold
       PROVE  Sound(PutAll(<<g>>), a, x, r) /\ Mentions(PutAll(<<g>>)) = {k}
  <2> DEFINE es == <<g>>
  <2>1. es \in Seq(EntryType) /\ Len(es) = 1 /\ es[1] = g
    OBVIOUS
  <2>2. g.o = k[2]
    BY <1>10 DEF NameOf
  <2> HIDE DEF es
  <2>3. \A i \in 1..Len(es) : /\ NameOf(es[i]) \in Wanted(a, x, r) \cap AllNames /\ Served(es[i], x)
                              /\ es[i].o \notin Twofold
    BY <1>10, <2>1, <2>2
  <2>4. Sound(PutAll(es), a, x, r) /\ Mentions(PutAll(es)) = {NameOf(es[i]) : i \in 1..Len(es)}
    BY <2>1, <2>3, PutAllSound
  <2>5. {NameOf(es[i]) : i \in 1..Len(es)} = {k}
    BY <1>10, <2>1
  <2> QED BY <2>4, <2>5 DEF es
<1>11. ASSUME m \notin Wanted(a, x, r) PROVE Sound(DelAll(<<m>>), a, x, r) /\ Mentions(DelAll(<<m>>)) = {m}
  <2> DEFINE ns == <<m>>
  <2> HIDE DEF m
  <2>1. ns \in Seq(AllNames) /\ Len(ns) = 1 /\ ns[1] = m
    BY <1>1
  <2>5. ns \in Seq(AllNames)
    BY <2>1
  <2> HIDE DEF ns
  <2>4. \A i \in 1..Len(ns) : ns[i] \notin Wanted(a, x, r)
    BY <1>11, <2>1
  <2>6. Sound(DelAll(ns), a, x, r)
    BY <2>5, <2>4, DelAllSound
  <2>7. Mentions(DelAll(ns)) = {ns[i] : i \in 1..Len(ns)}
    BY <2>5, DelAllRemoves
  <2>2. Sound(DelAll(ns), a, x, r) /\ Mentions(DelAll(ns)) = {ns[i] : i \in 1..Len(ns)}
    BY <2>6, <2>7
  <2>3. {ns[i] : i \in 1..Len(ns)} = {m}
    BY <2>1
  <2> QED BY <2>2, <2>3 DEF ns
<1>12. Sound(RebootOps(a), a, x, r) /\ Mentions(RebootOps(a)) = {m}
  <2>1. RebootOps(a) = IF a THEN PutAll(<<e>>) ELSE DelAll(<<m>>)
    BY DEF RebootOps
  <2> HIDE DEF e, m
  <2> QED BY <1>1, <1>2, <1>6, <1>9, <1>10, <1>11, <2>1
<1>13. Sound(FirmwareOps(a), a, x, r) /\ Mentions(FirmwareOps(a)) = {n}
  <2>1. FirmwareOps(a) = PutAll(<<f(IF a THEN "update/install" ELSE "")>>)
    BY DEF FirmwareOps
  <2> DEFINE g == f(IF a THEN "update/install" ELSE "")
  <2>2. g = f("update/install") \/ g = f("")
    OBVIOUS
  <2> HIDE DEF f, g, n
  <2>3. g \in EntryType /\ NameOf(g) = n /\ Served(g, x)
    BY <1>4, <1>8, <2>2
  <2>4. Sound(PutAll(<<g>>), a, x, r) /\ Mentions(PutAll(<<g>>)) = {n}
    BY <1>1, <1>2, <1>9, <1>10, <2>3
  <2> QED BY <2>1, <2>4 DEF g
<1> QED BY <1>12, <1>13

\* Removing the entries of the two extensions.
LEMMA ExtensionRemovals ==
  /\ RemoveAtx \in Seq(OpType) /\ Mentions(RemoveAtx) = AtxNames /\ \A i \in 1..Len(RemoveAtx) : Removes(RemoveAtx[i])
  /\ RemoveDc \in Seq(OpType) /\ Mentions(RemoveDc) = DcNames /\ \A i \in 1..Len(RemoveDc) : Removes(RemoveDc[i])
  /\ \A x : \A a, r \in BOOLEAN :
       /\ x # "atx-power" => Sound(RemoveAtx, a, x, r)
       /\ x # "dc-power" => Sound(RemoveDc, a, x, r)
<1> DEFINE atx == << <<"binary_sensor", "power_led">>, <<"binary_sensor", "hdd_led">>, <<"button", "atx_power_short">>,
                     <<"button", "atx_power_long">>, <<"button", "atx_reset">> >>
           dc == << <<"sensor", "voltage">>, <<"sensor", "current">>, <<"sensor", "power">>, <<"switch", "dc_power">>,
                    <<"binary_sensor", "dc_power">>, <<"select", "dc_restore">>, <<"sensor", "dc_restore">> >>
<1>1. Len(atx) = 5 /\ atx \in Seq(AtxNames) /\ {atx[i] : i \in 1..5} = AtxNames
  BY DEF AtxNames
<1>2. Len(dc) = 7 /\ dc \in Seq(DcNames) /\ {dc[i] : i \in 1..7} = DcNames
  BY DEF DcNames
<1>3. RemoveAtx = DelAll(atx) /\ RemoveDc = DelAll(dc)
  BY DEF RemoveAtx, RemoveDc
<1>4. AtxNames \subseteq AllNames /\ DcNames \subseteq AllNames
  BY DEF AllNames
<1> HIDE DEF atx, dc
<1>5. atx \in Seq(AllNames) /\ dc \in Seq(AllNames)
  BY <1>1, <1>2, <1>4
<1>6. /\ RemoveAtx \in Seq(OpType) /\ Mentions(RemoveAtx) = AtxNames
      /\ \A i \in 1..Len(RemoveAtx) : Removes(RemoveAtx[i])
  <2>1. /\ DelAll(atx) \in Seq(OpType) /\ Len(DelAll(atx)) = Len(atx)
        /\ \A i \in 1..Len(atx) : Removes(DelAll(atx)[i])
        /\ Mentions(DelAll(atx)) = {atx[i] : i \in 1..Len(atx)}
    BY <1>5, DelAllRemoves
  <2> QED BY <1>1, <1>3, <2>1
<1>7. /\ RemoveDc \in Seq(OpType) /\ Mentions(RemoveDc) = DcNames
      /\ \A i \in 1..Len(RemoveDc) : Removes(RemoveDc[i])
  <2>1. /\ DelAll(dc) \in Seq(OpType) /\ Len(DelAll(dc)) = Len(dc)
        /\ \A i \in 1..Len(dc) : Removes(DelAll(dc)[i])
        /\ Mentions(DelAll(dc)) = {dc[i] : i \in 1..Len(dc)}
    BY <1>5, DelAllRemoves
  <2> QED BY <1>2, <1>3, <2>1
<1>8. ASSUME NEW a \in BOOLEAN, NEW x, NEW r \in BOOLEAN, x # "atx-power" PROVE Sound(RemoveAtx, a, x, r)
  <2>1. \A i \in 1..Len(atx) : atx[i] \notin Wanted(a, x, r)
    BY <1>1, <1>8, WantedByKind
  <2> QED BY <1>3, <1>5, <2>1, DelAllSound
<1>9. ASSUME NEW a \in BOOLEAN, NEW x, NEW r \in BOOLEAN, x # "dc-power" PROVE Sound(RemoveDc, a, x, r)
  <2>1. \A i \in 1..Len(dc) : dc[i] \notin Wanted(a, x, r)
    BY <1>2, <1>9, WantedByKind
  <2> QED BY <1>3, <1>5, <2>1, DelAllSound
<1> QED BY <1>6, <1>7, <1>8, <1>9

\* The restore policy, offered or not.
LEMMA RestoreSound ==
  ASSUME NEW a \in BOOLEAN, NEW x, NEW r \in BOOLEAN, x = "dc-power"
  PROVE  /\ Sound(RestoreOps(a, r), a, x, r)
         /\ Mentions(RestoreOps(a, r)) = {<<"select", "dc_restore">>, <<"sensor", "dc_restore">>}
<1> DEFINE m == <<"select", "dc_restore">>
           n == <<"sensor", "dc_restore">>
           ns == <<m, n>>
           v == Variant(a, Entry("select", "dc_restore", "dc", "dc_restore/set"), Entry("sensor", "dc_restore", "dc", ""))
<1>1. m \in DcNames /\ n \in DcNames /\ m \in AllNames /\ n \in AllNames
  BY DEF DcNames, AllNames
<1>2. \A k \in DcNames : k \in Wanted(a, x, r) <=> k \in WantedDc(a, r)
  BY WantedByKind
<1>3. RestoreOps(a, r) = IF r THEN v ELSE DelAll(ns)
  BY DEF RestoreOps
<1>4. (m \in WantedDc(a, r) <=> (r /\ a)) /\ (n \in WantedDc(a, r) <=> (r /\ ~a))
  BY DEF WantedDc
<1>5. ASSUME m \in Wanted(a, x, r) <=> a, n \in Wanted(a, x, r) <=> ~a PROVE Sound(v, a, x, r) /\ Mentions(v) = {m, n}
  BY <1>5, RestorePolicySound
<1>6. ASSUME m \notin Wanted(a, x, r), n \notin Wanted(a, x, r)
      PROVE  Sound(DelAll(ns), a, x, r) /\ Mentions(DelAll(ns)) = {m, n}
  <2> HIDE DEF m, n
  <2>1. ns \in Seq(AllNames) /\ Len(ns) = 2 /\ ns[1] = m /\ ns[2] = n
    BY <1>1
  <2> HIDE DEF ns
  <2>2. \A i \in 1..Len(ns) : ns[i] \notin Wanted(a, x, r)
    BY <1>6, <2>1
  <2>3. Sound(DelAll(ns), a, x, r)
    BY <2>1, <2>2, DelAllSound
  <2>4. Mentions(DelAll(ns)) = {ns[i] : i \in 1..Len(ns)}
    BY <2>1, DelAllRemoves
  <2>5. {ns[i] : i \in 1..Len(ns)} = {m, n}
    BY <2>1
  <2> QED BY <2>3, <2>4, <2>5
<1> HIDE DEF m, n, ns, v
<1>7. CASE r
  <2>1. (m \in Wanted(a, x, r) <=> a) /\ (n \in Wanted(a, x, r) <=> ~a)
    BY <1>1, <1>2, <1>4, <1>7
  <2>2. Sound(v, a, x, r) /\ Mentions(v) = {m, n}
    BY <1>5, <2>1
  <2> QED BY <1>3, <1>7, <2>2 DEF m, n
<1>8. CASE ~r
  <2>1. m \notin Wanted(a, x, r) /\ n \notin Wanted(a, x, r)
    BY <1>1, <1>2, <1>4, <1>8
  <2>2. Sound(DelAll(ns), a, x, r) /\ Mentions(DelAll(ns)) = {m, n}
    BY <1>6, <2>1
  <2> QED BY <1>3, <1>8, <2>2 DEF m, n
<1> QED BY <1>7, <1>8 DEF m, n

\* The entries of the ATX extension: two LEDs, and three buttons if actions are wanted.
LEMMA AtxSound ==
  ASSUME NEW a \in BOOLEAN, NEW x, NEW r \in BOOLEAN, x = "atx-power"
  PROVE  Sound(AtxOps(a), a, x, r) /\ Mentions(AtxOps(a)) = AtxNames
<1> DEFINE e1 == Entry("binary_sensor", "power_led", "atx", "")
           e2 == Entry("binary_sensor", "hdd_led", "atx", "")
           es == <<e1, e2>>
           b(i) == Entry("button", AtxButtons[i], "", AtxCommands[i])
           bs == [i \in 1..3 |-> b(i)]
           k(i) == <<"button", AtxButtons[i]>>
           ks == [i \in 1..3 |-> k(i)]
           leds == {<<"binary_sensor", "power_led">>, <<"binary_sensor", "hdd_led">>}
           buttons == {<<"button", "atx_power_short">>, <<"button", "atx_power_long">>, <<"button", "atx_reset">>}
<1>1. AtxNames = leds \cup buttons /\ leds \subseteq AllNames /\ buttons \subseteq AllNames
  BY DEF AtxNames, AllNames
<1>2. \A n \in AtxNames : n \in Wanted(a, x, r) <=> n \in WantedAtx(a)
  BY WantedByKind
<1>3. leds \subseteq WantedAtx(a) /\ \A n \in buttons : n \in WantedAtx(a) <=> a
  BY DEF WantedAtx
<1>4. leds \subseteq Wanted(a, x, r) /\ \A n \in buttons : n \in Wanted(a, x, r) <=> a
  <2> HIDE DEF leds, buttons
  <2> QED BY <1>1, <1>2, <1>3
<1>5. "atx" \in CleanedTopics /\ "atx" \in PublishedTopics(x)
  BY DEF CleanedTopics, PublishedTopics
<1>6. /\ e1 \in EntryType /\ NameOf(e1) = <<"binary_sensor", "power_led">> /\ Served(e1, x)
      /\ e2 \in EntryType /\ NameOf(e2) = <<"binary_sensor", "hdd_led">> /\ Served(e2, x)
  BY <1>1, <1>5, ReadingEntry
<1>7. e1.o \notin Twofold /\ e2.o \notin Twofold
  BY DEF Entry, Twofold
<1>8. Sound(PutAll(es), a, x, r) /\ Mentions(PutAll(es)) = leds
  <2>1. NameOf(e1) \in leds /\ NameOf(e2) \in leds /\ leds = {NameOf(e1), NameOf(e2)}
    BY <1>6
  <2> HIDE DEF e1, e2, leds
  <2>2. es \in Seq(EntryType) /\ Len(es) = 2 /\ es[1] = e1 /\ es[2] = e2
    BY <1>6
  <2> HIDE DEF es
  <2>3. \A i \in 1..Len(es) : /\ NameOf(es[i]) \in Wanted(a, x, r) \cap AllNames /\ Served(es[i], x)
                              /\ es[i].o \notin Twofold
    <3>1. NameOf(e1) \in Wanted(a, x, r) \cap AllNames /\ NameOf(e2) \in Wanted(a, x, r) \cap AllNames
      BY <1>1, <1>4, <2>1
    <3> QED BY <1>6, <1>7, <2>2, <3>1
  <2>4. Sound(PutAll(es), a, x, r) /\ Mentions(PutAll(es)) = {NameOf(es[i]) : i \in 1..Len(es)}
    BY <2>2, <2>3, PutAllSound
  <2>5. {NameOf(es[i]) : i \in 1..Len(es)} = leds
    BY <2>1, <2>2
  <2> QED BY <2>4, <2>5
<1>9. {k(i) : i \in 1..3} = buttons /\ \A i \in 1..3 : k(i) \in buttons /\ AtxButtons[i] \notin Twofold
  BY DEF AtxButtons, Twofold
<1>10. \A i \in 1..3 : b(i) \in EntryType /\ NameOf(b(i)) = k(i) /\ Served(b(i), x) /\ b(i).o = AtxButtons[i]
  <2>1. TAKE i \in 1..3
  <2>2. AtxCommands[i] \in {"atx_power_short/set", "atx_power_long/set", "atx_reset/set"}
    BY DEF AtxCommands
  <2>3. k(i) \in AllNames
    BY <1>1, <1>9
  <2> DEFINE o == AtxButtons[i]
             c == AtxCommands[i]
  <2>4. o \notin {"dc_restore", "virtual_media"}
    BY <1>9 DEF Twofold
  <2> HIDE DEF o, c
  <2>5. c \in SubscribedCommands /\ Understood(c) = {"any"}
    BY <2>2 DEF c, SubscribedCommands, Understood
  <2>6. Offered(Entry("button", o, "", c)) = {"any"}
    BY <2>4 DEF Offered, Entry
  <2>7. Entry("button", o, "", c).o = o
    BY DEF Entry
  <2>8. /\ Entry("button", o, "", c) \in EntryType /\ NameOf(Entry("button", o, "", c)) = <<"button", o>>
        /\ Served(Entry("button", o, "", c), x)
    BY <2>3, <2>5, <2>6, ActingEntry DEF o
  <2> QED BY <2>7, <2>8 DEF o, c
<1>11. ASSUME buttons \subseteq Wanted(a, x, r) PROVE Sound(PutAll(bs), a, x, r) /\ Mentions(PutAll(bs)) = buttons
  <2> HIDE DEF b, k, buttons
  <2>1. bs \in Seq(EntryType) /\ Len(bs) = 3 /\ \A i \in 1..3 : bs[i] = b(i)
    BY <1>10
  <2> HIDE DEF bs
  <2>2. \A i \in 1..Len(bs) : /\ NameOf(bs[i]) \in Wanted(a, x, r) \cap AllNames /\ Served(bs[i], x)
                              /\ bs[i].o \notin Twofold
    BY <1>1, <1>9, <1>10, <1>11, <2>1
  <2>3. Sound(PutAll(bs), a, x, r) /\ Mentions(PutAll(bs)) = {NameOf(bs[i]) : i \in 1..Len(bs)}
    BY <2>1, <2>2, PutAllSound
  <2>4. {NameOf(bs[i]) : i \in 1..Len(bs)} = {k(i) : i \in 1..3}
    BY <1>10, <2>1
  <2> QED BY <1>9, <2>3, <2>4
<1>12. ASSUME buttons \cap Wanted(a, x, r) = {} PROVE Sound(DelAll(ks), a, x, r) /\ Mentions(DelAll(ks)) = buttons
  <2> HIDE DEF b, k, buttons
  <2>1. ks \in Seq(AllNames) /\ Len(ks) = 3 /\ \A i \in 1..3 : ks[i] = k(i)
    BY <1>1, <1>9
  <2> HIDE DEF ks
  <2>2. \A i \in 1..Len(ks) : ks[i] \notin Wanted(a, x, r)
    BY <1>9, <1>12, <2>1
  <2>3. Sound(DelAll(ks), a, x, r)
    BY <2>1, <2>2, DelAllSound
  <2>4. Mentions(DelAll(ks)) = {ks[i] : i \in 1..Len(ks)}
    BY <2>1, DelAllRemoves
  <2>5. {ks[i] : i \in 1..Len(ks)} = {k(i) : i \in 1..3}
    BY <2>1
  <2> QED BY <1>9, <2>3, <2>4, <2>5
<1>13. AtxOps(a) = PutAll(es) \o IF a THEN PutAll(bs) ELSE DelAll(ks)
  BY DEF AtxOps
<1> DEFINE t == IF a THEN PutAll(bs) ELSE DelAll(ks)
<1> HIDE DEF es, bs, ks, leds, buttons
<1>14. Sound(t, a, x, r) /\ Mentions(t) = buttons
  <2>1. CASE a
    BY <1>4, <1>11, <2>1
  <2>2. CASE ~a
    BY <1>4, <1>12, <2>2
  <2> QED BY <2>1, <2>2
<1> HIDE DEF t
<1>15. Part(PutAll(es), a, x, r, leds) /\ Part(t, a, x, r, buttons)
  BY <1>8, <1>14 DEF Part
<1>16. Part(PutAll(es) \o t, a, x, r, leds \cup buttons)
  BY <1>15, PartConcat
<1>17. Part(AtxOps(a), a, x, r, AtxNames)
  BY <1>1, <1>13, <1>16 DEF t
<1> QED BY <1>17 DEF Part

\* The entries of the DC extension.
LEMMA DcSound ==
  ASSUME NEW a \in BOOLEAN, NEW x, NEW r \in BOOLEAN, x = "dc-power"
  PROVE  /\ Sound(DcOps(a) \o RestoreOps(a, r), a, x, r)
         /\ Mentions(DcOps(a) \o RestoreOps(a, r)) = DcNames
<1> DEFINE b(i) == Entry("sensor", DcSensors[i], "dc", "")
           bs == [i \in 1..3 |-> b(i)]
           k(i) == <<"sensor", DcSensors[i]>>
           sensors == {<<"sensor", "voltage">>, <<"sensor", "current">>, <<"sensor", "power">>}
           power == {<<"switch", "dc_power">>, <<"binary_sensor", "dc_power">>}
           policy == {<<"select", "dc_restore">>, <<"sensor", "dc_restore">>}
           v == Variant(a, Entry("switch", "dc_power", "dc", "dc_power/set"),
                       Entry("binary_sensor", "dc_power", "dc", ""))
<1>1. sensors \subseteq AllNames /\ sensors \subseteq DcNames /\ DcNames = sensors \cup power \cup policy
  BY DEF DcNames, AllNames
<1>2. sensors \subseteq Wanted(a, x, r)
  <2>1. sensors \subseteq WantedDc(a, r)
    BY DEF WantedDc
  <2>2. \A n \in DcNames : n \in Wanted(a, x, r) <=> n \in WantedDc(a, r)
    BY WantedByKind
  <2> HIDE DEF sensors, power, policy
  <2> QED BY <1>1, <2>1, <2>2
<1>3. "dc" \in CleanedTopics /\ "dc" \in PublishedTopics(x)
  BY DEF CleanedTopics, PublishedTopics
<1>4. {k(i) : i \in 1..3} = sensors /\ \A i \in 1..3 : k(i) \in sensors /\ DcSensors[i] \notin Twofold
  BY DEF DcSensors, Twofold
<1>5. \A i \in 1..3 : b(i) \in EntryType /\ NameOf(b(i)) = k(i) /\ Served(b(i), x) /\ b(i).o = DcSensors[i]
  <2>1. TAKE i \in 1..3
  <2>2. k(i) \in AllNames
    BY <1>1, <1>4
  <2> DEFINE o == DcSensors[i]
  <2> HIDE DEF o
  <2>3. Entry("sensor", o, "dc", "").o = o
    BY DEF Entry
  <2>4. /\ Entry("sensor", o, "dc", "") \in EntryType /\ NameOf(Entry("sensor", o, "dc", "")) = <<"sensor", o>>
        /\ Served(Entry("sensor", o, "dc", ""), x)
    BY <1>3, <2>2, ReadingEntry DEF o
  <2> QED BY <2>3, <2>4 DEF o
<1>6. Sound(PutAll(bs), a, x, r) /\ Mentions(PutAll(bs)) = sensors
  <2> HIDE DEF b, k, sensors
  <2>1. bs \in Seq(EntryType) /\ Len(bs) = 3 /\ \A i \in 1..3 : bs[i] = b(i)
    BY <1>5
  <2> HIDE DEF bs
  <2>2. \A i \in 1..Len(bs) : /\ NameOf(bs[i]) \in Wanted(a, x, r) \cap AllNames /\ Served(bs[i], x)
                              /\ bs[i].o \notin Twofold
    BY <1>1, <1>2, <1>4, <1>5, <2>1
  <2>3. Sound(PutAll(bs), a, x, r) /\ Mentions(PutAll(bs)) = {NameOf(bs[i]) : i \in 1..Len(bs)}
    BY <2>1, <2>2, PutAllSound
  <2>4. {NameOf(bs[i]) : i \in 1..Len(bs)} = {k(i) : i \in 1..3}
    BY <1>5, <2>1
  <2> QED BY <1>4, <2>3, <2>4
<1>7. Sound(v, a, x, r) /\ Mentions(v) = power
  BY DcPowerSound
<1>8. DcOps(a) = PutAll(bs) \o v
  BY DEF DcOps
<1>9. Sound(RestoreOps(a, r), a, x, r) /\ Mentions(RestoreOps(a, r)) = policy
  BY RestoreSound
<1> HIDE DEF bs, v, sensors, power, policy
<1>10. Part(PutAll(bs), a, x, r, sensors) /\ Part(v, a, x, r, power) /\ Part(RestoreOps(a, r), a, x, r, policy)
  BY <1>6, <1>7, <1>9 DEF Part
<1>11. Part(DcOps(a), a, x, r, sensors \cup power)
  BY <1>8, <1>10, PartConcat
<1>12. Part(DcOps(a) \o RestoreOps(a, r), a, x, r, sensors \cup power \cup policy)
  BY <1>10, <1>11, PartConcat
<1> QED BY <1>1, <1>12 DEF Part

\* publish_ha_discovery names every entry there can be, puts what is wanted and removes the rest, and puts
\* a form only after its rival.
LEMMA DiscoverySound ==
  ASSUME NEW a \in BOOLEAN, NEW x \in {"", "atx-power", "dc-power"}, NEW r \in BOOLEAN
  PROVE  Sound(DiscoveryOps(a, x, r), a, x, r) /\ Mentions(DiscoveryOps(a, x, r)) = AllNames
<1> DEFINE s1 == PutAll(StatusEntries)
           s2 == PutAll(NetworkEntries)
           s3 == PutAll(SystemEntries)
           ext == CASE x = "atx-power" -> AtxOps(a) \o RemoveDc
                    [] x = "dc-power"  -> DcOps(a) \o RestoreOps(a, r) \o RemoveAtx
                    [] OTHER           -> RemoveAtx \o RemoveDc
           media == {<<"select", "virtual_media">>, <<"sensor", "virtual_media">>}
           jiggler == {<<"switch", "jiggler">>, <<"binary_sensor", "jiggler">>}
           reboot == {<<"button", "reboot">>}
           firmware == {<<"update", "firmware">>}
<1>1. DiscoveryOps(a, x, r)
        = s1 \o s2 \o s3 \o MediaOps(a) \o JigglerOps(a) \o RebootOps(a) \o FirmwareOps(a) \o ext
  BY DEF DiscoveryOps
<1>2. Part(s1, a, x, r, StatusNames) /\ Part(s2, a, x, r, NetworkNames) /\ Part(s3, a, x, r, SystemNames)
  BY PlainSound DEF Part
<1>3. Part(MediaOps(a), a, x, r, media)
  BY MediaSound DEF Part
<1>4. Part(JigglerOps(a), a, x, r, jiggler)
  BY JigglerSound DEF Part
<1>5. Part(RebootOps(a), a, x, r, reboot) /\ Part(FirmwareOps(a), a, x, r, firmware)
  BY SingleSound DEF Part
<1>6. media \cup jiggler \cup reboot \cup firmware = ControlNames
  BY DEF ControlNames
<1>7. Part(ext, a, x, r, AtxNames \cup DcNames)
  <2>1. CASE x = "atx-power"
    <3>1. Part(AtxOps(a), a, x, r, AtxNames)
      BY <2>1, AtxSound DEF Part
    <3>2. Part(RemoveDc, a, x, r, DcNames)
      BY <2>1, ExtensionRemovals DEF Part
    <3>3. Part(AtxOps(a) \o RemoveDc, a, x, r, AtxNames \cup DcNames)
      BY <3>1, <3>2, PartConcat
    <3>4. ext = AtxOps(a) \o RemoveDc
      BY <2>1
    <3> QED BY <3>3, <3>4
  <2>2. CASE x = "dc-power"
    <3>1. Part(DcOps(a) \o RestoreOps(a, r), a, x, r, DcNames)
      BY <2>2, DcSound DEF Part
    <3>2. Part(RemoveAtx, a, x, r, AtxNames)
      BY <2>2, ExtensionRemovals DEF Part
    <3>3. Part((DcOps(a) \o RestoreOps(a, r)) \o RemoveAtx, a, x, r, DcNames \cup AtxNames)
      BY <3>1, <3>2, PartConcat
    <3>4. ext = (DcOps(a) \o RestoreOps(a, r)) \o RemoveAtx
      BY <2>2
    <3> QED BY <3>3, <3>4
  <2>3. CASE x = ""
    <3>1. Part(RemoveAtx, a, x, r, AtxNames) /\ Part(RemoveDc, a, x, r, DcNames)
      BY <2>3, ExtensionRemovals DEF Part
    <3>2. Part(RemoveAtx \o RemoveDc, a, x, r, AtxNames \cup DcNames)
      BY <3>1, PartConcat
    <3>4. ext = RemoveAtx \o RemoveDc
      BY <2>3
    <3> QED BY <3>2, <3>4
  <2> QED BY <2>1, <2>2, <2>3
<1> HIDE DEF s1, s2, s3, ext, media, jiggler, reboot, firmware
<1>8. Part(s1 \o s2, a, x, r, StatusNames \cup NetworkNames)
  BY <1>2, PartConcat
<1>9. Part(s1 \o s2 \o s3, a, x, r, StatusNames \cup NetworkNames \cup SystemNames)
  BY <1>2, <1>8, PartConcat
<1> DEFINE u == s1 \o s2 \o s3
           U == StatusNames \cup NetworkNames \cup SystemNames
<1>10. Part(u, a, x, r, U)
  BY <1>9
<1> HIDE DEF u, U
<1>11. Part(u \o MediaOps(a), a, x, r, U \cup media)
  BY <1>3, <1>10, PartConcat
<1>12. Part(u \o MediaOps(a) \o JigglerOps(a), a, x, r, U \cup media \cup jiggler)
  BY <1>4, <1>11, PartConcat
<1>13. Part(u \o MediaOps(a) \o JigglerOps(a) \o RebootOps(a), a, x, r, U \cup media \cup jiggler \cup reboot)
  BY <1>5, <1>12, PartConcat
<1>14. Part(u \o MediaOps(a) \o JigglerOps(a) \o RebootOps(a) \o FirmwareOps(a), a, x, r,
            U \cup media \cup jiggler \cup reboot \cup firmware)
  BY <1>5, <1>13, PartConcat
<1>15. Part(u \o MediaOps(a) \o JigglerOps(a) \o RebootOps(a) \o FirmwareOps(a) \o ext, a, x, r,
            U \cup media \cup jiggler \cup reboot \cup firmware \cup (AtxNames \cup DcNames))
  BY <1>7, <1>14, PartConcat
<1>16. U \cup media \cup jiggler \cup reboot \cup firmware \cup (AtxNames \cup DcNames) = AllNames
  BY <1>6 DEF U, AllNames
<1>17. DiscoveryOps(a, x, r) = u \o MediaOps(a) \o JigglerOps(a) \o RebootOps(a) \o FirmwareOps(a) \o ext
  BY <1>1 DEF u
<1>18. Part(DiscoveryOps(a, x, r), a, x, r, AllNames)
  BY <1>15, <1>16, <1>17
<1> QED BY <1>18 DEF Part

\* remove_all_discovery removes every entry there can be.
LEMMA RemoveAllComplete ==
  RemoveAll \in Seq(OpType) /\ Mentions(RemoveAll) = AllNames /\ \A i \in 1..Len(RemoveAll) : Removes(RemoveAll[i])
<1> DEFINE ns == << <<"binary_sensor", "online">>, <<"binary_sensor", "video_signal">>, <<"sensor", "video_resolution">>,
            <<"sensor", "video_fps">>, <<"binary_sensor", "cloud_connected">>, <<"sensor", "active_sessions">>,
            <<"binary_sensor", "usb_state">>, <<"sensor", "ip_address">>, <<"sensor", "hostname">>,
            <<"sensor", "cpu_load">>, <<"sensor", "temperature">>, <<"sensor", "memory_used">>,
            <<"sensor", "storage_used">>, <<"sensor", "storage_free">>, <<"select", "virtual_media">>,
            <<"sensor", "virtual_media">>, <<"switch", "jiggler">>, <<"binary_sensor", "jiggler">>,
            <<"button", "reboot">>, <<"update", "firmware">> >>
           common == StatusNames \cup NetworkNames \cup SystemNames \cup ControlNames
           Clears(ops, N) == ops \in Seq(OpType) /\ Mentions(ops) = N /\ \A i \in 1..Len(ops) : Removes(ops[i])
<1>1. ASSUME NEW s, NEW t, NEW M, NEW N, Clears(s, M), Clears(t, N) PROVE Clears(s \o t, M \cup N)
  <2>1. s \in Seq(OpType) /\ t \in Seq(OpType) /\ Mentions(s) = M /\ Mentions(t) = N
    BY <1>1
  <2>2. Mentions(s \o t) = Mentions(s) \cup Mentions(t)
    BY <2>1, MentionsConcat
  <2>3. /\ s \o t \in Seq(OpType) /\ Len(s \o t) = Len(s) + Len(t) /\ Len(s) \in Nat /\ Len(t) \in Nat
        /\ \A i \in 1..Len(s) : (s \o t)[i] = s[i]
        /\ \A i \in 1..Len(t) : (s \o t)[Len(s) + i] = t[i]
    BY <2>1, ConcatProperties
  <2> DEFINE u == s \o t
  <2> HIDE DEF u
  <2>4. ASSUME NEW i \in 1..Len(u) PROVE Removes(u[i])
    <3>1. CASE i <= Len(s)
      BY <1>1, <2>3, <3>1 DEF u
    <3>2. CASE i > Len(s)
      <4>1. i - Len(s) \in 1..Len(t) /\ i = Len(s) + (i - Len(s))
        BY <2>3, <3>2 DEF u
      <4>2. u[i] = t[i - Len(s)]
        BY <2>3, <4>1 DEF u
      <4> QED BY <1>1, <4>1, <4>2
    <3> QED BY <2>3, <3>1, <3>2 DEF u
  <2> QED BY <2>1, <2>2, <2>3, <2>4 DEF u
<1>2. Len(ns) = 20 /\ \A i \in 1..20 : ns[i] \in common
  BY DEF StatusNames, NetworkNames, SystemNames, ControlNames
<1>3. \A n \in common : \E i \in 1..20 : ns[i] = n
  <2>1. \A n \in StatusNames : \E i \in 1..7 : ns[i] = n
    BY DEF StatusNames
  <2>2. \A n \in NetworkNames : \E i \in 8..9 : ns[i] = n
    BY DEF NetworkNames
  <2>3. \A n \in SystemNames : \E i \in 10..14 : ns[i] = n
    BY DEF SystemNames
  <2>4. \A n \in ControlNames : \E i \in 15..20 : ns[i] = n
    BY DEF ControlNames
  <2> HIDE DEF ns
  <2> QED BY <2>1, <2>2, <2>3, <2>4
<1>4. ns \in Seq(common)
  <2> DEFINE f == [i \in 1..20 |-> ns[i]]
  <2>1. ns = f
    OBVIOUS
  <2> HIDE DEF ns, common
  <2> QED BY <1>2, <2>1
<1>5. RemoveAll = DelAll(ns) \o RemoveAtx \o RemoveDc
  BY DEF RemoveAll
<1>6. common \subseteq AllNames /\ AllNames = common \cup AtxNames \cup DcNames
  BY DEF AllNames
<1> HIDE DEF ns, common
<1>7. Clears(DelAll(ns), common)
  <2>1. ns \in Seq(AllNames)
    BY <1>4, <1>6
  <2>2. /\ DelAll(ns) \in Seq(OpType) /\ Len(DelAll(ns)) = Len(ns)
        /\ \A i \in 1..Len(ns) : Removes(DelAll(ns)[i])
        /\ Mentions(DelAll(ns)) = {ns[i] : i \in 1..Len(ns)}
    BY <2>1, DelAllRemoves
  <2>3. {ns[i] : i \in 1..Len(ns)} = common
    BY <1>2, <1>3
  <2> QED BY <2>2, <2>3
<1>8. Clears(RemoveAtx, AtxNames) /\ Clears(RemoveDc, DcNames)
  BY ExtensionRemovals
<1> DEFINE All == Clears(RemoveAll, AllNames)
<1>9. All
  <2> HIDE DEF Clears
  <2>1. Clears(DelAll(ns) \o RemoveAtx, common \cup AtxNames)
    BY <1>1, <1>7, <1>8
  <2>2. Clears(DelAll(ns) \o RemoveAtx \o RemoveDc, common \cup AtxNames \cup DcNames)
    BY <1>1, <1>8, <2>1
  <2> QED BY <1>5, <1>6, <2>2
<1> QED BY <1>9

\* What a complete discovery leaves is typed and wanted.
LEMMA LeftWanted ==
  ASSUME NEW a \in BOOLEAN, NEW x \in {"", "atx-power", "dc-power"}, NEW r \in BOOLEAN
  PROVE  Left(a, x, r) \subseteq EntryType /\ Names(Left(a, x, r)) \subseteq Wanted(a, x, r)
<1> DEFINE ops == DiscoveryOps(a, x, r)
<1>1. \A i \in 1..Len(ops) : Suits(ops[i], a, x, r)
  BY DiscoverySound DEF Sound
<1>2. Left(a, x, r) = UNION {ops[i].entry : i \in 1..Len(ops)}
  BY DEF Left
<1> HIDE DEF ops
<1>3. ASSUME NEW e \in Left(a, x, r) PROVE e \in EntryType /\ NameOf(e) \in Wanted(a, x, r)
  <2>1. PICK i \in 1..Len(ops) : e \in ops[i].entry
    BY <1>2
  <2>2. ops[i] \in OpType /\ (ops[i].put <=> OpName(ops[i]) \in Wanted(a, x, r)) /\ (ops[i].put <=> ops[i].entry # {})
        /\ NameOf(e) = OpName(ops[i])
    BY <1>1, <2>1 DEF Suits
  <2>3. e \in EntryType
    BY <2>1, <2>2 DEF OpType
  <2>4. OpName(ops[i]) \in Wanted(a, x, r)
    BY <2>1, <2>2
  <2> QED BY <2>2, <2>3, <2>4
<1> QED BY <1>3 DEF Names, NameOf

\* What is wanted has one form of each entry.
LEMMA WantedOneForm ==
  ASSUME NEW a \in BOOLEAN, NEW x, NEW r \in BOOLEAN, NEW es, Names(es) \subseteq Wanted(a, x, r)
  PROVE  Unrivalled(es)
<1> SUFFICES ASSUME NEW d \in es, NEW e \in es, d.o = e.o, d.o \in Twofold PROVE d.c = e.c
  BY DEF Unrivalled
<1>1. <<d.c, d.o>> \in Wanted(a, x, r) /\ <<e.c, e.o>> \in Wanted(a, x, r)
  BY DEF Names
<1>2. ~Rivals(<<d.c, d.o>>, <<e.c, e.o>>)
  BY <1>1, NoRivalsWanted
<1>3. <<d.c, d.o>> = <<e.c, e.o>>
  BY <1>2 DEF Rivals
<1> QED BY <1>3

\* A message changes the entry it names and no other.
LEMMA ApplyNames ==
  ASSUME NEW es, es \subseteq EntryType, Names(es) \subseteq AllNames, NEW op \in OpType, OpName(op) \in AllNames,
         \A e \in op.entry : NameOf(e) = OpName(op)
  PROVE  /\ Apply(es, op) \subseteq EntryType /\ Names(Apply(es, op)) \subseteq AllNames
         /\ \A n : n # OpName(op) => (n \in Names(Apply(es, op)) <=> n \in Names(es))
         /\ OpName(op) \in Names(Apply(es, op)) <=> op.entry # {}
         /\ \A e \in Apply(es, op) : (e \in es /\ NameOf(e) # OpName(op)) \/ e \in op.entry
<1>1. Apply(es, op) = {e \in es : NameOf(e) # OpName(op)} \cup op.entry
  BY DEF Apply, NameOf, OpName
<1>2. \A s : Names(s) = {NameOf(e) : e \in s}
  BY DEF Names, NameOf
<1>3. op.entry \subseteq EntryType
  BY DEF OpType
<1>4. Apply(es, op) \subseteq EntryType
  BY <1>1, <1>3
<1>5. \A e \in Apply(es, op) : (e \in es /\ NameOf(e) # OpName(op)) \/ e \in op.entry
  BY <1>1
<1>6. ASSUME NEW n, n # OpName(op) PROVE n \in Names(Apply(es, op)) <=> n \in Names(es)
  BY <1>1, <1>2, <1>6
<1>7. OpName(op) \in Names(Apply(es, op)) <=> op.entry # {}
  BY <1>1, <1>2
<1>8. Names(Apply(es, op)) \subseteq AllNames
  BY <1>6
<1> QED BY <1>4, <1>5, <1>6, <1>7, <1>8

\* The invariant holds at the start, whatever an earlier run left on the broker.
LEMMA TopicsInitially == TopicsInit => TopicsIInv
<1> SUFFICES ASSUME TopicsInit PROVE TopicsIInv
  OBVIOUS
<1>0. Extensions \subseteq {"", "atx-power", "dc-power"} /\ {MaxLost, MaxChanges} \subseteq Nat
  BY TopicsAssumption
<1>1. /\ mode \in Modes /\ nextMode = mode /\ extension \in Extensions /\ restore \in BOOLEAN
      /\ work = << >> /\ stage = "off" /\ converged = FALSE /\ lost = 0 /\ changes = 0
  BY DEF TopicsInit
<1>2. /\ entries \subseteq EntryType /\ Names(entries) \subseteq AllNames /\ topics \subseteq CleanedTopics
      /\ Unrivalled(entries)
  <2>1. CASE entries = {} /\ topics = {}
    BY <2>1 DEF Names, Unrivalled
  <2>2. ASSUME NEW a \in BOOLEAN, NEW x \in Extensions, NEW r \in BOOLEAN, entries = Left(a, x, r), topics = CleanedTopics
        PROVE  <1>2!:
    <3>1. entries \subseteq EntryType /\ Names(entries) \subseteq Wanted(a, x, r)
      BY <1>0, <2>2, LeftWanted
    <3>2. Wanted(a, x, r) \subseteq AllNames
      BY WantedByKind
    <3>3. Unrivalled(entries)
      BY <3>1, WantedOneForm
    <3> QED BY <2>2, <3>1, <3>2, <3>3
  <2> QED BY <2>1, <2>2 DEF TopicsInit
<1>3. TopicTypes
  <2>0. MaxLost \in Nat /\ MaxChanges \in Nat
    BY <1>0
  <2>1. lost \in 0..MaxLost /\ changes \in 0..MaxChanges
    BY <1>1, <2>0
  <2>2. work \in Seq(OpType)
    BY <1>1
  <2> QED BY <1>1, <1>2, <2>1, <2>2 DEF TopicTypes, TopicsTypeOK
<1>5. WorkInv /\ RepairInv /\ RemovalInv
  BY <1>1 DEF WorkInv, RepairInv, RemovalInv
<1>6. FormsInv
  BY <1>1, <1>2 DEF FormsInv, DiscoveryWhole, RivalsGone, MediaSettled
<1> QED BY <1>3, <1>5, <1>6 DEF TopicsIInv

\* What the invariant says of the broker and the settings.
LEMMA TopicsIInvImplies == TopicsIInv => TopicsInv
<1> SUFFICES ASSUME TopicsIInv PROVE TopicsInv
  OBVIOUS
<1>1. TopicTypes /\ WorkInv /\ RepairInv /\ RemovalInv /\ FormsInv
  BY DEF TopicsIInv
<1>2. /\ TopicsTypeOK /\ mode \in Modes /\ extension \in Extensions /\ restore \in BOOLEAN /\ mode.actions \in BOOLEAN
      /\ Names(entries) \subseteq AllNames
  BY <1>1 DEF TopicTypes, TopicsTypeOK, Modes
<1>3. stage = "steady" => work = << >> /\ Mentions(work) = {}
  BY <1>1 DEF TopicTypes, Mentions
<1>4. DiscoveryConverges
  <2>1. ASSUME stage = "steady", converged, mode.discovery PROVE Names(entries) = Wanted(mode.actions, extension, restore)
    <3>1. \A n \in AllNames : n \in Names(entries) <=> n \in Wanted(mode.actions, extension, restore)
      BY <1>1, <1>3, <2>1 DEF RepairInv
    <3>2. Wanted(mode.actions, extension, restore) \subseteq AllNames
      BY <1>2, WantedByKind
    <3> QED BY <1>2, <3>1, <3>2
  <2>2. ASSUME stage \in {"off", "steady", "saving"}, converged, ~(nextMode.enabled /\ nextMode.discovery),
               nextMode = mode
        PROVE  entries = {}
    BY <1>1, <2>2 DEF RemovalInv
  <2> QED BY <2>1, <2>2 DEF DiscoveryConverges
<1>5. OneForm
  BY <1>1 DEF FormsInv, OneForm, Unrivalled, Twofold
<1>6. AdvertisedIsServed
  <2>1. SUFFICES ASSUME stage = "steady", converged, mode.discovery, NEW e \in entries PROVE Served(e, extension)
    BY DEF AdvertisedIsServed, Served
  <2> QED BY <1>1, <1>3, <2>1 DEF RepairInv
<1>7. DisabledLeavesStatusOnly
  BY <1>1 DEF RemovalInv, DisabledLeavesStatusOnly
<1> QED BY <1>2, <1>4, <1>5, <1>6, <1>7 DEF TopicsInv

-----------------------------------------------------------------------------
\* The parts of the invariant that most steps use.
LEMMA TopicFacts ==
  ASSUME TopicsIInv
  PROVE  /\ mode \in Modes /\ nextMode \in Modes /\ mode.enabled \in BOOLEAN /\ mode.discovery \in BOOLEAN
         /\ mode.actions \in BOOLEAN /\ nextMode.enabled \in BOOLEAN /\ nextMode.discovery \in BOOLEAN
         /\ extension \in {"", "atx-power", "dc-power"} /\ restore \in BOOLEAN /\ converged \in BOOLEAN
         /\ work \in Seq(OpType) /\ entries \subseteq EntryType /\ Names(entries) \subseteq AllNames
         /\ work # << >> => stage \in {"connecting", "removing"}
         /\ stage # "off" => mode.enabled
         /\ stage \in {"off", "connecting", "steady"} => nextMode = mode
         /\ lost \in Nat /\ changes \in Nat /\ MaxLost \in Nat /\ MaxChanges \in Nat
         /\ \A n : (\A e \in entries : NameOf(e) # n) <=> n \notin Names(entries)
         /\ Names(entries) = {} => entries = {}
<1>1. TopicTypes
  BY DEF TopicsIInv
<1>2. Extensions \subseteq {"", "atx-power", "dc-power"} /\ MaxLost \in Nat /\ MaxChanges \in Nat
  BY TopicsAssumption
<1>3. lost \in Nat /\ changes \in Nat
  <2>1. lost \in 0..MaxLost /\ changes \in 0..MaxChanges
    BY <1>1 DEF TopicTypes, TopicsTypeOK
  <2>2. MaxLost \in Nat /\ MaxChanges \in Nat
    BY <1>2
  <2> QED BY <2>1, <2>2
<1>4. /\ mode \in Modes /\ nextMode \in Modes /\ extension \in Extensions /\ restore \in BOOLEAN /\ converged \in BOOLEAN
      /\ work \in Seq(OpType) /\ entries \subseteq EntryType /\ Names(entries) \subseteq AllNames
      /\ work # << >> => stage \in {"connecting", "removing"}
      /\ stage # "off" => mode.enabled
      /\ stage \in {"off", "connecting", "steady"} => nextMode = mode
  BY <1>1 DEF TopicTypes, TopicsTypeOK
<1>5. \A m \in Modes : m.enabled \in BOOLEAN /\ m.actions \in BOOLEAN /\ m.discovery \in BOOLEAN
  BY DEF Modes
<1>6. \A n : (\A e \in entries : NameOf(e) # n) <=> n \notin Names(entries)
  BY DEF Names, NameOf
<1>7. Names(entries) = {} => entries = {}
  BY DEF Names
<1>8. extension \in {"", "atx-power", "dc-power"}
  BY <1>2, <1>4
<1>9. /\ mode.enabled \in BOOLEAN /\ mode.discovery \in BOOLEAN /\ mode.actions \in BOOLEAN
      /\ nextMode.enabled \in BOOLEAN /\ nextMode.discovery \in BOOLEAN
  BY <1>4, <1>5
<1> QED BY <1>2, <1>3, <1>4, <1>6, <1>7, <1>8, <1>9

\* Topics that are cleaned are all the topics there are.
LEMMA TopicsCleaned ==
  /\ ExtendedTopics \subseteq CleanedTopics /\ "status" \in CleanedTopics
  /\ \A x : PublishedTopics(x) \subseteq CleanedTopics
<1>1. ExtendedTopics \subseteq CleanedTopics /\ "status" \in CleanedTopics
  BY DEF CleanedTopics
<1>2. ASSUME NEW x PROVE PublishedTopics(x) \subseteq CleanedTopics
  BY DEF CleanedTopics, PublishedTopics
<1> QED BY <1>1, <1>2

\* The step of on_connect.
LEMMA ConnectKeeps == ASSUME TopicsIInv, Connect PROVE TopicsIInv'
<1>1. TopicTypes /\ WorkInv /\ RepairInv /\ RemovalInv /\ FormsInv
  BY DEF TopicsIInv
<1>2. /\ stage = "off" /\ mode.enabled /\ stage' = "connecting" /\ topics' = topics \cup {"status"}
      /\ work' = IF mode.discovery THEN DiscoveryOps(mode.actions, extension, restore) ELSE << >>
      /\ converged' = (mode.discovery \/ converged)
      /\ UNCHANGED <<mode, nextMode, extension, restore, entries, lost, changes>>
  BY DEF Connect
<1>3. /\ mode.actions \in BOOLEAN /\ mode.discovery \in BOOLEAN /\ extension \in {"", "atx-power", "dc-power"}
      /\ restore \in BOOLEAN /\ nextMode = mode /\ Names(entries) \subseteq AllNames
  BY <1>2, TopicFacts
<1> DEFINE ops == DiscoveryOps(mode.actions, extension, restore)
<1>4. Sound(ops, mode.actions, extension, restore) /\ Mentions(ops) = AllNames
  BY <1>3, DiscoverySound
<1> HIDE DEF ops
<1>5. work' = IF mode.discovery THEN ops ELSE << >>
  BY <1>2 DEF ops
<1>6. /\ ops \in Seq(OpType)
      /\ \A i \in 1..Len(ops) : Suits(ops[i], mode.actions, extension, restore) /\ RivalsFirst(ops, i)
  BY <1>4 DEF Sound
<1>7. TopicTypes'
  <2>1. work' \in Seq(OpType)
    BY <1>5, <1>6
  <2>2. topics' \subseteq CleanedTopics
    BY <1>1, <1>2, TopicsCleaned DEF TopicTypes, TopicsTypeOK
  <2>3. converged' \in BOOLEAN
    BY <1>2
  <2> QED BY <1>1, <1>2, <2>1, <2>2, <2>3 DEF TopicTypes, TopicsTypeOK
<1>8. WorkInv'
  BY <1>2, <1>5, <1>6 DEF WorkInv
<1>9. RepairInv'
  <2>1. SUFFICES ASSUME mode.discovery
                 PROVE  /\ \A n \in AllNames \ Mentions(work') :
                             n \in Names(entries) <=> n \in Wanted(mode.actions, extension, restore)
                        /\ \A e \in entries : NameOf(e) \notin Mentions(work') => Served(e, extension)
    BY <1>2 DEF RepairInv, Mentions
  <2>2. Mentions(work') = AllNames
    BY <1>4, <1>5, <2>1
  <2>3. \A e \in entries : NameOf(e) \in AllNames
    BY <1>3 DEF Names, NameOf
  <2> QED BY <2>2, <2>3
<1>10. RemovalInv'
  BY <1>1, <1>2, <1>3 DEF RemovalInv
<1>11. FormsInv'
  <2>3. ASSUME NEW i \in 1..Len(work'), NEW m \in AllNames, work'[i].put, Rivals(m, OpName(work'[i]))
        PROVE  \E j \in 1..Len(work') : j < i /\ OpName(work'[j]) = m
    <3>1. CASE mode.discovery
      <4>1. work' = ops
        BY <1>5, <3>1
      <4> QED BY <1>6, <2>3, <4>1 DEF RivalsFirst
    <3>2. CASE ~mode.discovery
      <4>1. work' = << >>
        BY <1>5, <3>2
      <4> QED BY <4>1
    <3> QED BY <3>1, <3>2
  <2>4. RivalsGone'
    BY <2>3 DEF RivalsGone, OpName
  <2>5. DiscoveryWhole' /\ MediaSettled'
    BY <1>2 DEF DiscoveryWhole, MediaSettled
  <2> QED BY <1>1, <1>2, <2>4, <2>5 DEF FormsInv, Unrivalled
<1> QED BY <1>7, <1>8, <1>9, <1>10, <1>11 DEF TopicsIInv

\* The end of on_connect: what was sent is what is wanted.
LEMMA ConnectedKeeps == ASSUME TopicsIInv, Connected PROVE TopicsIInv'
<1>1. TopicTypes /\ WorkInv /\ RepairInv /\ RemovalInv /\ FormsInv
  BY DEF TopicsIInv
<1>2. /\ stage = "connecting" /\ work = << >> /\ stage' = "steady" /\ topics' = topics \cup ExtendedTopics
      /\ UNCHANGED <<mode, nextMode, extension, restore, entries, work, converged, lost, changes>>
  BY DEF Connected
<1>3. mode.actions \in BOOLEAN /\ restore \in BOOLEAN
  BY TopicFacts
<1>4. TopicTypes'
  <2>1. topics' \subseteq CleanedTopics
    BY <1>1, <1>2, TopicsCleaned DEF TopicTypes, TopicsTypeOK
  <2> QED BY <1>1, <1>2, <2>1 DEF TopicTypes, TopicsTypeOK
<1>5. WorkInv'
  BY <1>2 DEF WorkInv
<1>6. RepairInv'
  BY <1>1, <1>2 DEF RepairInv, Mentions
<1>7. RemovalInv'
  BY <1>1, <1>2 DEF RemovalInv
<1>8. FormsInv'
  <2>1. SUFFICES ASSUME lost = 0 PROVE FormsInv'
    BY <1>2 DEF FormsInv
  <2>2. Unrivalled(entries) /\ DiscoveryWhole
    BY <1>1, <2>1 DEF FormsInv
  <2>3. MediaSettled'
    <3> DEFINE n == <<"sensor", "virtual_media">>
    <3>1. SUFFICES ASSUME mode.discovery, mode.actions PROVE n \notin Names(entries)
      BY <1>2 DEF MediaSettled
    <3>2. n \in ControlNames /\ n \in AllNames
      BY DEF ControlNames, AllNames
    <3>3. n \notin WantedControls(mode.actions)
      BY <3>1 DEF WantedControls
    <3>4. n \notin Wanted(mode.actions, extension, restore)
      BY <1>3, <3>2, <3>3, WantedByKind
    <3>5. Mentions(work) = {}
      BY <1>2 DEF Mentions
    <3> HIDE DEF n
    <3> QED BY <1>1, <1>2, <2>2, <3>1, <3>2, <3>4, <3>5 DEF RepairInv, DiscoveryWhole
  <2>4. RivalsGone' /\ DiscoveryWhole'
    BY <1>2, <2>2 DEF RivalsGone, DiscoveryWhole
  <2> QED BY <1>2, <2>2, <2>3, <2>4 DEF FormsInv, Unrivalled
<1> QED BY <1>4, <1>5, <1>6, <1>7, <1>8 DEF TopicsIInv

\* A broken connection.
LEMMA ConnectionLostKeeps == ASSUME TopicsIInv, ConnectionLost PROVE TopicsIInv'
<1>1. TopicTypes /\ WorkInv /\ RepairInv /\ RemovalInv /\ FormsInv
  BY DEF TopicsIInv
<1>2. /\ stage \in {"connecting", "steady"} /\ stage' = "off" /\ work' = << >>
      /\ converged' = (converged /\ stage = "steady")
      /\ UNCHANGED <<mode, nextMode, extension, restore, entries, topics, lost, changes>>
  BY DEF ConnectionLost
<1>3. mode.enabled /\ nextMode = mode
  BY <1>2, TopicFacts
<1>4. TopicTypes'
  BY <1>1, <1>2, <1>3 DEF TopicTypes, TopicsTypeOK
<1>5. WorkInv' /\ RepairInv'
  BY <1>2 DEF WorkInv, RepairInv
<1>6. RemovalInv'
  BY <1>1, <1>2, <1>3 DEF RemovalInv
<1>7. FormsInv'
  BY <1>1, <1>2 DEF FormsInv, Unrivalled, DiscoveryWhole, RivalsGone, MediaSettled
<1> QED BY <1>4, <1>5, <1>6, <1>7 DEF TopicsIInv

\* The first half of rpc_set_mqtt_settings.
LEMMA ChangeSettingsKeeps == ASSUME TopicsIInv, NEW new \in Modes, ChangeSettings(new) PROVE TopicsIInv'
<1>1. TopicTypes /\ WorkInv /\ RepairInv /\ RemovalInv /\ FormsInv
  BY DEF TopicsIInv
<1> DEFINE all == ~new.enabled \/ (mode.discovery /\ ~new.discovery)
<1>2. /\ stage = "steady" /\ changes < MaxChanges /\ changes' = changes + 1
      /\ nextMode' = new /\ stage' = "removing"
      /\ work' = IF all THEN RemoveAll ELSE << >>
      /\ converged' = (all \/ converged)
      /\ UNCHANGED <<mode, extension, restore, entries, topics, lost>>
  BY DEF ChangeSettings
<1>3. /\ mode.enabled /\ mode.discovery \in BOOLEAN /\ changes \in Nat /\ MaxChanges \in Nat
      /\ Names(entries) \subseteq AllNames
  BY <1>2, TopicFacts
<1>4. new.enabled \in BOOLEAN /\ new.discovery \in BOOLEAN
  BY DEF Modes
<1>5. RemoveAll \in Seq(OpType) /\ Mentions(RemoveAll) = AllNames /\ \A i \in 1..Len(RemoveAll) : Removes(RemoveAll[i])
  BY RemoveAllComplete
<1>6. TopicTypes'
  <2>1. work' \in Seq(OpType)
    BY <1>2, <1>5
  <2>2. changes' \in 0..MaxChanges
    BY <1>2, <1>3
  <2>3. converged' \in BOOLEAN
    BY <1>2
  <2> QED BY <1>1, <1>2, <1>3, <2>1, <2>2, <2>3 DEF TopicTypes, TopicsTypeOK
<1>7. WorkInv'
  <2>1. \A i \in 1..Len(work') : Removes(work'[i])
    BY <1>2, <1>5
  <2> QED BY <1>2, <2>1 DEF WorkInv, Removes, OpName
<1>8. RepairInv'
  BY <1>2 DEF RepairInv
<1>9. RemovalInv'
  <2>1. SUFFICES ASSUME converged', ~(new.enabled /\ new.discovery) PROVE Names(entries) \subseteq Mentions(work')
    BY <1>2 DEF RemovalInv, Mentions, Names
  <2>2. CASE all
    <3>1. work' = RemoveAll
      BY <1>2, <2>2
    <3> QED BY <1>3, <1>5, <3>1
  <2>3. CASE ~all
    <3>1. converged /\ ~mode.discovery
      BY <1>2, <1>3, <1>4, <2>1, <2>3
    <3>2. entries = {}
      BY <1>1, <1>2, <3>1 DEF RemovalInv
    <3> QED BY <3>2 DEF Names
  <2> QED BY <2>2, <2>3
<1>10. FormsInv'
  BY <1>1, <1>2 DEF FormsInv, Unrivalled, DiscoveryWhole, RivalsGone, MediaSettled
<1> QED BY <1>6, <1>7, <1>8, <1>9, <1>10 DEF TopicsIInv

\* The end of a removal.
LEMMA RemovedKeeps == ASSUME TopicsIInv, Removed PROVE TopicsIInv'
<1>1. TopicTypes /\ WorkInv /\ RepairInv /\ RemovalInv /\ FormsInv
  BY DEF TopicsIInv
<1>2. /\ stage = "removing" /\ work = << >> /\ stage' = "saving"
      /\ topics' = IF nextMode.enabled THEN topics ELSE topics \ CleanedTopics
      /\ UNCHANGED <<mode, nextMode, extension, restore, entries, work, converged, lost, changes>>
  BY DEF Removed
<1>3. topics \subseteq CleanedTopics
  BY <1>1 DEF TopicTypes, TopicsTypeOK
<1>4. TopicTypes'
  <2>1. topics' \subseteq CleanedTopics
    BY <1>2, <1>3
  <2> QED BY <1>1, <1>2, <2>1 DEF TopicTypes, TopicsTypeOK
<1>5. WorkInv' /\ RepairInv'
  BY <1>2 DEF WorkInv, RepairInv
<1>6. RemovalInv'
  <2>1. SUFFICES ASSUME converged
                 PROVE  /\ ~(nextMode.enabled /\ nextMode.discovery) => entries = {}
                        /\ ~nextMode.enabled => topics' = {}
    BY <1>2 DEF RemovalInv
  <2>2. ~nextMode.enabled => topics' = {}
    BY <1>2, <1>3
  <2>3. ASSUME ~(nextMode.enabled /\ nextMode.discovery) PROVE entries = {}
    <3>1. Names(entries) \subseteq Mentions(work)
      BY <1>1, <1>2, <2>1, <2>3 DEF RemovalInv
    <3>2. Mentions(work) = {}
      BY <1>2 DEF Mentions
    <3>3. Names(entries) = {}
      BY <3>1, <3>2
    <3> QED BY <3>3, TopicFacts
  <2> QED BY <2>2, <2>3
<1>7. FormsInv'
  BY <1>1, <1>2 DEF FormsInv, Unrivalled, DiscoveryWhole, RivalsGone, MediaSettled
<1> QED BY <1>4, <1>5, <1>6, <1>7 DEF TopicsIInv

\* restart_mqtt.
LEMMA RestartKeeps == ASSUME TopicsIInv, Restart PROVE TopicsIInv'
<1>1. TopicTypes /\ WorkInv /\ RepairInv /\ RemovalInv /\ FormsInv
  BY DEF TopicsIInv
<1>2. /\ stage = "saving" /\ stage' = "off" /\ mode' = nextMode /\ topics' = topics \cup {"status"}
      /\ UNCHANGED <<nextMode, extension, restore, entries, work, converged, lost, changes>>
  BY DEF Restart
<1>3. TopicTypes'
  <2>1. topics' \subseteq CleanedTopics
    BY <1>1, <1>2, TopicsCleaned DEF TopicTypes, TopicsTypeOK
  <2> QED BY <1>1, <1>2, <2>1 DEF TopicTypes, TopicsTypeOK
<1>4. WorkInv' /\ RepairInv'
  BY <1>2 DEF WorkInv, RepairInv
<1>5. RemovalInv'
  BY <1>1, <1>2 DEF RemovalInv
<1>6. FormsInv'
  BY <1>1, <1>2 DEF FormsInv, Unrivalled, DiscoveryWhole, RivalsGone, MediaSettled
<1> QED BY <1>3, <1>4, <1>5, <1>6 DEF TopicsIInv

\* Putting the one form that is wanted beside entries that do not hold its rival.
LEMMA PutUnrivalled ==
  ASSUME NEW es, Unrivalled(es), NEW op \in OpType, NEW n, OpName(op) = n, \A e \in op.entry : NameOf(e) = n,
         \A m \in Names(es) : ~Rivals(m, n)
  PROVE  Unrivalled(Apply(es, op))
<1>1. \A e \in Apply(es, op) : e \in es \/ e \in op.entry
  BY DEF Apply
<1>2. SUFFICES ASSUME NEW d \in Apply(es, op), NEW e \in Apply(es, op), d.o = e.o, d.o \in Twofold PROVE d.c = e.c
  BY DEF Unrivalled
<1>3. ASSUME NEW f \in es, NEW g \in op.entry, f.o = g.o, g.o \in Twofold PROVE f.c = g.c
  <2>1. <<f.c, f.o>> \in Names(es)
    BY DEF Names
  <2>2. n = <<g.c, g.o>>
    BY DEF NameOf
  <2>3. ~Rivals(<<f.c, f.o>>, <<g.c, g.o>>)
    BY <2>1, <2>2
  <2>4. <<f.c, f.o>> = <<g.c, g.o>>
    BY <1>3, <2>3 DEF Rivals
  <2> QED BY <2>4
<1>4. CASE d \in es /\ e \in es
  BY <1>2, <1>4 DEF Unrivalled
<1>5. CASE d \in op.entry /\ e \in op.entry
  <2>1. <<d.c, d.o>> = <<e.c, e.o>>
    BY <1>5 DEF NameOf
  <2> QED BY <2>1
<1>6. CASE d \in es /\ e \in op.entry
  BY <1>2, <1>3, <1>6
<1>7. CASE e \in es /\ d \in op.entry
  BY <1>2, <1>3, <1>7
<1> QED BY <1>1, <1>4, <1>5, <1>6, <1>7

\* A turn of the status task; it puts the select again when actions are wanted.
LEMMA StatusTickKeeps == ASSUME TopicsIInv, NEW images \in BOOLEAN, StatusTick(images) PROVE TopicsIInv'
<1>1. TopicTypes /\ WorkInv /\ RepairInv /\ RemovalInv /\ FormsInv
  BY DEF TopicsIInv
<1> DEFINE e == Entry("select", "virtual_media", "virtual_media", "virtual_media/set")
           n == <<"select", "virtual_media">>
           op == Put(e)
           put == images /\ mode.discovery /\ mode.actions
<1>2. /\ stage \in {"steady", "saving"}
      /\ topics' = topics \cup PublishedTopics(extension)
      /\ entries' = IF put THEN Apply(entries, op) ELSE entries
      /\ converged' = (converged /\ stage = "steady")
      /\ UNCHANGED <<mode, nextMode, extension, restore, work, stage, lost, changes>>
  BY DEF StatusTick
<1>3. /\ mode.actions \in BOOLEAN /\ mode.discovery \in BOOLEAN /\ restore \in BOOLEAN /\ mode.enabled
      /\ entries \subseteq EntryType /\ Names(entries) \subseteq AllNames /\ work = << >>
  BY <1>2, TopicFacts
<1>4. n \in ControlNames /\ n \in AllNames
  BY DEF ControlNames, AllNames
<1>5. "virtual_media" \in CleanedTopics /\ "virtual_media" \in PublishedTopics(extension)
  BY DEF CleanedTopics, PublishedTopics, ExtendedTopics
<1>6. Offered(e) \subseteq Understood("virtual_media/set") /\ "virtual_media/set" \in SubscribedCommands
  BY DEF Entry, Offered, Understood, SubscribedCommands
<1>7. e \in EntryType /\ NameOf(e) = n /\ Served(e, extension)
  BY <1>4, <1>5, <1>6, ActingEntry
<1>8. op \in OpType /\ OpName(op) = n /\ op.entry = {e}
  <2> HIDE DEF e, n
  <2>1. e.c \in Components /\ e.o \in Objects /\ n = <<e.c, e.o>>
    BY <1>7 DEF EntryType, NameOf
  <2> QED BY <1>7, <2>1 DEF Put, OpType, OpName
<1>9. ASSUME put PROVE n \in Wanted(mode.actions, extension, restore) /\ <<"sensor", "virtual_media">> # n
  <2>1. n \in WantedControls(mode.actions)
    BY <1>9 DEF WantedControls
  <2>2. n \in Wanted(mode.actions, extension, restore)
    BY <1>3, <1>4, <2>1, WantedByKind
  <2> QED BY <2>2
<1>10. \A m \in AllNames : Rivals(m, n) => m = <<"sensor", "virtual_media">>
  <2>1. <<"sensor", "virtual_media">> \in AllNames
    BY DEF ControlNames, AllNames
  <2> QED BY <1>4, <2>1, RivalNames
<1> HIDE DEF e, n, op
<1>11. /\ Apply(entries, op) \subseteq EntryType /\ Names(Apply(entries, op)) \subseteq AllNames
       /\ \A k : k # n => (k \in Names(Apply(entries, op)) <=> k \in Names(entries))
       /\ n \in Names(Apply(entries, op))
       /\ \A f \in Apply(entries, op) : f \in entries \/ f = e
  <2>1. OpName(op) \in AllNames /\ \A f \in op.entry : NameOf(f) = OpName(op)
    BY <1>4, <1>7, <1>8
  <2>2. /\ Apply(entries, op) \subseteq EntryType /\ Names(Apply(entries, op)) \subseteq AllNames
        /\ \A k : k # OpName(op) => (k \in Names(Apply(entries, op)) <=> k \in Names(entries))
        /\ OpName(op) \in Names(Apply(entries, op)) <=> op.entry # {}
        /\ \A f \in Apply(entries, op) : (f \in entries /\ NameOf(f) # OpName(op)) \/ f \in op.entry
    BY <1>3, <1>8, <2>1, ApplyNames
  <2> QED BY <1>8, <2>2
<1>12. Mentions(work) = {}
  BY <1>3 DEF Mentions
<1>13. TopicTypes'
  <2>1. topics' \subseteq CleanedTopics
    BY <1>1, <1>2, TopicsCleaned DEF TopicTypes, TopicsTypeOK
  <2>2. entries' \subseteq EntryType /\ Names(entries') \subseteq AllNames
    BY <1>2, <1>3, <1>11
  <2>3. Names(entries)' = Names(entries') /\ converged' \in BOOLEAN
    BY <1>1, <1>2 DEF Names, TopicTypes
  <2> QED BY <1>1, <1>2, <2>1, <2>2, <2>3 DEF TopicTypes, TopicsTypeOK
<1>14. WorkInv'
  BY <1>2, <1>3 DEF WorkInv
<1>15. RepairInv'
  <2>1. SUFFICES ASSUME stage = "steady", mode.discovery, converged
                 PROVE  /\ \A k \in AllNames : k \in Names(entries') <=> k \in Wanted(mode.actions, extension, restore)
                        /\ \A f \in entries' : Served(f, extension)
    <3>1. RepairInv' <=> (stage \in {"connecting", "steady"} /\ mode.discovery /\ converged' =>
            /\ \A k \in AllNames \ Mentions(work) :
                 k \in Names(entries') <=> k \in Wanted(mode.actions, extension, restore)
            /\ \A f \in entries' : NameOf(f) \notin Mentions(work) => Served(f, extension))
      BY <1>2 DEF RepairInv, Names, Mentions, NameOf
    <3> QED BY <1>2, <3>1
  <2>2. /\ \A k \in AllNames : k \in Names(entries) <=> k \in Wanted(mode.actions, extension, restore)
        /\ \A f \in entries : Served(f, extension)
    BY <1>1, <1>12, <2>1 DEF RepairInv
  <2>3. CASE put
    BY <1>2, <1>7, <1>9, <1>11, <2>2, <2>3
  <2>4. CASE ~put
    BY <1>2, <2>2, <2>4
  <2> QED BY <2>3, <2>4
<1>16. RemovalInv'
  BY <1>1, <1>2, <1>3 DEF RemovalInv
<1>17. FormsInv'
  <2>1. SUFFICES ASSUME lost = 0 PROVE FormsInv'
    BY <1>2 DEF FormsInv
  <2>2. Unrivalled(entries) /\ DiscoveryWhole /\ MediaSettled
    BY <1>1, <2>1 DEF FormsInv
  <2>3. RivalsGone' /\ DiscoveryWhole'
    BY <1>2, <2>2 DEF RivalsGone, DiscoveryWhole
  <2>4. Unrivalled(entries') /\ (stage' \in {"steady", "removing", "saving"} /\ mode.discovery /\ mode.actions
          => <<"sensor", "virtual_media">> \notin Names(entries'))
    <3>1. CASE put
      <4>1. <<"sensor", "virtual_media">> \notin Names(entries)
        BY <1>2, <2>2, <3>1 DEF MediaSettled
      <4>2. \A m \in Names(entries) : ~Rivals(m, n)
        BY <1>3, <1>10, <4>1
      <4>3. \A f \in op.entry : NameOf(f) = n
        BY <1>7, <1>8
      <4>4. Unrivalled(Apply(entries, op))
        BY <1>8, <2>2, <4>2, <4>3, PutUnrivalled
      <4>5. <<"sensor", "virtual_media">> \notin Names(Apply(entries, op))
        BY <1>9, <1>11, <3>1, <4>1
      <4> QED BY <1>2, <3>1, <4>4, <4>5
    <3>2. CASE ~put
      BY <1>2, <2>2, <3>2 DEF MediaSettled
    <3> QED BY <3>1, <3>2
  <2>5. Unrivalled(entries)' /\ MediaSettled'
    BY <1>2, <2>4 DEF Unrivalled, MediaSettled, Names
  <2> QED BY <2>3, <2>5 DEF FormsInv
<1> QED BY <1>13, <1>14, <1>15, <1>16, <1>17 DEF TopicsIInv

\* Taking the head off the messages to come.
LEMMA TailMessages ==
  ASSUME NEW s \in Seq(OpType), s # << >>
  PROVE  /\ Head(s) = s[1] /\ Head(s) \in OpType /\ Tail(s) \in Seq(OpType) /\ Len(s) \in Nat /\ Len(s) >= 1
         /\ Len(Tail(s)) = Len(s) - 1 /\ \A i \in 1..Len(Tail(s)) : Tail(s)[i] = s[i + 1] /\ i + 1 \in 1..Len(s)
         /\ Mentions(s) = {OpName(Head(s))} \cup Mentions(Tail(s))
<1>1. /\ Head(s) = s[1] /\ Head(s) \in OpType /\ Tail(s) \in Seq(OpType) /\ Len(s) \in Nat /\ Len(s) >= 1
      /\ Len(Tail(s)) = Len(s) - 1 /\ \A i \in 1..Len(Tail(s)) : Tail(s)[i] = s[i + 1] /\ i + 1 \in 1..Len(s)
  <2>1. Len(s) \in Nat /\ Len(s) # 0
    BY EmptySeq
  <2>2. /\ Tail(s) \in Seq(OpType) /\ Len(Tail(s)) = Len(s) - 1 /\ \A i \in 1..Len(Tail(s)) : Tail(s)[i] = s[i + 1]
    BY HeadTailProperties
  <2>3. Head(s) = s[1] /\ Head(s) \in OpType
    BY <2>1
  <2> QED BY <2>1, <2>2, <2>3
<1> DEFINE t == Tail(s)
<1> HIDE DEF t
<1>2. ASSUME NEW i \in 1..Len(s) PROVE OpName(s[i]) \in {OpName(Head(s))} \cup Mentions(t)
  <2>1. CASE i = 1
    BY <1>1, <2>1
  <2>2. CASE i # 1
    <3>1. i - 1 \in 1..Len(t) /\ t[i - 1] = s[i]
      BY <1>1, <2>2 DEF t
    <3> QED BY <3>1 DEF Mentions
  <2> QED BY <2>1, <2>2
<1>3. OpName(Head(s)) \in Mentions(s)
  BY <1>1 DEF Mentions
<1>4. ASSUME NEW i \in 1..Len(t) PROVE OpName(t[i]) \in Mentions(s)
  <2>1. t[i] = s[i + 1] /\ i + 1 \in 1..Len(s)
    BY <1>1 DEF t
  <2> QED BY <2>1 DEF Mentions
<1>5. Mentions(s) \subseteq {OpName(Head(s))} \cup Mentions(t)
  BY <1>2 DEF Mentions
<1>6. Mentions(t) \subseteq Mentions(s)
  BY <1>4 DEF Mentions
<1> QED BY <1>1, <1>3, <1>5, <1>6 DEF t

\* A message that arrives while discovery is sent: its entry becomes right, and no other changes.
LEMMA SendConnecting ==
  ASSUME TopicsIInv, work # << >>, work' = Tail(work), stage = "connecting",
         entries' = Apply(entries, Head(work)), UNCHANGED <<converged, lost>>,
         UNCHANGED <<mode, nextMode, extension, restore, topics, stage, changes>>
  PROVE  TopicsIInv'
<1>1. TopicTypes /\ WorkInv /\ RepairInv /\ RemovalInv /\ FormsInv
  BY DEF TopicsIInv
<1> DEFINE a == mode.actions
           h == Head(work)
           t == Tail(work)
           es == Apply(entries, h)
           W == Wanted(a, extension, restore)
<1>2. /\ a \in BOOLEAN /\ mode.discovery \in BOOLEAN /\ restore \in BOOLEAN /\ mode.enabled /\ work \in Seq(OpType)
      /\ entries \subseteq EntryType /\ Names(entries) \subseteq AllNames /\ converged \in BOOLEAN
  BY TopicFacts
<1>3. mode.discovery
  BY <1>1 DEF WorkInv
<1>4. /\ h = work[1] /\ h \in OpType /\ t \in Seq(OpType) /\ Len(work) \in Nat /\ Len(work) >= 1
      /\ Len(t) = Len(work) - 1 /\ \A i \in 1..Len(t) : t[i] = work[i + 1] /\ i + 1 \in 1..Len(work)
      /\ Mentions(work) = {OpName(h)} \cup Mentions(t)
  BY <1>2, TailMessages
<1>5. \A i \in 1..Len(work) : Suits(work[i], a, extension, restore)
  BY <1>1 DEF WorkInv
<1>6. Suits(h, a, extension, restore)
  BY <1>4, <1>5
<1> HIDE DEF h, t, W
<1>7. /\ OpName(h) \in AllNames /\ (h.put <=> OpName(h) \in W) /\ (h.put <=> h.entry # {})
      /\ \A e \in h.entry : NameOf(e) = OpName(h) /\ Served(e, extension)
  BY <1>6 DEF Suits, W
<1>8. /\ es \subseteq EntryType /\ Names(es) \subseteq AllNames
      /\ \A n : n # OpName(h) => (n \in Names(es) <=> n \in Names(entries))
      /\ OpName(h) \in Names(es) <=> h.entry # {}
      /\ \A e \in es : (e \in entries /\ NameOf(e) # OpName(h)) \/ e \in h.entry
  BY <1>2, <1>4, <1>7, ApplyNames
<1>9. entries' = es /\ work' = t
  BY DEF h, t
<1> HIDE DEF es
<1>10. TopicTypes'
  <2>1. Names(entries)' = Names(es)
    BY <1>9 DEF Names
  <2> QED BY <1>1, <1>4, <1>8, <1>9, <2>1 DEF TopicTypes, TopicsTypeOK
<1>11. WorkInv'
  <2>1. \A i \in 1..Len(t) : Suits(t[i], a, extension, restore)
    BY <1>4, <1>5
  <2> QED BY <1>3, <1>9, <2>1 DEF WorkInv
<1>12. RepairInv'
  <2>1. SUFFICES ASSUME converged
                 PROVE  /\ \A n \in AllNames \ Mentions(t) : n \in Names(es) <=> n \in W
                        /\ \A e \in es : NameOf(e) \notin Mentions(t) => Served(e, extension)
    BY <1>9 DEF RepairInv, Names, Mentions, NameOf, W
  <2>2. /\ \A n \in AllNames \ Mentions(work) : n \in Names(entries) <=> n \in W
        /\ \A e \in entries : NameOf(e) \notin Mentions(work) => Served(e, extension)
    BY <1>1, <1>3, <2>1 DEF RepairInv, W
  <2>3. ASSUME NEW n \in AllNames, n \notin Mentions(t) PROVE n \in Names(es) <=> n \in W
    <3>1. CASE n = OpName(h)
      BY <1>7, <1>8, <3>1
    <3>2. CASE n # OpName(h)
      <4>1. n \notin Mentions(work)
        BY <1>4, <2>3, <3>2
      <4> QED BY <1>8, <2>2, <3>2, <4>1
    <3> QED BY <3>1, <3>2
  <2>4. ASSUME NEW e \in es, NameOf(e) \notin Mentions(t) PROVE Served(e, extension)
    <3>1. CASE e \in h.entry
      BY <1>7, <3>1
    <3>2. CASE e \in entries /\ NameOf(e) # OpName(h)
      BY <1>4, <2>2, <2>4, <3>2
    <3> QED BY <1>8, <3>1, <3>2
  <2> QED BY <2>3, <2>4
<1>13. RemovalInv'
  BY <1>2, <1>3 DEF RemovalInv
<1>14. FormsInv'
  <2>1. SUFFICES ASSUME lost = 0 PROVE FormsInv'
    BY DEF FormsInv
  <2>2. Unrivalled(entries) /\ DiscoveryWhole /\ RivalsGone
    BY <1>1, <2>1 DEF FormsInv
  <2>3. ASSUME NEW i \in 1..Len(work), NEW m \in AllNames, work[i].put, Rivals(m, OpName(work[i]))
        PROVE  m \notin Names(entries) \/ \E j \in 1..Len(work) : j < i /\ OpName(work[j]) = m
    BY <2>2, <2>3 DEF RivalsGone
  <2>4. Unrivalled(es)
    <3>1. CASE h.entry = {}
      BY <1>8, <2>2, <3>1 DEF Unrivalled
    <3>2. CASE h.entry # {}
      <4>1. ASSUME NEW m \in Names(entries), Rivals(m, OpName(h)) PROVE FALSE
        <5>1. m \in AllNames /\ h.put /\ 1 \in 1..Len(work)
          BY <1>2, <1>4, <1>7, <3>2
        <5>2. ~\E j \in 1..Len(work) : j < 1 /\ OpName(work[j]) = m
          OBVIOUS
        <5>3. m \notin Names(entries) \/ \E j \in 1..Len(work) : j < 1 /\ OpName(work[j]) = m
          BY <1>4, <2>3, <4>1, <5>1
        <5> QED BY <5>2, <5>3
      <4> QED BY <1>4, <1>7, <2>2, <4>1, PutUnrivalled DEF es
    <3> QED BY <3>1, <3>2
  <2>5. ASSUME NEW i \in 1..Len(t), NEW m \in AllNames, t[i].put, Rivals(m, OpName(t[i])),
               ~\E j \in 1..Len(t) : j < i /\ OpName(t[j]) = m
        PROVE  m \notin Names(es)
    <3>1. t[i] = work[i + 1] /\ i + 1 \in 1..Len(work)
      BY <1>4
    <3>2. OpName(t[i]) \in W
      BY <1>5, <2>5, <3>1 DEF Suits, W
    <3>3. m \notin W
      BY <1>2, <2>5, <3>2, NoRivalsWanted DEF W
    <3>4. CASE m = OpName(h)
      BY <1>7, <1>8, <3>3, <3>4
    <3>5. CASE m # OpName(h)
      <4>1. m \notin Names(entries) \/ \E j \in 1..Len(work) : j < i + 1 /\ OpName(work[j]) = m
        BY <2>3, <2>5, <3>1
      <4>2. ASSUME NEW j \in 1..Len(work), j < i + 1, OpName(work[j]) = m PROVE FALSE
        <5>1. j # 1
          BY <1>4, <3>5, <4>2
        <5>2. j - 1 \in 1..Len(t) /\ j - 1 < i
          BY <1>4, <4>2, <5>1
        <5>3. t[j - 1] = work[j]
          BY <1>4, <5>2
        <5> QED BY <2>5, <4>2, <5>2, <5>3
      <4> QED BY <1>8, <3>5, <4>1, <4>2
    <3> QED BY <3>4, <3>5
  <2>6. RivalsGone'
    BY <1>9, <2>5 DEF RivalsGone, Names, OpName
  <2>7. DiscoveryWhole' /\ MediaSettled'
    BY <2>2 DEF DiscoveryWhole, MediaSettled
  <2> QED BY <1>9, <2>4, <2>6, <2>7 DEF FormsInv
<1> QED BY <1>10, <1>11, <1>12, <1>13, <1>14 DEF TopicsIInv

\* A removal that arrives takes its entry and nothing else away.
LEMMA SendRemoving ==
  ASSUME TopicsIInv, work # << >>, work' = Tail(work), stage = "removing",
         entries' = Apply(entries, Head(work)), UNCHANGED <<converged, lost>>,
         UNCHANGED <<mode, nextMode, extension, restore, topics, stage, changes>>
  PROVE  TopicsIInv'
<1>1. TopicTypes /\ WorkInv /\ RepairInv /\ RemovalInv /\ FormsInv
  BY DEF TopicsIInv
<1> DEFINE h == Head(work)
           t == Tail(work)
           es == Apply(entries, h)
<1>2. work \in Seq(OpType) /\ entries \subseteq EntryType /\ Names(entries) \subseteq AllNames
  BY TopicFacts
<1>3. /\ h = work[1] /\ h \in OpType /\ t \in Seq(OpType) /\ Len(work) \in Nat /\ Len(work) >= 1
      /\ Len(t) = Len(work) - 1 /\ \A i \in 1..Len(t) : t[i] = work[i + 1] /\ i + 1 \in 1..Len(work)
      /\ Mentions(work) = {OpName(h)} \cup Mentions(t)
  BY <1>2, TailMessages
<1>4. \A i \in 1..Len(work) : Removes(work[i])
  BY <1>1 DEF WorkInv
<1> HIDE DEF h, t
<1>5. h.entry = {} /\ OpName(h) \in AllNames
  BY <1>3, <1>4 DEF Removes
<1>6. /\ es \subseteq EntryType /\ Names(es) \subseteq AllNames
      /\ \A n : n # OpName(h) => (n \in Names(es) <=> n \in Names(entries))
      /\ OpName(h) \in Names(es) <=> h.entry # {}
      /\ \A e \in es : (e \in entries /\ NameOf(e) # OpName(h)) \/ e \in h.entry
  BY <1>2, <1>3, <1>5, ApplyNames
<1>7. entries' = es /\ work' = t
  BY DEF h, t
<1> HIDE DEF es
<1>8. es \subseteq entries /\ Names(es) \subseteq Names(entries) /\ OpName(h) \notin Names(es)
  BY <1>5, <1>6
<1>9. Names(entries)' = Names(es) /\ Mentions(work)' = Mentions(t)
  BY <1>7 DEF Names, Mentions
<1>10. TopicTypes'
  BY <1>1, <1>3, <1>6, <1>7, <1>9 DEF TopicTypes, TopicsTypeOK
<1>11. WorkInv'
  <2>1. \A i \in 1..Len(t) : Removes(t[i])
    BY <1>3, <1>4
  <2> QED BY <1>7, <2>1 DEF WorkInv
<1>12. RepairInv'
  BY DEF RepairInv
<1>13. RemovalInv'
  <2>1. Names(entries) \subseteq Mentions(work) => Names(es) \subseteq Mentions(t)
    BY <1>3, <1>8
  <2> QED BY <1>1, <1>9, <2>1 DEF RemovalInv
<1>14. FormsInv'
  <2>1. Unrivalled(entries) => Unrivalled(entries)'
    BY <1>7, <1>8 DEF Unrivalled
  <2>2. MediaSettled => MediaSettled'
    BY <1>8, <1>9 DEF MediaSettled
  <2> QED BY <1>1, <2>1, <2>2 DEF FormsInv, DiscoveryWhole, RivalsGone
<1> QED BY <1>10, <1>11, <1>12, <1>13, <1>14 DEF TopicsIInv

\* A message that is lost.
LEMMA SendLost ==
  ASSUME TopicsIInv, work # << >>, work' = Tail(work), lost < MaxLost, lost' = lost + 1, converged' = FALSE,
         entries' = entries,
         UNCHANGED <<mode, nextMode, extension, restore, topics, stage, changes>>
  PROVE  TopicsIInv'
<1>1. TopicTypes /\ WorkInv /\ RepairInv /\ RemovalInv /\ FormsInv
  BY DEF TopicsIInv
<1> DEFINE t == Tail(work)
<1>2. work \in Seq(OpType) /\ lost \in Nat /\ MaxLost \in Nat
  BY TopicFacts
<1>3. /\ t \in Seq(OpType) /\ Len(work) \in Nat
      /\ Len(t) = Len(work) - 1 /\ \A i \in 1..Len(t) : t[i] = work[i + 1] /\ i + 1 \in 1..Len(work)
  BY <1>2, TailMessages
<1>4. work' = t /\ Names(entries)' = Names(entries)
  BY DEF Names
<1> HIDE DEF t
<1>5. TopicTypes'
  <2>1. lost' \in 0..MaxLost
    BY <1>2
  <2> QED BY <1>1, <1>3, <1>4, <2>1 DEF TopicTypes, TopicsTypeOK
<1>6. WorkInv'
  <2>1. stage = "connecting" => \A i \in 1..Len(t) : Suits(t[i], mode.actions, extension, restore)
    BY <1>1, <1>3 DEF WorkInv
  <2>2. stage = "removing" => \A i \in 1..Len(t) : Removes(t[i])
    BY <1>1, <1>3 DEF WorkInv
  <2>3. stage = "connecting" => mode.discovery
    BY <1>1 DEF WorkInv
  <2> QED BY <1>4, <2>1, <2>2, <2>3 DEF WorkInv
<1>7. RepairInv' /\ RemovalInv'
  BY DEF RepairInv, RemovalInv
<1>8. FormsInv'
  BY <1>2 DEF FormsInv
<1> QED BY <1>5, <1>6, <1>7, <1>8 DEF TopicsIInv

\* A message that arrives or is lost.
LEMMA SendKeeps == ASSUME TopicsIInv, Send PROVE TopicsIInv'
<1>1. /\ work # << >> /\ work' = Tail(work)
      /\ \/ entries' = Apply(entries, Head(work)) /\ UNCHANGED <<converged, lost>>
         \/ lost < MaxLost /\ lost' = lost + 1 /\ converged' = FALSE /\ UNCHANGED entries
      /\ UNCHANGED <<mode, nextMode, extension, restore, topics, stage, changes>>
  BY DEF Send
<1>2. stage \in {"connecting", "removing"}
  BY <1>1, TopicFacts
<1>3. CASE entries' = Apply(entries, Head(work)) /\ UNCHANGED <<converged, lost>> /\ stage = "connecting"
  BY <1>1, <1>3, SendConnecting
<1>4. CASE entries' = Apply(entries, Head(work)) /\ UNCHANGED <<converged, lost>> /\ stage = "removing"
  BY <1>1, <1>4, SendRemoving
<1>5. CASE lost < MaxLost /\ lost' = lost + 1 /\ converged' = FALSE /\ UNCHANGED entries
  BY <1>1, <1>5, SendLost
<1> QED BY <1>1, <1>2, <1>3, <1>4, <1>5

\* Every step keeps the invariant.
LEMMA TopicsStep == TopicsIInv /\ [TopicsNext]_topicVars => TopicsIInv'
<1> SUFFICES ASSUME TopicsIInv, [TopicsNext]_topicVars PROVE TopicsIInv'
  OBVIOUS
<1>1. CASE Connect
  BY <1>1, ConnectKeeps
<1>2. CASE Send
  BY <1>2, SendKeeps
<1>3. CASE Connected
  BY <1>3, ConnectedKeeps
<1>4. CASE ConnectionLost
  BY <1>4, ConnectionLostKeeps
<1>5. CASE Removed
  BY <1>5, RemovedKeeps
<1>6. CASE Restart
  BY <1>6, RestartKeeps
<1>7. CASE \E images \in BOOLEAN : StatusTick(images)
  BY <1>7, StatusTickKeeps
<1>8. CASE \E new \in Modes : ChangeSettings(new)
  BY <1>8, ChangeSettingsKeeps
<1>9. CASE UNCHANGED topicVars
  <2>1. UNCHANGED <<mode, nextMode, extension, restore, entries, topics, work, stage, converged, lost, changes>>
    BY <1>9 DEF topicVars
  <2>2. Names(entries)' = Names(entries) /\ Mentions(work)' = Mentions(work) /\ Unrivalled(entries)' = Unrivalled(entries)
    BY <2>1 DEF Names, Mentions, Unrivalled
  <2>3. TopicTypes' /\ WorkInv'
    BY <2>1, <2>2 DEF TopicsIInv, TopicTypes, TopicsTypeOK, WorkInv
  <2>4. RepairInv' /\ RemovalInv'
    BY <2>1, <2>2 DEF TopicsIInv, RepairInv, RemovalInv
  <2>5. FormsInv'
    BY <2>1, <2>2 DEF TopicsIInv, FormsInv, DiscoveryWhole, RivalsGone, MediaSettled
  <2> QED BY <2>3, <2>4, <2>5 DEF TopicsIInv
<1> QED BY <1>1, <1>2, <1>3, <1>4, <1>5, <1>6, <1>7, <1>8, <1>9 DEF TopicsNext

\* For any extensions and any number of lost messages and settings changes: discovery repairs what is on the
\* broker, two forms are never advertised together, what is advertised is served, disabling leaves the status only.
THEOREM TopicsInvHolds == TopicsSpec => []TopicsInv
<1>1. TopicsInit => TopicsIInv
  BY TopicsInitially
<1>2. TopicsIInv /\ [TopicsNext]_topicVars => TopicsIInv'
  BY TopicsStep
<1>3. TopicsIInv => TopicsInv
  BY TopicsIInvImplies
<1> QED BY <1>1, <1>2, <1>3, PTL DEF TopicsSpec

-----------------------------------------------------------------------------
(* Text and combinations *)

Modifiers ==
  {"ControlLeft", "ShiftLeft", "AltLeft", "MetaLeft", "ControlRight", "ShiftRight", "AltRight", "MetaRight"}
Reports == [mods : SUBSET Modifiers, keys : SUBSET (4..115)]

\* The steps a text or combination is turned into, and how many the host has seen.
Plan(j) == IF j.kind = "text" THEN TextToMacroSteps(j.names) ELSE ComboToMacroSteps(j.names)
Played == Len(Plan(job)) - Len(steps)
AllTypeable(text) == ToSet(Typeable(text)) \subseteq DOMAIN CharToKeystroke

\* The host has seen the plan up to a step, has printed a character for every press of a text, and of
\* a combination it has seen the one report.
KeymapTypes ==
  /\ job.kind \in {"text", "combo"} /\ Plan(job) \in Seq(Reports) /\ steps \in Seq(Reports)
       /\ Len(steps) <= Len(Plan(job))
  /\ job.kind = "text" => job.names \in Seq(Sample)
  /\ job.kind = "combo" => job.names \in Seq(Tokens)
PlayedInv ==
  /\ \A i \in 1..Len(steps) : steps[i] = Plan(job)[Played + i]
  /\ held = IF Played = 0 THEN Released ELSE Plan(job)[Played]
PrintedInv ==
  job.kind = "text" =>
    IF AllTypeable(job.names)
    THEN /\ printed \in Seq(DOMAIN CharToKeystroke) /\ Len(printed) = (Played + 1) \div 2
         /\ \A i \in 1..Len(printed) : printed[i] = Typeable(job.names)[i]
    ELSE printed = << >>
PeakInv == job.kind = "combo" => peak = {Plan(job)[i] : i \in 1..Played} \ {Released}
KeymapIInv == KeymapTypes /\ PlayedInv /\ PrintedInv /\ PeakInv

\* A list with one element, and with none.
LEMMA SetToSeqSmall == SetToSeq({}) = << >> /\ \A x : SetToSeq({x}) = <<x>>
<1>1. SetToSeq({}) = << >>
  <2>1. Cardinality({}) = 0
    BY FS_EmptySet
  <2>2. SetToSeq({}) = CHOOSE f \in [1..0 -> {}] : IsInjective(f)
    BY <2>1 DEF SetToSeq
  <2>3. \A f \in [1..0 -> {}] : f = << >>
    OBVIOUS
  <2>4. << >> \in [1..0 -> {}] /\ IsInjective(<< >>)
    BY DEF IsInjective
  <2> QED BY <2>2, <2>3, <2>4
<1>2. ASSUME NEW x PROVE SetToSeq({x}) = <<x>>
  <2> DEFINE G(f) == f \in [1..1 -> {x}] /\ IsInjective(f)
  <2>1. Cardinality({x}) = 1
    BY FS_Singleton
  <2>2. \A f : G(f) => f = <<x>>
    OBVIOUS
  <2>3. G(<<x>>)
    BY DEF IsInjective
  <2>4. SetToSeq({x}) = CHOOSE f \in [1..1 -> {x}] : IsInjective(f)
    BY <2>1 DEF SetToSeq
  <2> QED BY <2>2, <2>3, <2>4
<1> QED BY <1>1, <1>2

\* The place of a character or code in its row.
LEMMA PositionIs ==
  ASSUME NEW row, NEW x \in ToSet(row)
  PROVE  Position(x, row) \in DOMAIN row /\ row[Position(x, row)] = x
<1>1. \E i \in DOMAIN row : row[i] = x
  BY DEF ToSet
<1> QED BY <1>1 DEF Position

\* The host's rows are the rows characters are looked up in.
LEMMA HostRows ==
  /\ HostBlanks = Blanks /\ HostPunctuation = Marks /\ HostLow = LowMarks /\ HostDigitsShifted = DigitSymbols
  /\ HostPunctuationShifted = ShiftedMarks /\ HostLowShifted = ShiftedLowMarks
<1>1. HostBlanks = Blanks
  BY Zenon DEF HostBlanks, Blanks
<1>2. HostPunctuation = Marks
  BY Zenon DEF HostPunctuation, Marks
<1>3. HostLow = LowMarks
  BY Zenon DEF HostLow, LowMarks
<1>4. HostDigitsShifted = DigitSymbols
  BY Zenon DEF HostDigitsShifted, DigitSymbols
<1>5. HostPunctuationShifted = ShiftedMarks
  BY Zenon DEF HostPunctuationShifted, ShiftedMarks
<1>6. HostLowShifted = ShiftedLowMarks
  BY Zenon DEF HostLowShifted, ShiftedLowMarks
<1> QED BY <1>1, <1>2, <1>3, <1>4, <1>5, <1>6

\* How many keys a row has.
LEMMA RowLengths ==
  /\ DOMAIN Letters = 1..26 /\ DOMAIN Capitals = 1..26 /\ DOMAIN Digits = 1..10 /\ DOMAIN DigitSymbols = 1..10
  /\ DOMAIN Return = 1..1 /\ DOMAIN Blanks = 1..2 /\ DOMAIN Marks = 1..5 /\ DOMAIN ShiftedMarks = 1..5
  /\ DOMAIN LowMarks = 1..6 /\ DOMAIN ShiftedLowMarks = 1..6
<1>1. DOMAIN Letters = 1..26
  BY DEF Letters
<1>2. DOMAIN Capitals = 1..26
  BY DEF Capitals
<1>3. DOMAIN Digits = 1..10
  BY DEF Digits
<1>4. DOMAIN DigitSymbols = 1..10
  BY DEF DigitSymbols
<1>5. DOMAIN Return = 1..1
  BY DEF Return
<1>6. DOMAIN Blanks = 1..2
  BY DEF Blanks
<1>7. DOMAIN Marks = 1..5
  BY DEF Marks
<1>8. DOMAIN ShiftedMarks = 1..5
  BY DEF ShiftedMarks
<1>9. DOMAIN LowMarks = 1..6
  BY DEF LowMarks
<1>10. DOMAIN ShiftedLowMarks = 1..6
  BY DEF ShiftedLowMarks
<1> QED BY <1>1, <1>2, <1>3, <1>4, <1>5, <1>6, <1>7, <1>8, <1>9, <1>10

\* The rows of keys: which usages they take, and what the host prints for them.
LEMMA RowIs ==
  ASSUME NEW r \in CharRows, NEW i \in DOMAIN r[3]
  PROVE  LET u == r[2] + i - 1
             layout == IF r[1] \cap {"ShiftLeft", "ShiftRight"} = {} THEN HostPlain ELSE HostShifted
         IN  r[1] \subseteq Modifiers /\ u \in 4..115 /\ u \in DOMAIN layout /\ layout[u] = r[3][i]
<1> DEFINE Right(mods, first, row) ==
      LET layout == IF mods \cap {"ShiftLeft", "ShiftRight"} = {} THEN HostPlain ELSE HostShifted
      IN  \A j \in DOMAIN row : /\ first + j - 1 \in 4..115 /\ first + j - 1 \in DOMAIN layout
                                /\ layout[first + j - 1] = row[j]
<1>1. /\ NoMods \subseteq Modifiers /\ LeftShift \subseteq Modifiers
      /\ NoMods \cap {"ShiftLeft", "ShiftRight"} = {} /\ LeftShift \cap {"ShiftLeft", "ShiftRight"} # {}
  BY DEF NoMods, LeftShift, Modifiers
<1>2. DOMAIN HostPlain = (4..40) \cup (43..49) \cup (51..56) /\ DOMAIN HostShifted = (4..39) \cup (45..49) \cup (51..56)
  BY DEF HostPlain, HostShifted
<1>3. /\ \A u \in 4..29 : HostPlain[u] = Letters[u - 3]
      /\ \A u \in 30..39 : HostPlain[u] = Digits[u - 29]
      /\ \A u \in 43..44 : HostPlain[u] = Blanks[u - 42]
      /\ \A u \in 45..49 : HostPlain[u] = Marks[u - 44]
      /\ \A u \in 51..56 : HostPlain[u] = LowMarks[u - 50]
  BY HostRows DEF HostPlain
<1>4. HostPlain[40] = Return[1]
  BY DEF HostPlain, Return
<1>5. /\ \A u \in 4..29 : HostShifted[u] = Capitals[u - 3]
      /\ \A u \in 30..39 : HostShifted[u] = DigitSymbols[u - 29]
      /\ \A u \in 45..49 : HostShifted[u] = ShiftedMarks[u - 44]
      /\ \A u \in 51..56 : HostShifted[u] = ShiftedLowMarks[u - 50]
  BY HostRows DEF HostShifted
<1>6. Right(NoMods, 4, Letters) /\ Right(NoMods, 30, Digits)
  BY <1>1, <1>2, <1>3, RowLengths
<1>7. Right(LeftShift, 4, Capitals) /\ Right(LeftShift, 30, DigitSymbols)
  BY <1>1, <1>2, <1>5, RowLengths
<1>8. Right(NoMods, 40, Return) /\ Right(NoMods, 43, Blanks)
  BY <1>1, <1>2, <1>3, <1>4, RowLengths
<1>9. Right(NoMods, 45, Marks) /\ Right(NoMods, 51, LowMarks)
  BY <1>1, <1>2, <1>3, RowLengths
<1>10. Right(LeftShift, 45, ShiftedMarks) /\ Right(LeftShift, 51, ShiftedLowMarks)
  BY <1>1, <1>2, <1>5, RowLengths
<1> HIDE DEF Right
<1>11. \A q \in CharRows : Right(q[1], q[2], q[3]) /\ (q[1] = NoMods \/ q[1] = LeftShift)
  BY <1>6, <1>7, <1>8, <1>9, <1>10 DEF CharRows
<1>12. Right(r[1], r[2], r[3]) /\ r[1] \subseteq Modifiers
  BY <1>1, <1>11
<1> QED BY <1>12 DEF Right

\* The key of a character is in one of the rows, and the host prints the character for it.
LEMMA StrokePrints ==
  ASSUME NEW c \in DOMAIN CharToKeystroke
  PROVE  LET stroke == CharToKeystroke[c]
             press == Report(stroke[1], {stroke[2]})
         IN  /\ stroke[1] \subseteq Modifiers /\ stroke[2] \in 4..115 /\ press \in Reports /\ press # Released
             /\ HostPrints(Released, press) = <<c>>
<1> DEFINE r == CHOOSE q \in CharRows : c \in ToSet(q[3])
           i == Position(c, r[3])
           stroke == CharToKeystroke[c]
           press == Report(stroke[1], {stroke[2]})
           layout == IF r[1] \cap {"ShiftLeft", "ShiftRight"} = {} THEN HostPlain ELSE HostShifted
<1>1. c \in UNION {ToSet(q[3]) : q \in CharRows} /\ stroke = <<r[1], r[2] + i - 1>>
  BY DEF CharToKeystroke
<1>2. \E q \in CharRows : c \in ToSet(q[3])
  BY <1>1
<1>3. r \in CharRows /\ c \in ToSet(r[3])
  BY <1>2
<1> HIDE DEF r
<1>4. i \in DOMAIN r[3] /\ r[3][i] = c
  BY <1>3, PositionIs
<1> HIDE DEF i, stroke
<1>5. stroke[1] = r[1] /\ stroke[2] = r[2] + i - 1
  BY <1>1
<1> DEFINE u == r[2] + i - 1
<1>6. r[1] \subseteq Modifiers /\ u \in 4..115 /\ u \in DOMAIN layout /\ layout[u] = c
  BY <1>3, <1>4, RowIs
<1> HIDE DEF layout, u
<1>7. stroke[1] = r[1] /\ stroke[2] = u
  BY <1>5 DEF u
<1>8. press = [mods |-> r[1], keys |-> {u}] /\ press.mods = r[1] /\ press.keys = {u}
  BY <1>7 DEF Report
<1>9. press \in Reports /\ press # Released
  BY <1>6, <1>8 DEF Reports, Released, Report
<1>10. Released.keys = {}
  BY DEF Released, Report
<1>11. HostPrints(Released, press) = SetToSeq({layout[k] : k \in (press.keys \ Released.keys) \cap DOMAIN layout})
  BY <1>8 DEF HostPrints, layout
<1>12. {layout[k] : k \in (press.keys \ Released.keys) \cap DOMAIN layout} = {c}
  BY <1>6, <1>8, <1>10
<1>13. HostPrints(Released, press) = <<c>>
  BY <1>11, <1>12, SetToSeqSmall
<1> QED BY <1>6, <1>7, <1>9, <1>13 DEF stroke

\* Letting go prints nothing.
LEMMA ReleasePrintsNothing ==
  Released \in Reports /\ Released.keys = {} /\ \A r : HostPrints(r, Released) = << >>
<1>1. Released \in Reports /\ Released.keys = {} /\ Released.mods = {}
  BY DEF Released, Report, Reports
<1>2. ASSUME NEW r PROVE HostPrints(r, Released) = << >>
  <2> DEFINE layout == IF Released.mods \cap {"ShiftLeft", "ShiftRight"} = {} THEN HostPlain ELSE HostShifted
             out == {layout[u] : u \in (Released.keys \ r.keys) \cap DOMAIN layout}
  <2>1. HostPrints(r, Released) = SetToSeq(out)
    BY DEF HostPrints
  <2>2. out = {}
    BY <1>1
  <2> QED BY <2>1, <2>2, SetToSeqSmall
<1> QED BY <1>1, <1>2

\* The codes of the rows and their usages.
LEMMA CodeUsages ==
  /\ \A c \in DOMAIN CodeToUsage : CodeToUsage[c] \in 4..115
  /\ \A r \in CodeRows : \A i \in DOMAIN r[2] : r[2][i] \in DOMAIN CodeToUsage
<1>1. DOMAIN CodesFrom4 = 1..46
  BY DEF CodesFrom4
<1>2. DOMAIN CodesFrom51 = 1..51
  BY DEF CodesFrom51
<1>3. DOMAIN CodesFrom103 = 1..13
  BY DEF CodesFrom103
<1>4. \A r \in CodeRows : \A i \in DOMAIN r[2] : r[1] + i - 1 \in 4..115
  BY <1>1, <1>2, <1>3 DEF CodeRows
<1>5. ASSUME NEW c \in DOMAIN CodeToUsage PROVE CodeToUsage[c] \in 4..115
  <2> DEFINE r == CHOOSE q \in CodeRows : c \in ToSet(q[2])
             i == Position(c, r[2])
  <2>1. c \in UNION {ToSet(q[2]) : q \in CodeRows} /\ CodeToUsage[c] = r[1] + i - 1
    BY DEF CodeToUsage
  <2>2. \E q \in CodeRows : c \in ToSet(q[2])
    BY <2>1
  <2>3. r \in CodeRows /\ c \in ToSet(r[2])
    BY <2>2
  <2> HIDE DEF r
  <2>4. i \in DOMAIN r[2]
    BY <2>3, PositionIs
  <2> HIDE DEF i
  <2> QED BY <1>4, <2>1, <2>3, <2>4
<1>6. ASSUME NEW r \in CodeRows, NEW i \in DOMAIN r[2] PROVE r[2][i] \in DOMAIN CodeToUsage
  <2>1. r[2][i] \in ToSet(r[2])
    BY DEF ToSet
  <2> QED BY <2>1 DEF CodeToUsage
<1> QED BY <1>5, <1>6

\* Every code that has other names is one of the rows.
LEMMA NamedCodes == \A name : Named(name, KeyNames) \subseteq DOMAIN CodeToUsage
<1>1. {"Enter", "Escape", "Tab", "Space", "Backspace"} \subseteq DOMAIN CodeToUsage
  <2>1. <<4, CodesFrom4>> \in CodeRows
    BY DEF CodeRows
  <2>2. \A i \in DOMAIN CodesFrom4 : CodesFrom4[i] \in DOMAIN CodeToUsage
    BY <2>1, CodeUsages
  <2>3. /\ CodesFrom4[37] = "Enter" /\ CodesFrom4[38] = "Escape" /\ CodesFrom4[40] = "Tab"
        /\ CodesFrom4[41] = "Space" /\ CodesFrom4[39] = "Backspace"
    BY DEF CodesFrom4
  <2>4. \A i \in {37, 38, 40, 41, 39} : i \in DOMAIN CodesFrom4
    BY DEF CodesFrom4
  <2> QED BY <2>2, <2>3, <2>4
<1>2. {"Delete", "Insert", "Home", "End", "PageUp", "PageDown", "ArrowUp", "ArrowDown", "ArrowLeft",
        "ArrowRight", "CapsLock", "PrintScreen", "ScrollLock", "Pause", "NumLock", "ContextMenu",
        "F1"} \subseteq DOMAIN CodeToUsage
  <2>1. <<51, CodesFrom51>> \in CodeRows
    BY DEF CodeRows
  <2>2. \A i \in DOMAIN CodesFrom51 : CodesFrom51[i] \in DOMAIN CodeToUsage
    BY <2>1, CodeUsages
  <2>3. /\ CodesFrom51[26] = "Delete" /\ CodesFrom51[23] = "Insert" /\ CodesFrom51[24] = "Home"
        /\ CodesFrom51[27] = "End" /\ CodesFrom51[25] = "PageUp" /\ CodesFrom51[28] = "PageDown"
        /\ CodesFrom51[32] = "ArrowUp" /\ CodesFrom51[31] = "ArrowDown" /\ CodesFrom51[30] = "ArrowLeft"
        /\ CodesFrom51[29] = "ArrowRight" /\ CodesFrom51[7] = "CapsLock" /\ CodesFrom51[20] = "PrintScreen"
        /\ CodesFrom51[21] = "ScrollLock" /\ CodesFrom51[22] = "Pause" /\ CodesFrom51[33] = "NumLock"
        /\ CodesFrom51[51] = "ContextMenu" /\ CodesFrom51[8] = "F1"
    BY DEF CodesFrom51
  <2>4. \A i \in {26, 23, 24, 27, 25, 28, 32, 31, 30, 29, 7, 20, 21, 22, 33, 51, 8} : i \in DOMAIN CodesFrom51
    BY DEF CodesFrom51
  <2> QED BY <2>2, <2>3, <2>4
<1>3. {"F24"} \subseteq DOMAIN CodeToUsage
  <2>1. <<103, CodesFrom103>> \in CodeRows
    BY DEF CodeRows
  <2>2. \A i \in DOMAIN CodesFrom103 : CodesFrom103[i] \in DOMAIN CodeToUsage
    BY <2>1, CodeUsages
  <2>3. CodesFrom103[13] = "F24"
    BY DEF CodesFrom103
  <2>4. \A i \in {13} : i \in DOMAIN CodesFrom103
    BY DEF CodesFrom103
  <2> QED BY <2>2, <2>3, <2>4
<1>4. \A q \in KeyNames : q[1] \in DOMAIN CodeToUsage
  BY <1>1, <1>2, <1>3 DEF KeyNames
<1> QED BY <1>4 DEF Named

\* What a name resolves to fits a report.
LEMMA ResolveTyped == \A name : ResolveKey(name) \in Reports
<1>1. \A q \in ModifierNames : q[1] \in Modifiers
  BY DEF ModifierNames, Modifiers
<1>2. \A name : Named(name, ModifierNames) \subseteq Modifiers
  BY <1>1 DEF Named
<1>3. \A name : {CodeToUsage[k] : k \in Named(name, KeyNames)} \subseteq 4..115
  BY NamedCodes, CodeUsages
<1>4. \A name : name \in DOMAIN CodeToUsage => CodeToUsage[name] \in 4..115
  BY CodeUsages
<1>5. \A c \in DOMAIN CharToKeystroke : CharToKeystroke[c][2] \in 4..115
  BY StrokePrints
<1>6. NoKey \in Reports
  BY DEF NoKey, Reports
<1> SUFFICES ASSUME NEW name PROVE ResolveKey(name) \in Reports
  OBVIOUS
<1>7. \A mods \in SUBSET Modifiers, keys \in SUBSET (4..115) : [mods |-> mods, keys |-> keys] \in Reports
  BY DEF Reports
<1> DEFINE mods == Named(name, ModifierNames)
           codes == Named(name, KeyNames)
<1>8. mods \in SUBSET Modifiers /\ {CodeToUsage[k] : k \in codes} \in SUBSET (4..115)
  BY <1>2, <1>3
<1>9. \/ ResolveKey(name) = [mods |-> mods, keys |-> {}]
      \/ name \in DOMAIN CodeToUsage /\ ResolveKey(name) = [mods |-> {}, keys |-> {CodeToUsage[name]}]
      \/ ResolveKey(name) = [mods |-> {}, keys |-> {CodeToUsage[k] : k \in codes}]
      \/ /\ Unshifted(name) \in DOMAIN CharToKeystroke
         /\ ResolveKey(name) = [mods |-> {}, keys |-> {CharToKeystroke[Unshifted(name)][2]}]
      \/ ResolveKey(name) = NoKey
  BY DEF ResolveKey
<1> HIDE DEF mods, codes
<1> QED BY <1>4, <1>5, <1>6, <1>7, <1>8, <1>9

\* The characters of a text that are typed.
LEMMA TypeableSeq ==
  ASSUME NEW text \in Seq(Sample)
  PROVE  Typeable(text) \in Seq(ToSet(Typeable(text)))
<1> DEFINE kept == {i \in DOMAIN text : text[i] # "\r"}
           typed == Typeable(text)
<1>1. IsFiniteSet(kept)
  <2>1. IsFiniteSet(1..Len(text)) /\ kept \subseteq 1..Len(text)
    BY FS_Interval
  <2> QED BY <2>1, FS_Subset
<1>2. Cardinality(kept) \in Nat
  BY <1>1, FS_CardinalityType
<1>3. typed = [k \in 1..Cardinality(kept) |-> text[CHOOSE i \in kept : Cardinality({j \in kept : j <= i}) = k]]
  BY DEF Typeable
<1>4. DOMAIN typed = 1..Cardinality(kept) /\ \A k \in 1..Cardinality(kept) : typed[k] \in ToSet(typed)
  BY <1>3 DEF ToSet
<1>5. typed = [k \in 1..Cardinality(kept) |-> typed[k]]
  BY <1>3, <1>4
<1> HIDE DEF kept, typed
<1>6. typed \in [1..Cardinality(kept) -> ToSet(typed)]
  BY <1>4, <1>5
<1>7. typed \in Seq(ToSet(typed))
  BY <1>2, <1>6
<1> QED BY <1>7 DEF typed

\* What presses the key of a character.
Press(c) == Report(CharToKeystroke[c][1], {CharToKeystroke[c][2]})

\* The steps of a text: its characters in order, each pressed and released.
LEMMA TextPlan ==
  ASSUME NEW text \in Seq(Sample), AllTypeable(text)
  PROVE  LET typed == Typeable(text)
             plan == TextToMacroSteps(text)
         IN  /\ typed \in Seq(DOMAIN CharToKeystroke)
             /\ plan \in Seq(Reports) /\ Len(plan) = 2 * Len(typed)
             /\ \A i \in 1..Len(typed) : plan[2 * i - 1] = Press(typed[i]) /\ plan[2 * i] = Released
<1> DEFINE typed == Typeable(text)
           plan == TextToMacroSteps(text)
           n == Len(typed)
           at(k) == (k + 1) \div 2
           Step(k) == IF (k + 1) % 2 = 0 THEN Press(typed[at(k)]) ELSE Released
<1>1. typed \in Seq(DOMAIN CharToKeystroke) /\ n \in Nat
  <2>1. typed \in Seq(ToSet(typed))
    BY TypeableSeq
  <2>2. ToSet(typed) \subseteq DOMAIN CharToKeystroke
    BY DEF AllTypeable
  <2> HIDE DEF typed
  <2> QED BY <2>1, <2>2
<1>2. plan = [k \in 1..(2 * n) |-> PressAndRelease(CharToKeystroke[typed[(k + 1) \div 2]][1],
                {CharToKeystroke[typed[(k + 1) \div 2]][2]})[((k + 1) % 2) + 1]]
  BY DEF TextToMacroSteps, AllTypeable
<1>3. \A c : PressAndRelease(CharToKeystroke[c][1], {CharToKeystroke[c][2]}) = <<Press(c), Released>>
  BY DEF PressAndRelease, Press
<1> HIDE DEF typed, plan
<1>4. \A k \in 1..(2 * n) : (k + 1) % 2 \in {0, 1} /\ at(k) \in 1..n
  BY <1>1
<1>5. plan = [k \in 1..(2 * n) |-> <<Press(typed[at(k)]), Released>>[((k + 1) % 2) + 1]]
  BY <1>2, <1>3
<1>6. \A k \in 1..(2 * n) : <<Press(typed[at(k)]), Released>>[((k + 1) % 2) + 1] = Step(k)
  BY <1>4
<1> HIDE DEF n
<1>7. DOMAIN plan = 1..(2 * n) /\ \A k \in 1..(2 * n) : plan[k] = Step(k)
  BY <1>5, <1>6
<1>8. \A k \in 1..(2 * n) : Step(k) \in Reports
  <2>1. \A c \in DOMAIN CharToKeystroke : Press(c) \in Reports
    BY StrokePrints DEF Press
  <2>2. \A k \in 1..(2 * n) : typed[at(k)] \in DOMAIN CharToKeystroke
    BY <1>1, <1>4 DEF n
  <2> QED BY <2>1, <2>2, ReleasePrintsNothing
<1>9. plan \in Seq(Reports) /\ Len(plan) = 2 * n
  <2>1. plan = [k \in 1..(2 * n) |-> plan[k]]
    BY <1>5
  <2>2. plan \in [1..(2 * n) -> Reports] /\ 2 * n \in Nat
    BY <1>1, <1>7, <1>8, <2>1
  <2> QED BY <2>2
<1>10. ASSUME NEW i \in 1..n PROVE plan[2 * i - 1] = Press(typed[i]) /\ plan[2 * i] = Released
  <2>1. 2 * i - 1 \in 1..(2 * n) /\ 2 * i \in 1..(2 * n)
    BY <1>1
  <2>2. at(2 * i - 1) = i /\ (2 * i - 1 + 1) % 2 = 0 /\ (2 * i + 1) % 2 = 1
    BY <1>1
  <2> QED BY <1>7, <2>1, <2>2
<1> QED BY <1>1, <1>9, <1>10 DEF typed, plan, n

\* A text that cannot be typed has no steps.
LEMMA TextRefused == \A text : ~AllTypeable(text) => TextToMacroSteps(text) = << >>
  BY DEF AllTypeable, TextToMacroSteps

\* There are finitely many usages.
LEMMA UsagesFinite == IsFiniteSet(4..115)
<1>1. \A a, b \in Int : IsFiniteSet(a..b)
  BY FS_Interval
<1>2. PICK a, b \in Int : a = 4 /\ b = 115
  OBVIOUS
<1> QED BY <1>1, <1>2

\* The steps of a combination: one report that holds all of it and its release, or none, and why.
LEMMA ComboPlan ==
  ASSUME NEW names \in Seq(Tokens)
  PROVE  LET plan == ComboToMacroSteps(names)
             keys == UNION {ResolveKey(n).keys : n \in ToSet(names)}
         IN  /\ plan \in Seq(Reports)
             /\ \/ plan = << >> /\ (names = << >> \/ NoKey \in {ResolveKey(n) : n \in ToSet(names)}
                                    \/ Cardinality(keys) > BufferSize)
                \/ \E r \in Reports :
                     /\ plan = <<r, Released>> /\ r # Released /\ Cardinality(r.keys) <= BufferSize
                     /\ \A n \in ToSet(names) : ResolveKey(n).mods \subseteq r.mods /\ ResolveKey(n).keys \subseteq r.keys
<1> DEFINE all == {ResolveKey(n) : n \in ToSet(names)}
           keys == UNION {q.keys : q \in all}
           mods == UNION {q.mods : q \in all}
           plan == ComboToMacroSteps(names)
           r == Report(mods, keys)
           refused == names = << >> \/ NoKey \in all \/ Cardinality(keys) > BufferSize
<1>1. ParseCombo(names) = IF refused THEN << >> ELSE <<r>>
  BY DEF ParseCombo
<1>2. plan = IF ParseCombo(names) = << >> THEN << >>
             ELSE PressAndRelease(ParseCombo(names)[1].mods, ParseCombo(names)[1].keys)
  BY DEF ComboToMacroSteps
<1>3. \A q \in all : q \in Reports
  BY ResolveTyped
<1>4. \A q \in all : q.mods \subseteq Modifiers /\ q.keys \subseteq 4..115 /\ q = [mods |-> q.mods, keys |-> q.keys]
  BY <1>3 DEF Reports
<1>5. keys = UNION {ResolveKey(n).keys : n \in ToSet(names)}
  OBVIOUS
<1>6. \A n \in ToSet(names) : ResolveKey(n) \in all
  OBVIOUS
<1>7. names # << >> => all # {}
  <2>1. names # << >> => 1 \in DOMAIN names
    OBVIOUS
  <2>2. names # << >> => names[1] \in ToSet(names)
    BY <2>1 DEF ToSet
  <2> QED BY <1>6, <2>2
<1> HIDE DEF all, plan
<1>8. mods \subseteq Modifiers /\ keys \subseteq 4..115 /\ \A q \in all : q.mods \subseteq mods /\ q.keys \subseteq keys
  BY <1>4
<1>9. IsFiniteSet(keys) /\ Cardinality(keys) \in Nat
  <2>1. keys \subseteq 4..115
    BY <1>8
  <2>2. IsFiniteSet(keys)
    BY <2>1, UsagesFinite, FS_Subset
  <2> QED BY <2>2, FS_CardinalityType
<1> HIDE DEF keys, mods
<1>10. r = [mods |-> mods, keys |-> keys] /\ r \in Reports /\ r.mods = mods /\ r.keys = keys
  BY <1>8 DEF Report, Reports
<1>11. CASE refused
  <2>1. plan = << >>
    BY <1>1, <1>2, <1>11
  <2>2. << >> \in Seq(Reports)
    OBVIOUS
  <2> QED BY <1>5, <1>11, <2>1, <2>2 DEF all, plan
<1>12. CASE ~refused
  <2>1. ParseCombo(names) = <<r>> /\ <<r>> # << >> /\ <<r>>[1] = r
    BY <1>1, <1>12
  <2> HIDE DEF r
  <2>2. plan = PressAndRelease(mods, keys)
    BY <1>2, <1>10, <2>1
  <2>3. plan = <<r, Released>>
    BY <2>2 DEF PressAndRelease, r
  <2>4. r # Released
    <3>1. ASSUME r = Released PROVE FALSE
      <4>1. mods = {} /\ keys = {}
        BY <1>10, <3>1 DEF Released, Report
      <4>2. PICK q \in all : TRUE
        BY <1>7, <1>12
      <4>3. q = [mods |-> {}, keys |-> {}]
        BY <1>4, <1>8, <4>1
      <4> QED BY <1>12, <4>3 DEF NoKey
    <3> QED BY <3>1
  <2>5. BufferSize \in Nat
    BY KeymapAssumption
  <2>6. Cardinality(r.keys) <= BufferSize
    BY <1>9, <1>10, <1>12, <2>5
  <2>7. plan \in Seq(Reports)
    BY <1>10, <2>3, ReleasePrintsNothing
  <2>8. \A n \in ToSet(names) : ResolveKey(n).mods \subseteq r.mods /\ ResolveKey(n).keys \subseteq r.keys
    BY <1>6, <1>8, <1>10
  <2> QED BY <1>10, <2>3, <2>4, <2>6, <2>7, <2>8 DEF plan
<1> QED BY <1>11, <1>12

\* The steps of any job are reports with room for their keys.
LEMMA PlanTyped ==
  ASSUME NEW j, j.kind \in {"text", "combo"}, j.kind = "text" => j.names \in Seq(Sample),
         j.kind = "combo" => j.names \in Seq(Tokens)
  PROVE  Plan(j) \in Seq(Reports) /\ \A i \in 1..Len(Plan(j)) : Cardinality(Plan(j)[i].keys) <= BufferSize
<1>1. BufferSize \in Nat /\ 0 <= BufferSize /\ 1 <= BufferSize
  BY KeymapAssumption
<1>2. Cardinality({}) = 0 /\ \A x : Cardinality({x}) = 1
  BY FS_EmptySet, FS_Singleton
<1>3. Cardinality(Released.keys) <= BufferSize
  BY <1>1, <1>2, ReleasePrintsNothing
<1>4. << >> \in Seq(Reports) /\ Len(<< >>) = 0
  OBVIOUS
<1>5. CASE j.kind = "text" /\ ~AllTypeable(j.names)
  <2>1. Plan(j) = << >>
    BY <1>5, TextRefused DEF Plan
  <2> QED BY <1>4, <2>1
<1>6. CASE j.kind = "text" /\ AllTypeable(j.names)
  <2> DEFINE typed == Typeable(j.names)
             plan == TextToMacroSteps(j.names)
  <2>1. /\ typed \in Seq(DOMAIN CharToKeystroke)
        /\ plan \in Seq(Reports) /\ Len(plan) = 2 * Len(typed)
        /\ \A i \in 1..Len(typed) : plan[2 * i - 1] = Press(typed[i]) /\ plan[2 * i] = Released
    BY <1>6, TextPlan
  <2>2. Plan(j) = plan
    BY <1>6 DEF Plan
  <2> HIDE DEF typed, plan
  <2>3. \A c : Cardinality(Press(c).keys) <= BufferSize
    BY <1>1, <1>2 DEF Press, Report
  <2>4. ASSUME NEW i \in 1..Len(plan) PROVE Cardinality(plan[i].keys) <= BufferSize
    <3>1. Len(typed) \in Nat
      BY <2>1
    <3>2. \E k \in 1..Len(typed) : i = 2 * k - 1 \/ i = 2 * k
      <4>1. (i + 1) \div 2 \in 1..Len(typed) /\ (i = 2 * ((i + 1) \div 2) - 1 \/ i = 2 * ((i + 1) \div 2))
        BY <2>1, <3>1
      <4> QED BY <4>1
    <3>3. PICK k \in 1..Len(typed) : i = 2 * k - 1 \/ i = 2 * k
      BY <3>2
    <3>4. plan[i] = Press(typed[k]) \/ plan[i] = Released
      BY <2>1, <3>3
    <3> QED BY <1>3, <2>3, <3>4
  <2> QED BY <2>1, <2>2, <2>4
<1>7. CASE j.kind = "combo"
  <2> DEFINE plan == ComboToMacroSteps(j.names)
  <2>1. Plan(j) = plan
    BY <1>7 DEF Plan
  <2>2. /\ plan \in Seq(Reports)
        /\ plan = << >> \/ \E r \in Reports : plan = <<r, Released>> /\ Cardinality(r.keys) <= BufferSize
    BY <1>7, ComboPlan
  <2> HIDE DEF plan
  <2>3. CASE plan = << >>
    BY <1>4, <2>1, <2>3
  <2>4. CASE \E r \in Reports : plan = <<r, Released>> /\ Cardinality(r.keys) <= BufferSize
    <3>1. PICK r \in Reports : plan = <<r, Released>> /\ Cardinality(r.keys) <= BufferSize
      BY <2>4
    <3>2. Len(plan) = 2 /\ plan[1] = r /\ plan[2] = Released
      BY <3>1
    <3>3. \A i \in 1..2 : i = 1 \/ i = 2
      OBVIOUS
    <3> QED BY <1>3, <2>1, <2>2, <3>1, <3>2, <3>3
  <2> QED BY <2>2, <2>3, <2>4
<1> QED BY <1>5, <1>6, <1>7

\* A bounded list is a list.
LEMMA BoundedIsSeq == \A S, n : BoundedSeq(S, n) \subseteq Seq(S)
<1> SUFFICES ASSUME NEW S, NEW n, NEW s \in BoundedSeq(S, n) PROVE s \in Seq(S)
  OBVIOUS
<1>1. s \in UNION {[1..m -> S] : m \in 0..n}
  BY DEF BoundedSeq, SeqOf
<1>2. PICK m \in 0..n : s \in [1..m -> S]
  BY <1>1
<1> QED BY <1>2

\* It starts before the first step.
LEMMA KeymapIInvInit == KeymapInit => KeymapIInv
<1> SUFFICES ASSUME KeymapInit PROVE KeymapIInv
  OBVIOUS
<1>1. /\ job.kind \in {"text", "combo"} /\ (job.kind = "text" => job.names \in Seq(Sample))
      /\ (job.kind = "combo" => job.names \in Seq(Tokens)) /\ steps = Plan(job)
  <2>1. CASE \E text \in BoundedSeq(Sample, MaxText) :
               job = [kind |-> "text", names |-> text] /\ steps = TextToMacroSteps(text)
    BY <2>1, BoundedIsSeq DEF Plan
  <2>2. CASE \E names \in BoundedSeq(Tokens, MaxTokens) :
               job = [kind |-> "combo", names |-> names] /\ steps = ComboToMacroSteps(names)
    BY <2>2, BoundedIsSeq DEF Plan
  <2> QED BY <2>1, <2>2 DEF KeymapInit
<1>2. Plan(job) \in Seq(Reports)
  BY <1>1, PlanTyped
<1>3. held = Released /\ printed = << >> /\ peak = {}
  BY DEF KeymapInit
<1>4. Played = 0
  BY <1>1, <1>2 DEF Played
<1>5. KeymapTypes
  BY <1>1, <1>2 DEF KeymapTypes
<1>6. PlayedInv
  BY <1>1, <1>2, <1>3, <1>4 DEF PlayedInv
<1>7. PrintedInv
  <2>1. printed \in Seq(DOMAIN CharToKeystroke) /\ Len(printed) = 0
    BY <1>3
  <2> QED BY <1>3, <1>4, <2>1 DEF PrintedInv
<1>8. PeakInv
  BY <1>3, <1>4 DEF PeakInv
<1> QED BY <1>5, <1>6, <1>7, <1>8 DEF KeymapIInv

\* What a step plays is the next of the plan.
LEMMA PlayAdvances ==
  ASSUME KeymapIInv, PlayStep
  PROVE  /\ job' = job /\ Played \in Nat /\ Played < Len(Plan(job)) /\ Plan(job)' = Plan(job) /\ Played' = Played + 1
         /\ Head(steps) = Plan(job)[Played + 1] /\ Len(Plan(job)) \in Nat /\ steps' \in Seq(Reports)
              /\ Len(steps') <= Len(Plan(job))
         /\ \A i \in 1..Len(steps') : steps'[i] = steps[i + 1] /\ i + 1 \in 1..Len(steps)
<1>1. job' = job /\ steps # << >> /\ steps' = Tail(steps)
  BY DEF PlayStep
<1>2. Plan(job)' = Plan(job)
  BY <1>1 DEF Plan
<1>3. steps \in Seq(Reports) /\ Plan(job) \in Seq(Reports) /\ Len(steps) <= Len(Plan(job))
  BY DEF KeymapIInv, KeymapTypes
<1>4. \A i \in 1..Len(steps) : steps[i] = Plan(job)[Played + i]
  BY DEF KeymapIInv, PlayedInv
<1>5. /\ Len(steps) \in Nat /\ Len(steps) >= 1 /\ Len(steps') = Len(steps) - 1 /\ steps' \in Seq(Reports)
      /\ Head(steps) = steps[1] /\ \A i \in 1..Len(steps') : steps'[i] = steps[i + 1]
  BY <1>1, <1>3
<1>6. Len(Plan(job)) \in Nat
  BY <1>3
<1>7. Played = Len(Plan(job)) - Len(steps) /\ Played' = Len(Plan(job)) - Len(steps')
  BY <1>2 DEF Played
<1> HIDE DEF Played, Plan
<1>8. Head(steps) = Plan(job)[Played + 1]
  BY <1>4, <1>5
<1>9. \A i \in 1..Len(steps') : i + 1 \in 1..Len(steps)
  BY <1>5
<1>10. Played \in Nat /\ Played < Len(Plan(job)) /\ Played' = Played + 1 /\ Len(steps') <= Len(Plan(job))
  BY <1>3, <1>5, <1>6, <1>7
<1> QED BY <1>1, <1>2, <1>5, <1>6, <1>8, <1>9, <1>10

\* The characters a text has printed, after a press and after a release.
LEMMA PlayPrints ==
  ASSUME KeymapIInv, PlayStep, job.kind = "text", AllTypeable(job.names)
  PROVE  PrintedInv'
<1> DEFINE typed == Typeable(job.names)
           plan == Plan(job)
           p == Played
<1>1. /\ job' = job /\ p \in Nat /\ p < Len(plan) /\ Played' = p + 1 /\ Head(steps) = plan[p + 1]
  BY PlayAdvances
<1>2. job.names \in Seq(Sample) /\ plan = TextToMacroSteps(job.names)
  BY DEF KeymapIInv, KeymapTypes, Plan
<1>3. /\ typed \in Seq(DOMAIN CharToKeystroke) /\ Len(plan) = 2 * Len(typed) /\ Len(typed) \in Nat
      /\ \A i \in 1..Len(typed) : plan[2 * i - 1] = Press(typed[i]) /\ plan[2 * i] = Released
  BY <1>2, TextPlan
<1>4. /\ printed \in Seq(DOMAIN CharToKeystroke) /\ Len(printed) = (p + 1) \div 2
      /\ \A i \in 1..Len(printed) : printed[i] = typed[i]
  BY DEF KeymapIInv, PrintedInv
<1>5. held = IF p = 0 THEN Released ELSE plan[p]
  BY DEF KeymapIInv, PlayedInv
<1>6. printed' = printed \o HostPrints(held, Head(steps))
  BY DEF PlayStep
<1> DEFINE G(s) == /\ s \in Seq(DOMAIN CharToKeystroke) /\ Len(s) = (p + 1 + 1) \div 2
                   /\ \A i \in 1..Len(s) : s[i] = typed[i]
<1>7. SUFFICES G(printed')
  BY <1>1 DEF PrintedInv
<1> HIDE DEF typed, plan, p
<1>8. CASE p % 2 = 0
  <2> DEFINE k == p \div 2 + 1
  <2>1. k \in 1..Len(typed) /\ p + 1 = 2 * k - 1 /\ (p # 0 => k - 1 \in 1..Len(typed) /\ p = 2 * (k - 1))
    BY <1>1, <1>3, <1>8
  <2>2. (p + 1) \div 2 = k - 1 /\ (p + 1 + 1) \div 2 = k
    BY <1>1, <1>8
  <2> HIDE DEF k
  <2>3. Head(steps) = Press(typed[k])
    BY <1>1, <1>3, <2>1
  <2>4. held = Released
    BY <1>3, <1>5, <2>1
  <2>5. typed[k] \in DOMAIN CharToKeystroke
    BY <1>3, <2>1
  <2>6. HostPrints(held, Head(steps)) = <<typed[k]>>
    <3> DEFINE c == typed[k]
    <3>1. c \in DOMAIN CharToKeystroke
      BY <2>5
    <3> HIDE DEF c
    <3>2. HostPrints(Released, Report(CharToKeystroke[c][1], {CharToKeystroke[c][2]})) = <<c>>
      BY <3>1, StrokePrints
    <3>3. HostPrints(Released, Press(c)) = <<c>>
      BY <3>2 DEF Press
    <3> QED BY <2>3, <2>4, <3>3 DEF c
  <2>7. printed' = Append(printed, typed[k])
    BY <1>4, <1>6, <2>6
  <2>8. Len(printed) = k - 1 /\ k \in Nat
    BY <1>3, <1>4, <2>1, <2>2
  <2>9. printed' \in Seq(DOMAIN CharToKeystroke) /\ Len(printed') = k /\ \A i \in 1..k : printed'[i] = typed[i]
    BY <1>4, <2>5, <2>7, <2>8
  <2> QED BY <2>2, <2>9
<1>9. CASE p % 2 = 1
  <2> DEFINE k == (p + 1) \div 2
  <2>1. k \in 1..Len(typed) /\ p + 1 = 2 * k /\ (p + 1 + 1) \div 2 = k
    BY <1>1, <1>3, <1>9
  <2> HIDE DEF k
  <2>2. Head(steps) = Released
    BY <1>1, <1>3, <2>1
  <2>3. HostPrints(held, Head(steps)) = << >>
    BY <2>2, ReleasePrintsNothing
  <2>4. printed' = printed
    BY <1>4, <1>6, <2>3
  <2>5. Len(printed) = k
    BY <1>4 DEF k
  <2> QED BY <1>4, <2>1, <2>4, <2>5
<1>10. p % 2 = 0 \/ p % 2 = 1
  BY <1>1
<1> QED BY <1>8, <1>9, <1>10

\* Every step of the play keeps it.
LEMMA KeymapIInvNext == KeymapIInv /\ [KeymapNext]_keymapVars => KeymapIInv'
<1> SUFFICES ASSUME KeymapIInv, [KeymapNext]_keymapVars PROVE KeymapIInv'
  OBVIOUS
<1>1. CASE UNCHANGED keymapVars
  BY <1>1 DEF keymapVars, KeymapIInv, KeymapTypes, PlayedInv, PrintedInv, PeakInv, Plan, Played, AllTypeable
<1>2. CASE PlayStep
  <2>1. /\ job' = job /\ Played \in Nat /\ Played < Len(Plan(job)) /\ Plan(job)' = Plan(job) /\ Played' = Played + 1
        /\ Head(steps) = Plan(job)[Played + 1] /\ Len(Plan(job)) \in Nat /\ steps' \in Seq(Reports)
             /\ Len(steps') <= Len(Plan(job))
        /\ \A i \in 1..Len(steps') : steps'[i] = steps[i + 1] /\ i + 1 \in 1..Len(steps)
    BY <1>2, PlayAdvances
  <2>2. held' = Head(steps) /\ peak' = peak \cup ({Head(steps)} \ {Released})
    BY <1>2 DEF PlayStep
  <2>3. KeymapTypes'
    BY <2>1 DEF KeymapIInv, KeymapTypes
  <2>4. PlayedInv'
    <3>1. \A i \in 1..Len(steps) : steps[i] = Plan(job)[Played + i]
      BY DEF KeymapIInv, PlayedInv
    <3>2. held' = Plan(job)[Played + 1] /\ Played + 1 # 0
      BY <2>1, <2>2
    <3> HIDE DEF Played, Plan
    <3>3. Len(steps') \in Nat
      BY <2>1
    <3>4. \A i \in 1..Len(steps') : steps'[i] = Plan(job)[Played + 1 + i]
      <4> SUFFICES ASSUME NEW i \in 1..Len(steps') PROVE steps'[i] = Plan(job)[Played + 1 + i]
        OBVIOUS
      <4>1. steps'[i] = Plan(job)[Played + (i + 1)]
        BY <2>1, <3>1
      <4>2. Played + (i + 1) = Played + 1 + i
        BY <2>1, <3>3
      <4> QED BY <4>1, <4>2
    <3> QED BY <2>1, <3>2, <3>4 DEF PlayedInv
  <2>5. PrintedInv'
    <3>1. CASE job.kind = "text" /\ AllTypeable(job.names)
      BY <1>2, <3>1, PlayPrints
    <3>2. CASE job.kind = "text" /\ ~AllTypeable(job.names)
      <4>1. Plan(job) = << >>
        BY <3>2, TextRefused DEF Plan
      <4>2. Len(Plan(job)) = 0
        BY <4>1
      <4> QED BY <2>1, <4>2
    <3>3. CASE job.kind # "text"
      BY <2>1, <3>3 DEF PrintedInv
    <3> QED BY <3>1, <3>2, <3>3
  <2>6. PeakInv'
    <3>1. CASE job.kind = "combo"
      <4>1. peak = {Plan(job)[i] : i \in 1..Played} \ {Released}
        BY <3>1 DEF KeymapIInv, PeakInv
      <4>2. 1..(Played + 1) = (1..Played) \cup {Played + 1}
        BY <2>1
      <4> HIDE DEF Played, Plan
      <4>3. peak' = {Plan(job)[i] : i \in 1..(Played + 1)} \ {Released}
        BY <2>1, <2>2, <4>1, <4>2
      <4> QED BY <2>1, <4>3 DEF PeakInv
    <3>2. CASE job.kind # "combo"
      BY <2>1, <3>2 DEF PeakInv
    <3> QED BY <3>1, <3>2
  <2> QED BY <2>3, <2>4, <2>5, <2>6 DEF KeymapIInv
<1> QED BY <1>1, <1>2 DEF KeymapNext

\* With nothing left to play, the whole plan has been seen.
LEMMA KeymapIInvDone ==
  ASSUME KeymapIInv, steps = << >>
  PROVE  Played = Len(Plan(job)) /\ Len(Plan(job)) \in Nat
<1>1. Plan(job) \in Seq(Reports)
  BY DEF KeymapIInv, KeymapTypes
<1> QED BY <1>1 DEF Played

\* A text that has been played has arrived.
LEMMA TextIsWhole == KeymapIInv => TextArrives
<1> SUFFICES ASSUME KeymapIInv, job.kind = "text", steps = << >>
             PROVE  /\ held = Released
                    /\ printed = IF AllTypeable(job.names) THEN Typeable(job.names) ELSE << >>
  BY DEF TextArrives, AllTypeable
<1>1. Played = Len(Plan(job)) /\ Len(Plan(job)) \in Nat
  BY KeymapIInvDone
<1>2. held = IF Played = 0 THEN Released ELSE Plan(job)[Played]
  BY DEF KeymapIInv, PlayedInv
<1>3. job.names \in Seq(Sample)
  BY DEF KeymapIInv, KeymapTypes
<1>4. CASE ~AllTypeable(job.names)
  <2>1. Plan(job) = << >> /\ Len(<< >>) = 0
    BY <1>4, TextRefused DEF Plan
  <2>2. held = Released
    BY <1>1, <1>2, <2>1
  <2>3. printed = << >>
    BY <1>4 DEF KeymapIInv, PrintedInv
  <2> QED BY <1>4, <2>2, <2>3
<1>5. CASE AllTypeable(job.names)
  <2> DEFINE typed == Typeable(job.names)
             plan == Plan(job)
             n == Len(typed)
  <2>1. /\ typed \in Seq(DOMAIN CharToKeystroke) /\ Len(plan) = 2 * n /\ n \in Nat
        /\ \A i \in 1..n : plan[2 * i] = Released
    BY <1>3, <1>5, TextPlan DEF Plan
  <2>2. /\ printed \in Seq(DOMAIN CharToKeystroke) /\ Len(printed) = (Played + 1) \div 2
        /\ \A i \in 1..Len(printed) : printed[i] = typed[i]
    BY <1>5 DEF KeymapIInv, PrintedInv
  <2> HIDE DEF typed, plan, n
  <2>3. held = Released
    <3>1. Played = 0 \/ (n \in 1..n /\ Played = 2 * n)
      BY <1>1, <2>1 DEF plan
    <3> QED BY <1>2, <2>1, <3>1 DEF plan
  <2>4. Len(printed) = n
    BY <1>1, <2>1, <2>2 DEF plan
  <2>5. printed = typed
    BY <2>1, <2>2, <2>4 DEF n
  <2> QED BY <1>5, <2>3, <2>5 DEF typed
<1> QED BY <1>4, <1>5

\* A combination that has been played has arrived.
LEMMA ComboIsWhole == KeymapIInv => ComboArrives
<1> SUFFICES ASSUME KeymapIInv, job.kind = "combo", steps = << >> PROVE ComboArrives
  BY DEF ComboArrives
<1> DEFINE plan == Plan(job)
           refused == job.names = << >> \/ NoKey \in {ResolveKey(n) : n \in ToSet(job.names)}
                      \/ Cardinality(UNION {ResolveKey(n).keys : n \in ToSet(job.names)}) > BufferSize
           Covers(r) ==
             \A n \in ToSet(job.names) : ResolveKey(n).mods \subseteq r.mods /\ ResolveKey(n).keys \subseteq r.keys
<1>1. Played = Len(plan) /\ Len(plan) \in Nat
  BY KeymapIInvDone
<1>2. held = IF Played = 0 THEN Released ELSE plan[Played]
  BY DEF KeymapIInv, PlayedInv
<1>3. job.names \in Seq(Tokens)
  BY DEF KeymapIInv, KeymapTypes
<1>4. peak = {plan[i] : i \in 1..Played} \ {Released}
  BY DEF KeymapIInv, PeakInv
<1>5. \/ plan = << >> /\ refused
      \/ \E r \in Reports : plan = <<r, Released>> /\ r # Released /\ Covers(r)
  BY <1>3, ComboPlan DEF Plan
<1> HIDE DEF plan, refused, Covers
<1>6. CASE plan = << >> /\ refused
  <2>1. Played = 0
    BY <1>1, <1>6
  <2>2. held = Released /\ peak = {}
    BY <1>2, <1>4, <2>1
  <2> QED BY <1>6, <2>2 DEF ComboArrives, refused
<1>7. CASE \E r \in Reports : plan = <<r, Released>> /\ r # Released /\ Covers(r)
  <2>1. PICK r \in Reports : plan = <<r, Released>> /\ r # Released /\ Covers(r)
    BY <1>7
  <2>2. Played = 2 /\ plan[1] = r /\ plan[2] = Released
    BY <1>1, <2>1
  <2>3. 1..2 = {1, 2}
    OBVIOUS
  <2>4. peak = {r} /\ held = Released
    BY <1>2, <1>4, <2>1, <2>2, <2>3
  <2>5. \E s \in peak : peak = {s} /\ Covers(s)
    BY <2>1, <2>4
  <2> QED BY <2>4, <2>5 DEF ComboArrives, Covers
<1> QED BY <1>5, <1>6, <1>7

\* It implies that what is played arrives.
LEMMA KeymapIInvImplies == KeymapIInv => KeymapInv
<1> SUFFICES ASSUME KeymapIInv PROVE KeymapTypeOK
  BY TextIsWhole, ComboIsWhole DEF KeymapInv
<1>1. \A i \in 1..Len(Plan(job)) : Cardinality(Plan(job)[i].keys) <= BufferSize
  BY PlanTyped DEF KeymapIInv, KeymapTypes
<1>2. /\ job.kind \in {"text", "combo"} /\ Plan(job) \in Seq(Reports) /\ steps \in Seq(Reports)
      /\ Len(steps) <= Len(Plan(job))
  BY DEF KeymapIInv, KeymapTypes
<1>3. \A i \in 1..Len(steps) : steps[i] = Plan(job)[Played + i]
  BY DEF KeymapIInv, PlayedInv
<1>4. \A i \in 1..Len(steps) : Played + i \in 1..Len(Plan(job))
  BY <1>2 DEF Played
<1>5. DOMAIN steps = 1..Len(steps)
  BY <1>2
<1> HIDE DEF Plan, Played
<1> QED BY <1>1, <1>2, <1>3, <1>4, <1>5 DEF KeymapTypeOK

\* Every text and every combination, of any length and of any names, arrives as it was given or not at
\* all: nothing is left down, and a report has room for what it holds (keymap.rs).
THEOREM KeymapInvHolds == KeymapSpec => []KeymapInv
<1>1. KeymapInit => KeymapIInv
  BY KeymapIInvInit
<1>2. KeymapIInv /\ [KeymapNext]_keymapVars => KeymapIInv'
  BY KeymapIInvNext
<1>3. KeymapIInv => KeymapInv
  BY KeymapIInvImplies
<1> QED BY <1>1, <1>2, <1>3, PTL DEF KeymapSpec

\* Keys, buttons, texts and combinations together: what the user types, clicks or writes reaches the host as
\* it was meant, in any interleaving of the page, the connection and the host (hid/mod.rs, keymap.rs).
THEOREM ClientInvHolds == MCSpec => []ClientInv
<1> DEFINE mcVars == <<focus, accessVars, clientVars>>
<1>1. MCInit => InputIInv /\ KeymapIInv
  <2>1. MCInit => InputInit /\ KeymapInit
    BY Zenon DEF MCInit
  <2> QED BY <2>1, InputInitially, KeymapIInvInit
<1>2. InputIInv /\ KeymapIInv /\ [MCNext]_mcVars => InputIInv' /\ KeymapIInv'
  <2>1. [MCNext]_mcVars => [InputNext]_inputVars
    BY DEF MCNext, clientVars, InputNext
  <2>2. [MCNext]_mcVars => [KeymapNext]_keymapVars
    BY DEF MCNext, clientVars
  <2> QED BY <2>1, <2>2, InputStep, KeymapIInvNext
<1>3. InputIInv /\ KeymapIInv => ClientInv
  BY InputIInvImplies, KeymapIInvImplies DEF ClientInv
<1> QED BY <1>1, <1>2, <1>3, PTL DEF MCSpec

=============================================================================
