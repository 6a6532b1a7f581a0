----------------------------- MODULE SignInProofs -----------------------------
(***************************************************************************)
(* Who a browser is signed in as, for how long, and that the authorization *)
(* server implements credentials of single use.                            *)
(***************************************************************************)
EXTENDS OAuthProofs

\* A browser's attempt is its own, and so is that of a callback under way.
Attempts ==
  /\ \A b \in Browsers : browser[b].nonce # None => attempt[browser[b].nonce] = b
  /\ \A h \in Handlers : handler[h].pc \in {"signing in", "opening"} =>
       handler[h].nonce \in Nonces /\ attempt[handler[h].nonce] = handler[h].browser
  /\ \A h \in Handlers : handler[h].pc = "opening" => IsAllowed(handler[h].user)

\* A session that a cookie names was opened, and one that was closed stays closed.
Closings ==
  /\ \A s \in Sessions : session[s].stage # "redeemed"
  /\ \A b \in Browsers : browser[b].session # None => session[browser[b].session].stage # "free"
  /\ \A h \in Handlers : handler[h].pc = "closing" => session[handler[h].session].stage # "free"
  /\ \A h \in Handlers : handler[h].pc = "cleared" => session[handler[h].session].stage = "dead"

SessionInv == Attempts /\ Closings

USE DEF world, browsing, stores, observed

-----------------------------------------------------------------------------

LEMMA InitSessions == Init => SessionInv
<1> SUFFICES ASSUME Init PROVE SessionInv OBVIOUS
<1>1. \A h \in Handlers : handler[h].pc = "idle" BY DEF Init, Idle
<1>2. \A b \in Browsers : browser[b].nonce = None /\ browser[b].session = None BY DEF Init
<1>3. \A s \in Sessions : session[s].stage = "free" BY DEF Init
<1> QED BY <1>1, <1>2, <1>3 DEF SessionInv, Attempts, Closings

LEMMA ElsewhereSessions ==
  ASSUME Types, SessionInv, NEW h \in Handlers, NEW c \in Elsewhere, Moves(h, c),
         UNCHANGED <<session, browser, attempt>>
  PROVE  SessionInv'
<1>1. \A g \in Handlers : /\ g # h => handler'[g] = handler[g]
                          /\ g = h => handler'[g] \in Elsewhere
  BY DEF Moves
<1> QED BY <1>1 DEF SessionInv, Attempts, Closings, Elsewhere

LEMMA StandingSessions ==
  ASSUME Types, SessionInv, UNCHANGED <<session, browser, attempt, handler>>
  PROVE  SessionInv'
BY DEF SessionInv, Attempts, Closings

\* The steps of a handler that signs nobody in or out.
ElsewhereStep(h) ==
  \/ CheckSession(h) \/ ShowConsent(h) \/ Fails(h)
  \/ \E b \in Browsers, c \in Clients : Consent(h, b, c)
  \/ \E b \in Browsers, c \in Clients, redirect \in Redirects : AskConsent(h, b, c, redirect)
  \/ \E c \in Clients, k \in Codes, verified \in BOOLEAN : Exchange(h, c, k, verified)
  \/ \E c \in Clients, j \in Refreshes : Refresh(h, c, j) \/ Revoke(h, c, j)
  \/ Authorize(h) \/ Challenge(h) \/ Consume(h) \/ Rotate(h) \/ Mint(h) \/ Unlist(h)

LEMMA ElsewhereSteps ==
  ASSUME Types, NEW h \in Handlers, ElsewhereStep(h)
  PROVE  (\E c \in Elsewhere : Moves(h, c)) /\ UNCHANGED <<session, browser, attempt>>
<1>1. \E c \in Elsewhere : Moves(h, c)
  BY ConsentTyped, PresentingTyped, CodesTyped, RefreshTyped DEF ElsewhereStep
<1>2. UNCHANGED <<session, browser, attempt>>
  BY DEF ElsewhereStep, CheckSession, ShowConsent, Fails, Consent, AskConsent, Exchange, Refresh, Revoke,
         Authorize, Challenge, Consume, Rotate, Mint, Unlist
<1> QED BY <1>1, <1>2

\* What the steps that sign in or out need to know of the cookies.
LEMMA KnownCookies ==
  ASSUME Types
  PROVE  /\ \A b \in Browsers : /\ browser[b].nonce \in Nonces \cup {None}
                                /\ browser[b].session \in Sessions \cup {None}
         /\ \A n \in Nonces : attempt[n] \in Browsers \cup {None}
         /\ \A h \in Handlers : /\ handler[h].pc \in Facing => handler[h].browser \in Browsers
                                /\ handler[h].pc \in LookingUp => handler[h].session \in Sessions
         /\ None \notin Browsers
BY OAuthAssumption DEF Types, TypeOK, Proper

LEMMA StartSignInSessions ==
  ASSUME Types, SessionInv, NEW b \in Browsers, NEW n \in Nonces, NEW c \in Clients,
         NEW redirect \in Redirects, StartSignIn(b, n, c, redirect)
  PROVE  SessionInv'
<1>1. /\ attempt[n] = None /\ UNCHANGED <<session, handler>>
      /\ attempt' = [attempt EXCEPT ![n] = b] /\ browser' = [browser EXCEPT ![b].nonce = n]
  BY DEF StartSignIn
<1>2. attempt'[n] = b /\ \A m \in Nonces : attempt[m] # None => attempt'[m] = attempt[m]
  BY <1>1 DEF Types, TypeOK
<1>3. \A a \in Browsers : /\ browser'[a].session = browser[a].session
                          /\ a # b => browser'[a] = browser[a]
                          /\ a = b => browser'[a].nonce = n
  BY <1>1, CookiesTyped DEF Cookies
<1>4. Attempts'
  <2>1. \A a \in Browsers : browser'[a].nonce # None => attempt'[browser'[a].nonce] = a
    <3> SUFFICES ASSUME NEW a \in Browsers, browser'[a].nonce # None PROVE attempt'[browser'[a].nonce] = a
      OBVIOUS
    <3>1. CASE a = b BY <3>1, <1>2, <1>3
    <3>2. CASE a # b
      <4>1. browser'[a].nonce = browser[a].nonce /\ browser[a].nonce # None BY <3>2, <1>3
      <4>2. browser[a].nonce \in Nonces /\ attempt[browser[a].nonce] = a
        BY <4>1, KnownCookies DEF SessionInv, Attempts
      <4>3. a # None BY KnownCookies
      <4> QED BY <4>1, <4>2, <4>3, <1>2
    <3> QED BY <3>1, <3>2
  <2>2. ASSUME NEW h \in Handlers, handler[h].pc \in {"signing in", "opening"}
        PROVE  handler[h].nonce \in Nonces /\ attempt'[handler[h].nonce] = handler[h].browser
    <3>1. handler[h].nonce \in Nonces /\ attempt[handler[h].nonce] = handler[h].browser
      BY <2>2 DEF SessionInv, Attempts
    <3>2. handler[h].browser # None BY <2>2, KnownCookies DEF Facing
    <3> QED BY <3>1, <3>2, <1>2
  <2> QED BY <1>1, <2>1, <2>2 DEF SessionInv, Attempts
<1>5. Closings' BY <1>1, <1>3 DEF SessionInv, Closings
<1> QED BY <1>4, <1>5 DEF SessionInv

\* Where a handler that signs in or out goes.
LEMMA SigningSteps ==
  ASSUME Types, NEW h \in Handlers
  PROVE  /\ \A b \in Browsers, n \in Nonces : Callback(h, b, n) =>
              /\ handler'[h].browser = b /\ handler'[h].nonce = n
              /\ handler'[h].pc = IF StateVerified(b, n) THEN "signing in" ELSE "rejecting"
         /\ SignIn(h) =>
              /\ handler'[h].browser = handler[h].browser /\ handler'[h].nonce = handler[h].nonce
              /\ \/ handler'[h].pc = "opening" /\ IsAllowed(handler'[h].user)
                 \/ handler'[h].pc = "rejecting"
         /\ \A b \in Browsers : Logout(h, b) =>
              \/ handler'[h].pc = "clearing"
              \/ /\ handler'[h].pc = "closing" /\ handler'[h].session = browser[b].session
                 /\ browser[b].session # None
         /\ CloseSession(h) =>
              /\ handler'[h].session = handler[h].session
              /\ handler'[h].pc \in {"cleared", "clearing"}
              /\ handler'[h].pc = "cleared" =>
                   session' = [session EXCEPT ![handler[h].session].stage = "dead"]
         /\ Goto(h, "rejecting") => handler'[h].pc = "rejecting"
         /\ Done(h) => handler'[h].pc = "idle"
<1>1. handler \in [Handlers -> Handling] BY DEF Types, TypeOK
<1>2. \A c \in Handling, pc \in Steps :
        LET d == [c EXCEPT !.pc = pc] IN d.pc = pc /\ d.session = c.session
                                         /\ d.browser = c.browser /\ d.nonce = c.nonce
  BY DEF Handling
<1>3. \A c \in Handling, pc \in Steps, u \in Users :
        LET d == [c EXCEPT !.pc = pc, !.user = u]
        IN  d.pc = pc /\ d.user = u /\ d.browser = c.browser /\ d.nonce = c.nonce
  BY DEF Handling
<1>4. \A pc \in Steps : Goto(h, pc) =>
        /\ handler'[h].pc = pc /\ handler'[h].session = handler[h].session
        /\ handler'[h].browser = handler[h].browser /\ handler'[h].nonce = handler[h].nonce
  BY <1>1, <1>2 DEF Goto, Handling
<1>5. {"opening", "rejecting", "cleared", "clearing", "idle"} \subseteq Steps BY DEF Steps
<1>6. \A b \in Browsers, n \in Nonces : Callback(h, b, n) =>
        /\ handler'[h].browser = b /\ handler'[h].nonce = n
        /\ handler'[h].pc = IF StateVerified(b, n) THEN "signing in" ELSE "rejecting"
  BY <1>1 DEF Callback, Become, Idle
<1>7. SignIn(h) =>
        /\ handler'[h].browser = handler[h].browser /\ handler'[h].nonce = handler[h].nonce
        /\ \/ handler'[h].pc = "opening" /\ IsAllowed(handler'[h].user)
           \/ handler'[h].pc = "rejecting"
  <2>1. ASSUME NEW u \in Users, IsAllowed(u), Become(h, [handler[h] EXCEPT !.pc = "opening", !.user = u])
        PROVE  /\ handler'[h].browser = handler[h].browser /\ handler'[h].nonce = handler[h].nonce
               /\ handler'[h].pc = "opening" /\ handler'[h].user = u
    <3>1. handler'[h] = [handler[h] EXCEPT !.pc = "opening", !.user = u] /\ handler[h] \in Handling
      BY <1>1, <2>1 DEF Become
    <3> QED BY <3>1, <1>3, <1>5
  <2> QED BY <2>1, <1>4, <1>5 DEF SignIn
<1>8. \A b \in Browsers : Logout(h, b) =>
        \/ handler'[h].pc = "clearing"
        \/ /\ handler'[h].pc = "closing" /\ handler'[h].session = browser[b].session
           /\ browser[b].session # None
  BY <1>1 DEF Logout, Become, Idle
<1>9. CloseSession(h) =>
        /\ handler'[h].session = handler[h].session
        /\ handler'[h].pc \in {"cleared", "clearing"}
        /\ handler'[h].pc = "cleared" =>
             session' = [session EXCEPT ![handler[h].session].stage = "dead"]
  BY <1>4, <1>5 DEF CloseSession
<1>10. Done(h) => handler'[h].pc = "idle" BY <1>1 DEF Done, Become, Idle
<1>11. Goto(h, "rejecting") => handler'[h].pc = "rejecting" BY <1>4, <1>5
<1> QED BY <1>6, <1>7, <1>8, <1>9, <1>10, <1>11

LEMMA SigningInSessions ==
  ASSUME Types, SessionInv, NEW h \in Handlers,
         \/ \E b \in Browsers, n \in Nonces : Callback(h, b, n)
         \/ SignIn(h)
         \/ \E b \in Browsers : Logout(h, b)
  PROVE  SessionInv'
<1>1. PICK c : Moves(h, c) BY SigningInTyped, SigningOutTyped
<1>2. \A g \in Handlers : g # h => handler'[g] = handler[g] BY <1>1 DEF Moves
<1>3. UNCHANGED <<browser, attempt, session>> BY DEF Callback, SignIn, Logout
<1>4. Attempts'
  <2>1. handler'[h].pc \in {"signing in", "opening"} =>
          handler'[h].nonce \in Nonces /\ attempt[handler'[h].nonce] = handler'[h].browser
    <3>1. ASSUME NEW b \in Browsers, NEW n \in Nonces, Callback(h, b, n) PROVE <2>1
      <4>1. /\ handler'[h].browser = b /\ handler'[h].nonce = n
            /\ handler'[h].pc = IF StateVerified(b, n) THEN "signing in" ELSE "rejecting"
        BY <3>1, SigningSteps
      <4>2. StateVerified(b, n) => attempt[n] = b
        BY OAuthAssumption DEF StateVerified, SessionInv, Attempts, Ids
      <4> QED BY <4>1, <4>2
    <3>2. CASE SignIn(h) BY <3>2, SigningSteps DEF SessionInv, Attempts, SignIn, At
    <3>3. ASSUME NEW b \in Browsers, Logout(h, b) PROVE <2>1 BY <3>3, SigningSteps
    <3> QED BY <3>1, <3>2, <3>3
  <2>2. handler'[h].pc = "opening" => IsAllowed(handler'[h].user) BY SigningSteps
  <2>3. \A g \in Handlers : handler'[g].pc \in {"signing in", "opening"} =>
          handler'[g].nonce \in Nonces /\ attempt[handler'[g].nonce] = handler'[g].browser
    BY <1>2, <2>1 DEF SessionInv, Attempts
  <2>4. \A g \in Handlers : handler'[g].pc = "opening" => IsAllowed(handler'[g].user)
    BY <1>2, <2>2 DEF SessionInv, Attempts
  <2> QED BY <1>3, <2>3, <2>4 DEF SessionInv, Attempts
<1>5. Closings'
  <2>1. /\ handler'[h].pc = "closing" => session[handler'[h].session].stage # "free"
        /\ handler'[h].pc # "cleared"
    BY SigningSteps DEF SessionInv, Closings
  <2> QED BY <1>2, <1>3, <2>1 DEF SessionInv, Closings
<1> QED BY <1>4, <1>5 DEF SessionInv

\* One session more may be listed, and a browser may have the cookie of it.
OpensOne ==
  /\ UNCHANGED attempt
  /\ \A b \in Browsers : browser'[b].nonce \in {browser[b].nonce, None}
  /\ \A b \in Browsers : \/ browser'[b].session = browser[b].session
                         \/ /\ browser'[b].session \in Sessions
                            /\ session'[browser'[b].session].stage = "listed"
  /\ \A s \in Sessions : \/ session'[s] = session[s]
                         \/ session[s].stage = "free" /\ session'[s].stage = "listed"

LEMMA OpeningSessions ==
  ASSUME Types, SessionInv, NEW h \in Handlers, OpenSession(h) \/ Reject(h)
  PROVE  SessionInv'
<1>1. PICK c : Moves(h, c) BY SigningInTyped
<1>2. \A g \in Handlers : g # h => handler'[g] = handler[g] BY <1>1 DEF Moves
<1>3. handler'[h].pc \in {"idle", "rejecting"} BY SigningSteps DEF OpenSession, Reject
<1>4. OpensOne
  <2>1. ASSUME NEW s \in Sessions, Listed(s, handler[h].user), session[s].stage = "free"
        PROVE  /\ session'[s].stage = "listed" /\ \A r \in Sessions : r # s => session'[r] = session[r]
    BY <2>1, CookiesTyped DEF Listed
  <2>2. CASE Reject(h) BY <2>2, CookiesTyped DEF Reject, Cookies, OpensOne
  <2>3. ASSUME NEW s \in Sessions, session[s].stage = "free", Listed(s, handler[h].user), UNCHANGED attempt,
               browser' = [browser EXCEPT ![handler[h].browser] = [nonce |-> None, session |-> s]]
        PROVE  OpensOne
    BY <2>1, <2>3, CookiesTyped DEF OpensOne, Cookies
  <2>4. ASSUME UNCHANGED <<browser, attempt>>, UNCHANGED session \/ \E s \in Sessions :
                                  session[s].stage = "free" /\ Listed(s, handler[h].user)
        PROVE  OpensOne
    BY <2>1, <2>4 DEF OpensOne
  <2> QED BY <2>2, <2>3, <2>4 DEF OpenSession
<1>5. Attempts' BY <1>2, <1>3, <1>4 DEF OpensOne, SessionInv, Attempts
<1>6. Closings'
  <2>1. \A s \in Sessions : /\ session'[s].stage # "redeemed"
                            /\ session[s].stage # "free" => session'[s] = session[s]
    BY <1>4 DEF OpensOne, SessionInv, Closings
  <2>2. \A b \in Browsers : browser'[b].session # None => session'[browser'[b].session].stage # "free"
    BY <1>4, <2>1, KnownCookies DEF OpensOne, SessionInv, Closings
  <2>3. \A g \in Handlers : /\ handler'[g].pc = "closing" => session'[handler'[g].session].stage # "free"
                            /\ handler'[g].pc = "cleared" => session'[handler'[g].session].stage = "dead"
    BY <1>2, <1>3, <2>1, KnownCookies DEF SessionInv, Closings, LookingUp
  <2> QED BY <2>1, <2>2, <2>3 DEF Closings
<1> QED BY <1>5, <1>6 DEF SessionInv

LEMMA ClosingSessions ==
  ASSUME Types, SessionInv, NEW h \in Handlers, CloseSession(h) \/ ClearCookie(h)
  PROVE  SessionInv'
<1>1. PICK c : Moves(h, c) BY SigningOutTyped
<1>2. \A g \in Handlers : g # h => handler'[g] = handler[g] BY <1>1 DEF Moves
<1>3. CASE CloseSession(h)
  <2>1. UNCHANGED <<browser, attempt>> BY <1>3 DEF CloseSession
  <2> DEFINE s == handler[h].session
  <2>2. s \in Sessions BY <1>3, KnownCookies DEF CloseSession, At, LookingUp
  <2>3. /\ handler'[h].session = s /\ handler'[h].pc \in {"cleared", "clearing"}
        /\ handler'[h].pc = "cleared" => session' = [session EXCEPT ![s].stage = "dead"]
    BY <1>3, SigningSteps
  <2>4. UNCHANGED session \/ session' = [session EXCEPT ![s].stage = "dead"] BY <1>3 DEF CloseSession
  <2>5. /\ \A r \in Sessions : session'[r] = session[r] \/ session'[r].stage = "dead"
        /\ handler'[h].pc = "cleared" => session'[s].stage = "dead"
    BY <2>2, <2>3, <2>4, CookiesTyped
  <2>6. Attempts' BY <1>2, <2>1, <2>3 DEF SessionInv, Attempts
  <2>7. Closings'
    <3> HIDE DEF s
    <3>1. \A r \in Sessions : /\ session'[r].stage # "redeemed"
                              /\ session[r].stage # "free" => session'[r].stage # "free"
                              /\ session[r].stage = "dead" => session'[r].stage = "dead"
      BY <2>5 DEF SessionInv, Closings
    <3>2. \A b \in Browsers : browser'[b].session # None => session'[browser'[b].session].stage # "free"
      BY <2>1, <3>1, KnownCookies DEF SessionInv, Closings
    <3>3. \A g \in Handlers : /\ handler'[g].pc = "closing" => session'[handler'[g].session].stage # "free"
                              /\ handler'[g].pc = "cleared" => session'[handler'[g].session].stage = "dead"
      BY <1>2, <2>3, <2>5, <3>1, KnownCookies DEF SessionInv, Closings, LookingUp
    <3> QED BY <3>1, <3>2, <3>3 DEF Closings
  <2> QED BY <2>6, <2>7 DEF SessionInv
<1>4. CASE ClearCookie(h)
  <2>1. handler'[h].pc = "idle" /\ UNCHANGED <<session, attempt>> BY <1>4, SigningSteps DEF ClearCookie
  <2>2. \A b \in Browsers : /\ browser'[b].nonce = browser[b].nonce
                            /\ browser'[b].session \in {browser[b].session, None}
    BY <1>4, CookiesTyped DEF ClearCookie, Cookies
  <2>3. Attempts' BY <1>2, <2>1, <2>2 DEF SessionInv, Attempts
  <2>4. Closings' BY <1>2, <2>1, <2>2 DEF SessionInv, Closings
  <2> QED BY <2>3, <2>4 DEF SessionInv
<1> QED BY <1>3, <1>4

LEMMA RestartSessions ==
  ASSUME Types, SessionInv, Restart
  PROVE  SessionInv'
<1>1. \A h \in Handlers : handler'[h].pc = "idle" BY DEF Restart, Idle
<1>2. UNCHANGED <<browser, attempt>> BY DEF Restart
<1>3. \A s \in Sessions : session'[s] = session[s] \/ session'[s].stage = "dead"
  BY CookiesTyped DEF Restart, Lost
<1>4. Attempts' BY <1>1, <1>2 DEF SessionInv, Attempts
<1>5. Closings' BY <1>1, <1>2, <1>3, KnownCookies DEF SessionInv, Closings
<1> QED BY <1>4, <1>5 DEF SessionInv

LEMMA NextSessions == Types /\ SessionInv /\ [Next]_vars => SessionInv'
<1> SUFFICES ASSUME Types, SessionInv, [Next]_vars PROVE SessionInv' OBVIOUS
<1>1. ASSUME NEW h \in Handlers, ElsewhereStep(h) PROVE SessionInv'
  BY <1>1, ElsewhereSteps, ElsewhereSessions
<1>2. ASSUME NEW h \in Handlers, Step(h) PROVE SessionInv'
  BY <1>1, <1>2, SigningInSessions, OpeningSessions, ClosingSessions DEF Step, ElsewhereStep
<1>3. CASE (\E c \in Clients : Register(c)) \/ (\E i \in Ids : Expire(i)) \/ UNCHANGED vars
  BY <1>3, StandingSessions DEF Register, Expire, vars
<1> QED BY <1>2, <1>3, StartSignInSessions, RestartSessions DEF Next, Step

LEMMA SessionsHold == Spec => [](Types /\ SessionInv)
BY InitTyped, NextTyped, InitSessions, NextSessions, PTL DEF Spec

\* Only the end of a sign-in gives a browser another session.
LEMMA OnlyOpened ==
  ASSUME Types, [Next]_vars, NEW b \in Browsers, browser'[b].session \notin {browser[b].session, None}
  PROVE  \E h \in Handlers, s \in Sessions :
           /\ At(h, "opening") /\ handler[h].browser = b
           /\ browser'[b].session = s /\ session'[s].user = handler[h].user
<1>1. ASSUME NEW h \in Handlers, OpenSession(h)
      PROVE  \E s \in Sessions :
               /\ At(h, "opening") /\ handler[h].browser = b
               /\ browser'[b].session = s /\ session'[s].user = handler[h].user
  <2>1. PICK s \in Sessions :
          /\ Listed(s, handler[h].user)
          /\ browser' = [browser EXCEPT ![handler[h].browser] = [nonce |-> None, session |-> s]]
    BY <1>1 DEF OpenSession
  <2>2. handler[h].browser = b /\ browser'[b].session = s BY <2>1, CookiesTyped
  <2>3. session'[s] = [stage |-> "listed", user |-> handler[h].user] BY <2>1, CookiesTyped DEF Listed
  <2> QED BY <1>1, <2>2, <2>3 DEF OpenSession
<1>2. ASSUME NEW h \in Handlers, Reject(h) PROVE FALSE
  BY <1>2, CookiesTyped DEF Reject, Cookies
<1>3. ASSUME NEW h \in Handlers, ClearCookie(h) PROVE FALSE
  BY <1>3, CookiesTyped DEF ClearCookie, Cookies
<1>4. ASSUME NEW a \in Browsers, NEW n \in Nonces, NEW c \in Clients, NEW redirect \in Redirects,
             StartSignIn(a, n, c, redirect)
      PROVE  FALSE
  BY <1>4, CookiesTyped DEF StartSignIn, Cookies
<1>5. browser' # browser OBVIOUS
<1>6. ASSUME NEW h \in Handlers, Step(h) PROVE OpenSession(h)
  <2>1. ~ ElsewhereStep(h) BY <1>5, ElsewhereSteps
  <2>2. ~ (CloseSession(h) \/ SignIn(h)) BY <1>5 DEF CloseSession, SignIn
  <2>3. ~ \E a \in Browsers : Logout(h, a) \/ \E n \in Nonces : Callback(h, a, n)
    BY <1>5 DEF Logout, Callback
  <2> QED BY <1>2, <1>3, <1>6, <2>1, <2>2, <2>3 DEF Step, ElsewhereStep
<1>7. ~ (Restart \/ (\E c \in Clients : Register(c)) \/ (\E i \in Ids : Expire(i)) \/ UNCHANGED vars)
  BY <1>5 DEF Restart, Register, Expire, vars
<1> QED BY <1>1, <1>4, <1>6, <1>7 DEF Next, Step

\* A browser gets the session of a sign-in that it began itself, and of a user on the
\* allow-list, for any number of browsers, attempts and callbacks under way.
THEOREM SignedInAsItself == Spec => SignInIsOwn
<1>1. Types /\ SessionInv /\ [Next]_vars =>
        \A b \in Browsers :
          LET s == browser'[b].session IN
          s # None /\ s # browser[b].session =>
            /\ \E h \in Handlers :
                 At(h, "opening") /\ handler[h].browser = b /\ attempt[handler[h].nonce] = b
            /\ IsAllowed(session'[s].user)
  <2> SUFFICES ASSUME Types, SessionInv, [Next]_vars, NEW b \in Browsers,
                      browser'[b].session \notin {browser[b].session, None}
               PROVE  /\ \E h \in Handlers :
                           At(h, "opening") /\ handler[h].browser = b /\ attempt[handler[h].nonce] = b
                      /\ IsAllowed(session'[browser'[b].session].user)
    OBVIOUS
  <2>1. PICK h \in Handlers, s \in Sessions :
          /\ At(h, "opening") /\ handler[h].browser = b
          /\ browser'[b].session = s /\ session'[s].user = handler[h].user
    BY OnlyOpened
  <2> QED BY <2>1 DEF At, SessionInv, Attempts
<1> QED BY <1>1, SessionsHold, PTL DEF Spec, SignInIsOwn

-----------------------------------------------------------------------------
(* Past the check of the session.                                          *)

Passed == {"showing", "authorizing"}

\* Only a check that finds the session listed lets a handler pass.
LEMMA OnlyChecked ==
  ASSUME Types, [Next]_vars, NEW h \in Handlers, handler'[h].pc \in Passed,
         handler'[h].pc # handler[h].pc
  PROVE  LiveSession(handler[h].session)
<1> USE DEF Passed
<1>1. handler \in [Handlers -> Handling] BY DEF Types, TypeOK
<1>2. PICK g \in Handlers : Step(g)
  <2>1. ~ Restart BY DEF Restart, Idle
  <2> QED BY <2>1 DEF Next, Step, Register, StartSignIn, Expire, vars
<1>3. g = h
  <2>1. \E c \in Proper : Moves(g, c) BY <1>2, StepTyped
  <2> QED BY <2>1 DEF Moves
<1>4. ~ Done(h) BY SigningSteps
<1>5. CASE CheckSession(h) BY <1>4, <1>5 DEF CheckSession
<1>6. CASE \/ SignIn(h) \/ OpenSession(h) \/ Reject(h) \/ CloseSession(h)
           \/ \E b \in Browsers : Logout(h, b)
           \/ \E b \in Browsers, n \in Nonces : Callback(h, b, n)
  BY <1>6, SigningSteps DEF OpenSession, Reject
<1>7. CASE \/ ClearCookie(h) \/ ShowConsent(h) \/ Authorize(h) \/ Mint(h) \/ Unlist(h) \/ Fails(h)
  BY <1>4, <1>7 DEF ClearCookie, ShowConsent, Authorize, Mint, Unlist, Fails
<1>8. CASE Challenge(h) \/ Consume(h) \/ Rotate(h)
  <2>1. Goto(h, "consuming") => handler'[h].pc = "consuming" BY <1>1 DEF Goto, Handling
  <2>2. \A c, u, given, grant : Minting(h, c, u, given, grant) => handler'[h].pc = "minting"
    BY <1>1 DEF Minting, Become, Idle
  <2> QED BY <1>4, <1>8, <2>1, <2>2 DEF Challenge, Consume, Rotate
<1>9. CASE \/ \E b \in Browsers, c \in Clients : Consent(h, b, c)
           \/ \E b \in Browsers, c \in Clients, redirect \in Redirects : AskConsent(h, b, c, redirect)
           \/ \E c \in Clients, k \in Codes, verified \in BOOLEAN : Exchange(h, c, k, verified)
           \/ \E c \in Clients, j \in Refreshes : Refresh(h, c, j) \/ Revoke(h, c, j)
  <2>1. \A d : Become(h, d) => handler'[h] = d BY <1>1 DEF Become
  <2>2. ASSUME NEW b, NEW c, NEW s, NEW pc,
               Become(h, [Idle EXCEPT !.pc = pc, !.browser = b, !.client = c, !.session = s])
        PROVE  handler'[h].pc = pc
    <3>1. [Idle EXCEPT !.pc = pc, !.browser = b, !.client = c, !.session = s].pc = pc BY DEF Idle
    <3> QED BY <2>1, <2>2, <3>1
  <2>3. ASSUME NEW c, NEW i, NEW pc, Become(h, [Idle EXCEPT !.pc = pc, !.client = c, !.given = i])
        PROVE  handler'[h].pc = pc
    <3>1. [Idle EXCEPT !.pc = pc, !.client = c, !.given = i].pc = pc BY DEF Idle
    <3> QED BY <2>1, <2>3, <3>1
  <2>4. ASSUME NEW b \in Browsers, NEW c \in Clients, NEW redirect \in Redirects,
               Consent(h, b, c) \/ AskConsent(h, b, c, redirect)
        PROVE  handler'[h].pc \in {"consenting", "asking"}
    BY <2>2, <2>4, Zenon DEF Consent, AskConsent
  <2>5. ASSUME NEW c \in Clients, NEW k \in Codes, NEW verified \in BOOLEAN, Exchange(h, c, k, verified)
        PROVE  handler'[h].pc \in {"challenging", "unverified"}
    BY <2>3, <2>5, Zenon DEF Exchange
  <2>6. ASSUME NEW c \in Clients, NEW j \in Refreshes, Refresh(h, c, j) \/ Revoke(h, c, j)
        PROVE  handler'[h].pc \in {"rotating", "revoking"}
    BY <2>3, <2>6, Zenon DEF Refresh, Revoke
  <2>7. \E redirect : redirect \in Redirects BY DEF Redirects
  <2> QED BY <1>9, <2>4, <2>5, <2>6, <2>7
<1> QED BY <1>2, <1>3, <1>5, <1>6, <1>7, <1>8, <1>9 DEF Step

\* No request passes with the cookie of a session that a sign-out has closed, however the
\* request and the sign-out overlap.
THEOREM ClosedForGood == Spec => SignedOutStaysOut
<1>1. Types /\ SessionInv /\ [Next]_vars =>
        \A h \in Handlers :
          handler'[h].pc \in {"showing", "authorizing"} /\ handler'[h].pc # handler[h].pc =>
            /\ session[handler[h].session].stage # "dead"
            /\ \A g \in Handlers :
                 ~ (At(g, "cleared") /\ handler[g].session = handler[h].session)
  BY OnlyChecked DEF Passed, LiveSession, SessionInv, Closings, At
<1> QED BY <1>1, SessionsHold, PTL DEF Spec, SignedOutStaysOut

-----------------------------------------------------------------------------
(* Credentials of single use.                                              *)

LEMMA CredentialStages ==
  /\ \A s \in Sessions : credential[s] = session[s].stage /\ credential'[s] = session'[s].stage
  /\ \A k \in Codes : credential[k] = code[k].stage /\ credential'[k] = code'[k].stage
  /\ \A j \in Refreshes : credential[j] = refresh[j].stage /\ credential'[j] = refresh'[j].stage
BY OAuthAssumption DEF credential, Credentials

\* One credential changes its stage.
Turns(c, to) ==
  /\ \A s \in Sessions : session'[s].stage = IF s = c THEN to ELSE session[s].stage
  /\ \A k \in Codes : code'[k].stage = IF k = c THEN to ELSE code[k].stage
  /\ \A j \in Refreshes : refresh'[j].stage = IF j = c THEN to ELSE refresh[j].stage

LEMMA OneTurns ==
  ASSUME NEW c \in Credentials, NEW to, Turns(c, to)
  PROVE  /\ credential' = [credential EXCEPT ![c] = to]
         /\ credential' = [d \in Credentials |-> IF d \in {c} THEN to ELSE credential[d]]
<1>1. \A d \in Credentials : credential'[d] = IF d = c THEN to ELSE credential[d]
  BY CredentialStages DEF Turns, Credentials
<1>2. /\ credential = [d \in Credentials |-> credential[d]]
      /\ credential' = [d \in Credentials |-> credential'[d]]
  BY DEF credential
<1> QED BY <1>1, <1>2

LEMMA OriginStays ==
  ASSUME \A j \in Refreshes : refresh'[j].from = refresh[j].from
  PROVE  UNCHANGED origin
BY DEF origin

LEMMA StoresStay ==
  ASSUME UNCHANGED <<session, code, refresh>>
  PROVE  UNCHANGED <<credential, origin>>
BY DEF credential, origin

USE DEF Promise!vars

\* A step of the abstract machine, or none.
Promised == Promise!Next \/ UNCHANGED <<credential, origin>>

LEMMA Issuing ==
  ASSUME NEW c \in Sessions \cup Codes, credential[c] = "free", Turns(c, "listed"), UNCHANGED refresh
  PROVE  Promised
<1>1. c \in Credentials BY DEF Credentials
<1>2. Promise!Issue(c) BY <1>1, OneTurns, OriginStays DEF Promise!Issue, Promise!Move
<1> QED BY <1>1, <1>2 DEF Promise!Next, Promised

LEMMA Redeeming ==
  ASSUME NEW c \in Credentials, credential[c] = "listed", Turns(c, "redeemed"), UNCHANGED origin
  PROVE  Promised
<1>1. Promise!Redeem(c) BY OneTurns DEF Promise!Redeem, Promise!Move
<1> QED BY <1>1 DEF Promise!Next, Promised

LEMMA Dying ==
  ASSUME NEW c \in Credentials, credential[c] = "listed", Turns(c, "dead"), UNCHANGED origin
  PROVE  Promised
<1>1. Promise!Die({c}) BY OneTurns DEF Promise!Die
<1> QED BY <1>1 DEF Promise!Next, Promised

LEMMA Succeeding ==
  ASSUME NEW c \in Codes \cup Refreshes, NEW j \in Refreshes,
         credential[c] = "redeemed", credential[j] = "free", Turns(j, "listed"),
         \A i \in Refreshes : refresh[i].from # c,
         \A i \in Refreshes : refresh'[i].from = IF i = j THEN c ELSE refresh[i].from
  PROVE  Promised
<1>1. c \in Credentials /\ j \in Credentials /\ c # None /\ j \notin Sessions \cup Codes
  BY OAuthAssumption DEF Credentials, Ids
<1>2. \A e \in Credentials : origin[e] # c BY <1>1 DEF origin
<1>3. origin' = [origin EXCEPT ![j] = c]
  <2>1. \A d \in Credentials : origin'[d] = IF d = j THEN c ELSE origin[d] BY <1>1 DEF origin
  <2>2. origin = [d \in Credentials |-> origin[d]] /\ origin' = [d \in Credentials |-> origin'[d]]
    BY DEF origin
  <2> QED BY <2>1, <2>2
<1>4. Promise!Succeed(c, j) BY <1>1, <1>2, <1>3, OneTurns DEF Promise!Succeed, Promise!Move
<1> QED BY <1>1, <1>4 DEF Promise!Next, Promised

\* A change of one record of one store is a turn of one credential.
LEMMA OneStore ==
  ASSUME Types, NEW to
  PROVE  /\ \A s \in Sessions :
              /\ session'[s].stage = to
              /\ \A r \in Sessions \ {s} : session'[r] = session[r]
              /\ UNCHANGED <<code, refresh>>
              => Turns(s, to)
         /\ \A k \in Codes :
              /\ code'[k].stage = to
              /\ \A i \in Codes \ {k} : code'[i] = code[i]
              /\ UNCHANGED <<session, refresh>>
              => Turns(k, to)
         /\ \A j \in Refreshes :
              /\ refresh'[j].stage = to
              /\ \A i \in Refreshes \ {j} : refresh'[i] = refresh[i]
              /\ UNCHANGED <<session, code>>
              => Turns(j, to)
BY OAuthAssumption DEF Turns

LEMMA SessionPromised ==
  ASSUME Types, SessionInv, NEW h \in Handlers, OpenSession(h) \/ CloseSession(h)
  PROVE  Promised
<1>1. ASSUME NEW s \in Sessions, session[s].stage = "free", Listed(s, handler[h].user), OpenSession(h)
      PROVE  Promised
  <2>1. session'[s].stage = "listed" /\ \A r \in Sessions \ {s} : session'[r] = session[r]
    BY <1>1, CookiesTyped DEF Listed
  <2>2. UNCHANGED <<code, refresh>> BY <1>1 DEF OpenSession
  <2> QED BY <1>1, <2>1, <2>2, OneStore, CredentialStages, Issuing
<1>2. CASE CloseSession(h) /\ ~ UNCHANGED session
  <2>1. PICK s \in Sessions : s = handler[h].session /\ session[s].stage # "free"
    BY <1>2, KnownCookies DEF CloseSession, At, LookingUp, SessionInv, Closings
  <2>2. session' = [session EXCEPT ![s].stage = "dead"] BY <1>2, <2>1 DEF CloseSession
  <2>3. session'[s].stage = "dead" /\ \A r \in Sessions \ {s} : session'[r] = session[r]
    BY <2>2, CookiesTyped
  <2>4. UNCHANGED <<code, refresh>> BY <1>2 DEF CloseSession
  <2>5. UNCHANGED origin BY <2>4, OriginStays
  <2>6. Turns(s, "dead") BY <2>3, <2>4, OneStore
  <2>7. CASE session[s].stage = "listed"
    BY <2>5, <2>6, <2>7, CredentialStages, Dying DEF Credentials
  <2>8. CASE session[s].stage = "dead"
    <3>1. \A c \in Credentials : credential'[c] = credential[c]
      BY <2>6, <2>8, CredentialStages DEF Turns, Credentials
    <3>2. /\ credential = [d \in Credentials |-> credential[d]]
          /\ credential' = [d \in Credentials |-> credential'[d]]
      BY DEF credential
    <3> QED BY <2>5, <3>1, <3>2 DEF Promised
  <2>9. session[s].stage \in {"listed", "dead"}
    BY <2>1, CookiesTyped DEF SessionInv, Closings, Stage
  <2> QED BY <2>7, <2>8, <2>9
<1>3. CASE UNCHANGED session
  BY <1>3, StoresStay DEF OpenSession, CloseSession, Promised
<1> QED BY <1>1, <1>2, <1>3 DEF OpenSession

LEMMA CodePromised ==
  ASSUME Types, NEW h \in Handlers, Authorize(h) \/ Challenge(h) \/ Consume(h)
  PROVE  Promised
<1>1. CASE Authorize(h)
  <2>1. PICK k \in Codes : code[k].stage = "free" /\ Issued(k, handler[h].client, handler[h].user)
    BY <1>1 DEF Authorize
  <2>2. code'[k].stage = "listed" /\ \A i \in Codes \ {k} : code'[i] = code[i]
    BY <2>1, RecordsTyped DEF Issued
  <2>3. UNCHANGED <<session, refresh>> BY <1>1 DEF Authorize
  <2> QED BY <2>1, <2>2, <2>3, OneStore, CredentialStages, Issuing
<1>2. CASE Challenge(h) \/ Consume(h)
  <2>1. PICK k \in Codes : k = handler[h].given
    BY <1>2, HandlerProper, HandlerFields DEF Challenge, Consume, At
  <2>2. UNCHANGED <<session, refresh>> BY <1>2 DEF Challenge, Consume
  <2>3. UNCHANGED code
        \/ /\ code[k].stage = "listed"
           /\ \E to \in {"redeemed", "dead"} : code' = [code EXCEPT ![k].stage = to]
    BY <1>2, <2>1 DEF Challenge, Consume, Kill
  <2>4. CASE UNCHANGED code BY <2>2, <2>4, StoresStay DEF Promised
  <2>5. ASSUME NEW to \in {"redeemed", "dead"}, code' = [code EXCEPT ![k].stage = to],
               code[k].stage = "listed"
        PROVE  Promised
    <3>1. code'[k].stage = to /\ \A i \in Codes \ {k} : code'[i] = code[i]
      BY <2>5, RecordsTyped DEF CodeRecords
    <3>2. Turns(k, to) BY <2>2, <3>1, OneStore
    <3>3. UNCHANGED origin BY <2>2, OriginStays
    <3> QED BY <2>5, <3>2, <3>3, CredentialStages, Redeeming, Dying DEF Credentials
  <2> QED BY <2>3, <2>4, <2>5
<1> QED BY <1>1, <1>2

LEMMA RefreshPromised ==
  ASSUME Types, Lines, NEW h \in Handlers, Rotate(h) \/ Mint(h) \/ Unlist(h)
  PROVE  Promised
<1>1. CASE Mint(h)
  <2>1. PICK j \in Refreshes :
          /\ refresh[j].stage = "free"
          /\ refresh' = [refresh EXCEPT ![j] =
               [stage |-> "listed", client |-> handler[h].client, user |-> handler[h].user,
                grant |-> handler[h].grant, from |-> handler[h].given]]
    BY <1>1 DEF Mint
  <2>2. /\ refresh'[j].stage = "listed" /\ refresh'[j].from = handler[h].given
        /\ \A i \in Refreshes \ {j} : refresh'[i] = refresh[i]
    BY <2>1, RecordsTyped
  <2>3. UNCHANGED <<session, code>> BY <1>1 DEF Mint
  <2>4. PICK c \in Codes \cup Refreshes : c = handler[h].given
    BY <1>1, HandlerProper, HandlerFields DEF Mint, At
  <2>5. Spent(c) /\ \A i \in Refreshes : refresh[i].from # c
    BY <1>1, <2>4 DEF Mint, At, Lines, MintersRedeemed, Minter
  <2>6. credential[c] = "redeemed" BY <2>5, CredentialStages DEF Spent
  <2>7. Turns(j, "listed") BY <2>2, <2>3, OneStore
  <2> QED BY <2>1, <2>2, <2>4, <2>5, <2>6, <2>7, CredentialStages, Succeeding
<1>2. CASE Rotate(h) \/ Unlist(h)
  <2>1. PICK j \in Refreshes : j = handler[h].given
    BY <1>2, HandlerProper, HandlerFields DEF Rotate, Unlist, At
  <2>2. UNCHANGED <<session, code>> BY <1>2 DEF Rotate, Unlist
  <2>3. UNCHANGED refresh
        \/ /\ refresh[j].stage = "listed"
           /\ \E to \in {"redeemed", "dead"} : refresh' = [refresh EXCEPT ![j].stage = to]
    BY <1>2, <2>1 DEF Rotate, Unlist
  <2>4. CASE UNCHANGED refresh BY <2>2, <2>4, StoresStay DEF Promised
  <2>5. ASSUME NEW to \in {"redeemed", "dead"}, refresh' = [refresh EXCEPT ![j].stage = to],
               refresh[j].stage = "listed"
        PROVE  Promised
    <3>1. /\ refresh'[j].stage = to /\ refresh'[j].from = refresh[j].from
          /\ \A i \in Refreshes \ {j} : refresh'[i] = refresh[i]
      BY <2>5, RecordsTyped DEF RefreshRecords
    <3>2. Turns(j, to) BY <2>2, <3>1, OneStore
    <3>3. UNCHANGED origin BY <3>1, OriginStays
    <3> QED BY <2>5, <3>2, <3>3, CredentialStages, Redeeming, Dying DEF Credentials
  <2> QED BY <2>3, <2>4, <2>5
<1> QED BY <1>1, <1>2

LEMMA RestartPromised ==
  ASSUME Types, Restart
  PROVE  Promised
<1> DEFINE gone == {c \in Credentials : credential[c] = "listed"}
<1>1. /\ \A s \in Sessions : session'[s].stage = IF session[s].stage = "listed" THEN "dead" ELSE session[s].stage
      /\ \A k \in Codes : code'[k].stage = IF code[k].stage = "listed" THEN "dead" ELSE code[k].stage
      /\ \A j \in Refreshes :
           /\ refresh'[j].stage = IF refresh[j].stage = "listed" THEN "dead" ELSE refresh[j].stage
           /\ refresh'[j].from = refresh[j].from
  <2>1. \A s \in Sessions : session'[s].stage = IF session[s].stage = "listed" THEN "dead" ELSE session[s].stage
    BY CookiesTyped DEF Restart, Lost
  <2>2. \A k \in Codes : code'[k].stage = IF code[k].stage = "listed" THEN "dead" ELSE code[k].stage
    BY RecordsTyped DEF Restart, Lost, CodeRecords
  <2>3. ASSUME NEW j \in Refreshes
        PROVE  /\ refresh'[j].stage = IF refresh[j].stage = "listed" THEN "dead" ELSE refresh[j].stage
               /\ refresh'[j].from = refresh[j].from
    <3>1. refresh'[j] = IF refresh[j].stage = "listed" THEN [refresh[j] EXCEPT !.stage = "dead"] ELSE refresh[j]
      BY RecordsTyped DEF Restart, Lost
    <3> QED BY <3>1, RecordsTyped, DyingKeeps
  <2> QED BY <2>1, <2>2, <2>3
<1>2. \A c \in Credentials : credential'[c] = IF c \in gone THEN "dead" ELSE credential[c]
  BY <1>1, CredentialStages DEF Credentials
<1>3. credential' = [c \in Credentials |-> IF c \in gone THEN "dead" ELSE credential[c]]
  <2>1. credential' = [d \in Credentials |-> credential'[d]] BY DEF credential
  <2> QED BY <1>2, <2>1
<1>4. UNCHANGED origin BY <1>1, OriginStays
<1>5. gone \in SUBSET Credentials /\ Promise!Die(gone) BY <1>3, <1>4 DEF Promise!Die
<1> HIDE DEF gone
<1> QED BY <1>5 DEF Promise!Next, Promised

\* Codes, refresh tokens and sessions are credentials of single use that do not come back:
\* each step of the authorization server is one of the abstract machine, or none.
THEOREM CredentialsAreOfSingleUse == Spec => ImplementsSingleUse
<1>1. Init => Promise!Init
  BY DEF Init, Promise!Init, credential, origin, Credentials
<1>2. Types /\ Lines /\ SessionInv /\ [Next]_vars => [Promise!Next]_(Promise!vars)
  <2> SUFFICES ASSUME Types, Lines, SessionInv, [Next]_vars PROVE Promised BY DEF Promised
  <2>1. ASSUME NEW h \in Handlers,
               \/ QuietStep(h) /\ ~ (OpenSession(h) \/ CloseSession(h))
               \/ \E c \in Clients, j \in Refreshes : Refresh(h, c, j)
        PROVE  UNCHANGED <<session, code, refresh>>
    BY <2>1 DEF QuietStep, SignIn, Reject, ClearCookie, CheckSession, ShowConsent, Fails, Logout,
                Callback, Consent, AskConsent, Exchange, Revoke, Refresh
  <2>2. ASSUME NEW h \in Handlers, Step(h) PROVE Promised
    BY <2>1, <2>2, StoresStay, SessionPromised, CodePromised, RefreshPromised
       DEF Step, QuietStep, Promised
  <2>3. CASE \/ \E c \in Clients : Register(c)
             \/ \E b \in Browsers, n \in Nonces, c \in Clients, redirect \in Redirects :
                  StartSignIn(b, n, c, redirect)
             \/ \E i \in Ids : Expire(i)
             \/ UNCHANGED vars
    BY <2>3, StoresStay DEF Register, StartSignIn, Expire, vars, Promised
  <2> QED BY <2>2, <2>3, RestartPromised DEF Next, Step
<1> QED BY <1>1, <1>2, LinesHold, SessionsHold, PTL DEF Spec, ImplementsSingleUse, Promise!Spec
=============================================================================
