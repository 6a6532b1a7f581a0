----------------------------- MODULE OAuthServer -----------------------------
(***************************************************************************)
(* The authorization server in front of /mcp: sign-in through Meta         *)
(* (transport/auth-routes.ts, auth/session.ts, auth/oauth-state.ts),       *)
(* consent (POST /authorize of transport/http.ts) and the token endpoint   *)
(* (auth/oauth-provider.ts), over the stores of codes, jtis and clients    *)
(* (src/store/persistent-*.ts), in Firestore or in the memory of the       *)
(* process.  A handler stands at an await; the other ones, of this process *)
(* or of another, run in between.  Ids are random: one is drawn once.      *)
(***************************************************************************)
EXTENDS Naturals, FiniteSets

CONSTANTS
  Handlers,
  Browsers, Users, Clients,
  Nonces, Sessions, Codes, Refreshes,      \* the ids there are to draw
  AllowedEmails, AllowedDomains, AllowedIds,  \* users whose email, domain or id is listed
  MaxClients,                              \* InMemoryClientsStore.MAX
  None

Ids == Nonces \cup Sessions \cup Codes \cup Refreshes

ASSUME OAuthAssumption ==
  /\ MaxClients \in Nat
  /\ AllowedEmails \cup AllowedDomains \cup AllowedIds \subseteq Users
  /\ None \notin Browsers \cup Users \cup Clients \cup Ids
  /\ Handlers \cap Ids = {} /\ Codes \cap Refreshes = {} /\ Sessions \cap (Codes \cup Refreshes) = {}
  /\ Nonces \cap (Sessions \cup Codes \cup Refreshes) = {}

VARIABLES
  persistent,   \* whether the stores are in Firestore
  registered,   \* the clients of the clients store
  browser,      \* browser -> its two cookies
  attempt,      \* nonce -> the browser whose sign-in drew it, None for none
  session,      \* session jti -> its record
  code,         \* authorization code -> its record
  refresh,      \* refresh jti -> its record
  expired,      \* the ids whose time is over
  handler,      \* handler -> where it stands
  delivered,    \* what clients have been handed (to observe)
  disturbed     \* codes with a fault, an end or a misuse somewhere in their line (to observe)

vars == <<persistent, registered, browser, attempt, session, code, refresh, expired,
          handler, delivered, disturbed>>

\* "free" is an id not drawn yet; a store has what is listed and knows nothing of the rest.
Stage == {"free", "listed", "redeemed", "dead"}

Idle ==
  [pc |-> "idle", browser |-> None, nonce |-> None, session |-> None,
   client |-> None, user |-> None, given |-> None, grant |-> None]

Init ==
  /\ persistent \in BOOLEAN
  /\ registered = {}
  /\ browser = [b \in Browsers |-> [nonce |-> None, session |-> None]]
  /\ attempt = [n \in Nonces |-> None]
  /\ session = [s \in Sessions |-> [stage |-> "free", user |-> None]]
  /\ code = [k \in Codes |-> [stage |-> "free", client |-> None, user |-> None]]
  /\ refresh = [j \in Refreshes |->
       [stage |-> "free", client |-> None, user |-> None, grant |-> None, from |-> None]]
  /\ expired = {}
  /\ handler = [h \in Handlers |-> Idle]
  /\ delivered = {}
  /\ disturbed = {}

IsIdle(h) == handler[h].pc = "idle"

At(h, pc) == handler[h].pc = pc

Become(h, record) == handler' = [handler EXCEPT ![h] = record]

Goto(h, pc) == handler' = [handler EXCEPT ![h].pc = pc]

Done(h) == Become(h, Idle)

stores == <<session, code, refresh>>
browsing == <<browser, attempt>>
observed == <<delivered, disturbed>>
world == <<persistent, registered, expired>>

-----------------------------------------------------------------------------
(* Clients register, and a browser signs in through Meta. *)

\* The store in memory refuses a new client when it is full.
Register(c) ==
  /\ persistent \/ Cardinality(registered) < MaxClients \/ c \in registered
  /\ registered' = registered \cup {c}
  /\ UNCHANGED <<persistent, expired, browsing, stores, observed, handler>>

Redirects == {"registered", "other", "missing"}

\* validateAuthorizeQuery of the client and the redirect_uri in the query; c may be no client.
ValidQuery(c, redirect) == c \in registered /\ redirect = "registered"

\* GET /auth/meta, to return to a valid query: the nonce is in the state of the redirect
\* and in a cookie, which replaces that of an attempt in another tab.
StartSignIn(b, n, c, redirect) ==
  /\ ValidQuery(c, redirect)
  /\ attempt[n] = None
  /\ attempt' = [attempt EXCEPT ![n] = b]
  /\ browser' = [browser EXCEPT ![b].nonce = n]
  /\ UNCHANGED <<world, stores, observed, handler>>

\* verifyOAuthState as a bug would have it: a good signature is enough.
MutStateVerified(b, n) == n \notin expired

StateVerified(b, n) == n \notin expired /\ browser[b].nonce = n

\* GET /auth/meta/callback: the cookie is read now, the response will clear it.
Callback(h, b, n) ==
  /\ IsIdle(h)
  /\ attempt[n] # None
  /\ Become(h, [Idle EXCEPT !.browser = b, !.nonce = n,
                  !.pc = IF StateVerified(b, n) THEN "signing in" ELSE "rejecting"])
  /\ UNCHANGED <<world, browsing, stores, observed>>

IsAllowed(u) == u \in AllowedEmails \cup AllowedDomains \cup AllowedIds

\* Meta's code is exchanged for a token and a profile, and the token is saved; Meta or the
\* token store may fail, the user may cancel, the allow-list may refuse.
SignIn(h) ==
  /\ At(h, "signing in")
  /\ \/ \E u \in Users : IsAllowed(u)
          /\ Become(h, [handler[h] EXCEPT !.pc = "opening", !.user = u])
     \/ Goto(h, "rejecting")
  /\ UNCHANGED <<world, browsing, stores, observed>>

Listed(s, u) == session' = [session EXCEPT ![s] = [stage |-> "listed", user |-> u]]

\* setSession: the jti is put, and the response sets the session cookie and clears the
\* other; when the put throws, with effect or without, the response is an error page.
OpenSession(h) ==
  /\ At(h, "opening")
  /\ \/ \E s \in Sessions :
          /\ session[s].stage = "free"
          /\ Listed(s, handler[h].user)
          /\ browser' = [browser EXCEPT ![handler[h].browser] = [nonce |-> None, session |-> s]]
          /\ Done(h)
     \/ /\ UNCHANGED session \/ \E s \in Sessions :
                                  session[s].stage = "free" /\ Listed(s, handler[h].user)
        /\ Goto(h, "rejecting")
        /\ UNCHANGED browser
  /\ UNCHANGED <<world, attempt, code, refresh, observed>>

\* The error page of the callback, with the same clearCookie.
Reject(h) ==
  /\ At(h, "rejecting")
  /\ browser' = [browser EXCEPT ![handler[h].browser].nonce = None]
  /\ Done(h)
  /\ UNCHANGED <<world, attempt, stores, observed>>

\* POST /auth/logout, and the cookie that came with it.
Logout(h, b) ==
  /\ IsIdle(h)
  /\ Become(h, [Idle EXCEPT !.browser = b, !.session = browser[b].session,
                  !.pc = IF browser[b].session \in expired \cup {None} THEN "clearing"
                         ELSE "closing"])
  /\ UNCHANGED <<world, browsing, stores, observed>>

\* clearSession as a bug would have it: the cookie goes, the session stays listed.
MutCloseSession(h) ==
  /\ At(h, "closing")
  /\ Goto(h, "cleared")
  /\ UNCHANGED <<world, browsing, stores, observed>>

\* What the store throws here is ignored, and the user is told that the session is closed.
CloseSession(h) ==
  /\ At(h, "closing")
  /\ \/ /\ session' = [session EXCEPT ![handler[h].session].stage = "dead"]
        /\ Goto(h, "cleared")
     \/ Goto(h, "clearing") /\ UNCHANGED session
  /\ UNCHANGED <<world, browsing, code, refresh, observed>>

ClearCookie(h) ==
  /\ handler[h].pc \in {"cleared", "clearing"}
  /\ browser' = [browser EXCEPT ![handler[h].browser].session = None]
  /\ Done(h)
  /\ UNCHANGED <<world, attempt, stores, observed>>

-----------------------------------------------------------------------------
(* The user consents, and a code is issued. *)

\* GET /authorize with a session cookie; without one it redirects to the sign-in.
AskConsent(h, b, c, redirect) ==
  /\ IsIdle(h)
  /\ ValidQuery(c, redirect)
  /\ browser[b].session # None
  /\ Become(h, [Idle EXCEPT !.pc = "asking", !.browser = b, !.client = c,
                            !.session = browser[b].session])
  /\ UNCHANGED <<world, browsing, stores, observed>>

\* POST /authorize of a client, with the session cookie of the browser.
Consent(h, b, c) ==
  /\ IsIdle(h)
  /\ c \in registered
  /\ browser[b].session # None
  /\ Become(h, [Idle EXCEPT !.pc = "consenting", !.browser = b, !.client = c,
                            !.session = browser[b].session])
  /\ UNCHANGED <<world, browsing, stores, observed>>

\* getSession as a bug would have it: the signature of the cookie is enough.
MutLiveSession(s) == s \notin expired

LiveSession(s) == s \notin expired /\ session[s].stage = "listed"

\* getSession; a consent then needs the token asked for or a default one, and ends without.
CheckSession(h) ==
  /\ handler[h].pc \in {"asking", "consenting"}
  /\ \/ /\ LiveSession(handler[h].session)
        /\ Become(h, [handler[h] EXCEPT
             !.pc = IF At(h, "asking") THEN "showing" ELSE "authorizing",
             !.user = session[handler[h].session].user])
     \/ /\ At(h, "consenting") \/ ~ LiveSession(handler[h].session)
        /\ Done(h)
  /\ UNCHANGED <<world, browsing, stores, observed>>

\* The consent page lists the user's tokens, for the client of the query.
ShowConsent(h) ==
  /\ At(h, "showing")
  /\ Done(h)
  /\ UNCHANGED <<world, browsing, stores, observed>>

Issued(k, c, u) == code' = [code EXCEPT ![k] = [stage |-> "listed", client |-> c, user |-> u]]

\* authorize: the code is stored, and the redirect hands it to the client.
Authorize(h) ==
  /\ At(h, "authorizing")
  /\ \E k \in Codes :
       /\ code[k].stage = "free"
       /\ Issued(k, handler[h].client, handler[h].user)
       /\ \/ delivered' = delivered \cup {k} /\ UNCHANGED disturbed
          \/ disturbed' = disturbed \cup {k} /\ UNCHANGED delivered
  /\ Done(h)
  /\ UNCHANGED <<world, browsing, session, refresh>>

-----------------------------------------------------------------------------
(* The token endpoint. *)

\* Any client may present a code it has got hold of, with the verifier of the challenge or not.
Exchange(h, c, k, verified) ==
  /\ IsIdle(h)
  /\ c \in registered
  /\ k \in Codes \cap delivered
  /\ Become(h, [Idle EXCEPT !.pc = IF verified THEN "challenging" ELSE "unverified",
                            !.client = c, !.given = k])
  /\ UNCHANGED <<world, browsing, stores, observed>>

\* delete as a bug would have it: the document is overwritten by a marker.
MutKill(k) == code' = [code EXCEPT ![k] = [stage |-> "dead"]]

Kill(k) == code' = [code EXCEPT ![k].stage = "dead"]

\* challengeForAuthorizationCode and the comparison by the SDK.  An expired code is deleted;
\* whoever consumed it in between has left nothing to delete.
Challenge(h) ==
  LET k == handler[h].given IN
  /\ handler[h].pc \in {"challenging", "unverified"}
  /\ \/ /\ code[k].stage = "listed" /\ code[k].client = handler[h].client /\ k \notin expired
        /\ IF At(h, "challenging") THEN Goto(h, "consuming") ELSE Done(h)
        /\ UNCHANGED <<code, disturbed>>
     \/ /\ code[k].stage = "listed" /\ code[k].client = handler[h].client /\ k \in expired
        /\ Kill(k) /\ Done(h)
        /\ disturbed' = disturbed \cup {k}
     \/ /\ code[k].stage # "listed" \/ code[k].client # handler[h].client
        /\ Done(h)
        /\ UNCHANGED <<code, disturbed>>
  /\ UNCHANGED <<world, browsing, session, refresh, delivered>>

Minting(h, c, u, given, grant) ==
  Become(h, [Idle EXCEPT !.pc = "minting", !.client = c, !.user = u,
                         !.given = given, !.grant = grant])

\* consume as a bug would have it: the code is read, and its deletion comes to nothing.
MutConsume(h) ==
  LET k == handler[h].given IN
  /\ At(h, "consuming")
  /\ IF code[k].stage # "listed" \/ k \in expired THEN Done(h)
     ELSE Minting(h, handler[h].client, code[k].user, k, k)
  /\ UNCHANGED <<world, browsing, stores, observed>>

\* exchangeAuthorizationCode: the code is read and deleted at once, whatever comes next.
Consume(h) ==
  LET k == handler[h].given
      good == code[k].client = handler[h].client /\ k \notin expired
  IN  /\ At(h, "consuming")
      /\ IF code[k].stage # "listed" THEN Done(h) /\ UNCHANGED <<code, disturbed>>
         ELSE IF good
         THEN /\ code' = [code EXCEPT ![k].stage = "redeemed"]
              /\ \/ /\ Minting(h, handler[h].client, code[k].user, k, k)
                    /\ UNCHANGED disturbed
                 \/ Done(h) /\ disturbed' = disturbed \cup {k}
         ELSE Kill(k) /\ Done(h) /\ disturbed' = disturbed \cup {k}
      /\ UNCHANGED <<world, browsing, session, refresh, delivered>>

\* exchangeRefreshToken as a bug would have it: any client's token will do.
MutRefresh(h, c, j) ==
  /\ IsIdle(h)
  /\ c \in registered /\ j \in Refreshes \cap delivered /\ j \notin expired
  /\ Become(h, [Idle EXCEPT !.pc = "rotating", !.client = c, !.given = j])
  /\ UNCHANGED <<world, browsing, stores, observed>>

\* exchangeRefreshToken up to its await: a token of another client is refused.
Refresh(h, c, j) ==
  /\ IsIdle(h)
  /\ c \in registered
  /\ j \in Refreshes \cap delivered
  /\ j \notin expired /\ refresh[j].client = c
  /\ Become(h, [Idle EXCEPT !.pc = "rotating", !.client = c, !.given = j])
  /\ UNCHANGED <<world, browsing, stores, observed>>

\* consume as a bug would have it: has() now, delete() some time later.
MutRotate(h) ==
  LET j == handler[h].given IN
  /\ At(h, "rotating")
  /\ IF refresh[j].stage = "listed"
     THEN Minting(h, handler[h].client, refresh[j].user, j, refresh[j].grant)
     ELSE Done(h)
  /\ UNCHANGED <<world, browsing, stores, observed>>

\* The jti is consumed; the transaction may be done and throw nevertheless.
Rotate(h) ==
  LET j == handler[h].given
      k == refresh[j].grant
  IN  /\ At(h, "rotating")
      /\ IF refresh[j].stage # "listed" THEN Done(h) /\ UNCHANGED <<refresh, disturbed>>
         ELSE IF j \in expired
         THEN /\ refresh' = [refresh EXCEPT ![j].stage = "dead"]
              /\ disturbed' = disturbed \cup {k}
              /\ Done(h)
         ELSE /\ refresh' = [refresh EXCEPT ![j].stage = "redeemed"]
              /\ \/ /\ Minting(h, handler[h].client, refresh[j].user, j, k)
                    /\ UNCHANGED disturbed
                 \/ Done(h) /\ disturbed' = disturbed \cup {k}
      /\ UNCHANGED <<world, browsing, session, code, delivered>>

\* generateTokens as a bug would have it: the answer does not wait for the put.
MutMint(h) ==
  /\ At(h, "minting")
  /\ \E j \in Refreshes :
       /\ refresh[j].stage = "free"
       /\ \E to \in {"listed", "dead"} :
            refresh' = [refresh EXCEPT ![j] =
              [stage |-> to, client |-> handler[h].client, user |-> handler[h].user,
               grant |-> handler[h].grant, from |-> handler[h].given]]
       /\ delivered' = delivered \cup {j}
  /\ Done(h)
  /\ UNCHANGED <<world, browsing, session, code, disturbed>>

\* generateTokens: the new jti is put, then the pair is answered - or the answer is lost.
Mint(h) ==
  /\ At(h, "minting")
  /\ \E j \in Refreshes :
       /\ refresh[j].stage = "free"
       /\ refresh' = [refresh EXCEPT ![j] =
            [stage |-> "listed", client |-> handler[h].client, user |-> handler[h].user,
             grant |-> handler[h].grant, from |-> handler[h].given]]
       /\ \/ delivered' = delivered \cup {j} /\ UNCHANGED disturbed
          \/ disturbed' = disturbed \cup {handler[h].grant} /\ UNCHANGED delivered
  /\ Done(h)
  /\ UNCHANGED <<world, browsing, session, code>>

\* revokeToken: any client, any token; one that does not verify is answered as revoked.
Revoke(h, c, j) ==
  /\ IsIdle(h)
  /\ c \in registered
  /\ j \in Refreshes \cap delivered
  /\ j \notin expired
  /\ Become(h, [Idle EXCEPT !.pc = "revoking", !.client = c, !.given = j])
  /\ UNCHANGED <<world, browsing, stores, observed>>

\* What the store throws here is swallowed, and the revocation is answered as done.
Unlist(h) ==
  LET j == handler[h].given IN
  /\ At(h, "revoking")
  /\ IF refresh[j].stage = "listed"
     THEN \/ /\ refresh' = [refresh EXCEPT ![j].stage = "dead"]
             /\ disturbed' = disturbed \cup {refresh[j].grant}
          \/ UNCHANGED <<refresh, disturbed>>
     ELSE UNCHANGED <<refresh, disturbed>>
  /\ Done(h)
  /\ UNCHANGED <<world, browsing, session, code, delivered>>

-----------------------------------------------------------------------------
(* What may befall all of it. *)

\* The store throws without effect where nothing catches it, or the process dies.
Fails(h) ==
  /\ ~ IsIdle(h)
  /\ disturbed' = disturbed \cup ({handler[h].grant} \cap Codes)
  /\ Done(h)
  /\ UNCHANGED <<world, browsing, stores, delivered>>

Expire(i) ==
  /\ i \notin expired
  /\ \/ i \in Nonces /\ attempt[i] # None
     \/ i \in Sessions /\ session[i].stage = "listed"
     \/ i \in Codes /\ code[i].stage = "listed"
     \/ i \in Refreshes /\ refresh[i].stage = "listed"
  /\ expired' = expired \cup {i}
  /\ UNCHANGED <<persistent, registered, browsing, stores, observed, handler>>

Lost(store) ==
  [i \in DOMAIN store |->
     IF store[i].stage = "listed" THEN [store[i] EXCEPT !.stage = "dead"] ELSE store[i]]

\* A restart empties the stores in memory; a secret drawn at random goes with them.
Restart ==
  /\ ~ persistent
  /\ registered' = {}
  /\ session' = Lost(session) /\ code' = Lost(code) /\ refresh' = Lost(refresh)
  /\ expired' \in {expired, expired \cup Nonces}
  /\ handler' = [h \in Handlers |-> Idle]
  /\ disturbed' = disturbed \cup {k \in Codes : code[k].stage # "free"}
  /\ UNCHANGED <<persistent, browsing, delivered>>

Next ==
  \/ Restart
  \/ \E c \in Clients : Register(c)
  \/ \E b \in Browsers, n \in Nonces, c \in Clients, redirect \in Redirects :
       StartSignIn(b, n, c, redirect)
  \/ \E i \in Ids : Expire(i)
  \/ \E h \in Handlers :
       \/ SignIn(h) \/ OpenSession(h) \/ Reject(h)
       \/ CloseSession(h) \/ ClearCookie(h)
       \/ CheckSession(h) \/ ShowConsent(h) \/ Authorize(h)
       \/ Challenge(h) \/ Consume(h) \/ Rotate(h) \/ Mint(h) \/ Unlist(h)
       \/ Fails(h)
       \/ \E b \in Browsers : Logout(h, b)
       \/ \E b \in Browsers, n \in Nonces : Callback(h, b, n)
       \/ \E b \in Browsers, c \in Clients : Consent(h, b, c)
       \/ \E b \in Browsers, c \in Clients, redirect \in Redirects :
            AskConsent(h, b, c, redirect)
       \/ \E c \in Clients, k \in Codes, verified \in BOOLEAN : Exchange(h, c, k, verified)
       \/ \E c \in Clients, j \in Refreshes : Refresh(h, c, j) \/ Revoke(h, c, j)

Spec == Init /\ [][Next]_vars

-----------------------------------------------------------------------------

Steps == {"idle", "signing in", "rejecting", "opening", "closing", "clearing", "cleared",
          "asking", "showing", "consenting", "authorizing", "challenging", "unverified", "consuming", "rotating",
          "minting", "revoking"}

Handling ==
  [pc : Steps, browser : Browsers \cup {None}, nonce : Nonces \cup {None},
   session : Sessions \cup {None}, client : Clients \cup {None}, user : Users \cup {None},
   given : Codes \cup Refreshes \cup {None}, grant : Codes \cup {None}]

\* The types of the stores' records (persistent-auth-codes.ts:5-12,
\* persistent-jti-store.ts:12-18), the cookies and the requests under way.
TypeOK ==
  /\ persistent \in BOOLEAN
  /\ registered \subseteq Clients
  /\ browser \in [Browsers -> [nonce : Nonces \cup {None}, session : Sessions \cup {None}]]
  /\ attempt \in [Nonces -> Browsers \cup {None}]
  /\ session \in [Sessions -> [stage : Stage, user : Users \cup {None}]]
  /\ code \in [Codes ->
       [stage : Stage, client : Clients \cup {None}, user : Users \cup {None}]]
  /\ refresh \in [Refreshes ->
       [stage : Stage, client : Clients \cup {None}, user : Users \cup {None},
        grant : Codes \cup {None}, from : Codes \cup Refreshes \cup {None}]]
  /\ expired \subseteq Ids
  /\ handler \in [Handlers -> Handling]
  /\ delivered \subseteq Codes \cup Refreshes
  /\ disturbed \subseteq Codes

\* What can still bring tokens in the line of a code: the code itself, a refresh token of
\* the line, a request that has consumed one of them.
Holders(k) ==
  {i \in {k} : code[i].stage = "listed"}
    \cup {j \in Refreshes : refresh[j].stage = "listed" /\ refresh[j].grant = k}
    \cup {h \in Handlers : At(h, "minting") /\ handler[h].grant = k}

\* oauth-provider.ts:143-144 and :215-219: however exchanges and rotations overlap, fail
\* or are repeated, there is never more than one way on from a code.
OneHolder == \A k \in Codes : \A x, y \in Holders(k) : x = y

\* oauth-provider.ts:219-220: a client has to authorize again only after a fault, a
\* revocation, an end of its time or a misuse of its code; overlap alone, of requests
\* that present the same token, never leaves the line of a code without a way on.
GrantSurvives ==
  \A k \in Codes \ disturbed : code[k].stage # "free" => Holders(k) # {}

\* oauth-provider.ts:150-154 and :202-206: a refresh token is one of the client and the
\* user that its code was issued to, over all rotations.
TokenActsForItsUser ==
  \A j \in Refreshes :
    refresh[j].stage # "free" =>
      LET k == refresh[j].grant IN
        refresh[j].client = code[k].client /\ refresh[j].user = code[k].user

\* oauth-state.ts:63: a browser gets the session of a sign-in that it began itself, and
\* of a user on the allow-list.
SignInIsOwn ==
  [][\A b \in Browsers :
       LET s == browser'[b].session IN
       s # None /\ s # browser[b].session =>
         /\ \E h \in Handlers :
              At(h, "opening") /\ handler[h].browser = b /\ attempt[handler[h].nonce] = b
         /\ IsAllowed(session'[s].user)]_vars

\* session.ts:46-49: no request passes with the cookie of a session that a sign-out has
\* closed, neither to the page with the user's tokens nor to a code, were the cookie read
\* from the browser before the response to the sign-out cleared it.
SignedOutStaysOut ==
  [][\A h \in Handlers :
       handler'[h].pc \in {"showing", "authorizing"} /\ handler'[h].pc # handler[h].pc =>
         /\ session[handler[h].session].stage # "dead"
         /\ \A g \in Handlers :
              ~ (At(g, "cleared") /\ handler[g].session = handler[h].session)]_vars

Credentials == Sessions \cup Codes \cup Refreshes

credential == [c \in Credentials |->
  IF c \in Sessions THEN session[c].stage
  ELSE IF c \in Codes THEN code[c].stage ELSE refresh[c].stage]

origin == [c \in Credentials |->
  IF c \in Refreshes THEN refresh[c].from ELSE None]

Promise == INSTANCE SingleUse WITH
  First <- Sessions \cup Codes,
  stage <- credential, parent <- origin

\* RFC 6749 10.5 as quoted at oauth-provider.ts:144, and session.ts:46-49: codes, refresh
\* tokens and sessions are credentials of single use that do not come back.
ImplementsSingleUse == Promise!Spec
=============================================================================
