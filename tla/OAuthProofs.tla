----------------------------- MODULE OAuthProofs -----------------------------
(***************************************************************************)
(* What the run of OAuthServer shows, for any number of handlers,          *)
(* browsers, users, clients and ids.                                       *)
(***************************************************************************)
EXTENDS OAuthServer, TLAPS

\* Where a handler has a browser to answer, a session to look up, something it was given.
Facing == {"signing in", "rejecting", "opening", "closing", "clearing", "cleared"}
LookingUp == {"closing", "cleared", "asking", "consenting", "authorizing", "showing"}

Proper ==
  {c \in Handling :
     /\ c.pc \in Facing => c.browser \in Browsers
     /\ c.pc \in LookingUp => c.session \in Sessions
     /\ c.pc \in {"challenging", "unverified", "consuming"} => c.given \in Codes
     /\ c.pc \in {"rotating", "revoking"} => c.given \in Refreshes
     /\ c.pc = "minting" => c.given \in Codes \cup Refreshes /\ c.grant \in Codes}

\* What redeems nothing.
Quiet == {c \in Proper : c.pc \notin {"minting", "rotating"}}

\* Where nobody is signed in or out.
Elsewhere == {c \in Proper : c.pc \notin {"signing in", "opening", "closing", "cleared"}}

CodeRecords == [stage : Stage, client : Clients \cup {None}, user : Users \cup {None}]

\* A refresh token that was issued is of the line of a code.
RefreshRecords ==
  {r \in [stage : Stage, client : Clients \cup {None}, user : Users \cup {None},
          grant : Codes \cup {None}, from : Codes \cup Refreshes \cup {None}] :
     r.stage # "free" => r.grant \in Codes}

Types ==
  /\ TypeOK
  /\ handler \in [Handlers -> Proper]
  /\ refresh \in [Refreshes -> RefreshRecords]

-----------------------------------------------------------------------------

LEMMA IdleIsQuiet == Idle \in Quiet /\ Idle \in Elsewhere
BY DEF Idle, Quiet, Elsewhere, Proper, Handling, Steps, Facing, LookingUp

LEMMA QuietIsProper == Quiet \subseteq Proper /\ Elsewhere \subseteq Proper
BY DEF Quiet, Elsewhere

\* A handler that has redeemed what it was given.
MintingFor(c, u, given, grant) ==
  [Idle EXCEPT !.pc = "minting", !.client = c, !.user = u, !.given = given, !.grant = grant]

LEMMA MintingIsProper ==
  ASSUME NEW c \in Clients \cup {None}, NEW u \in Users \cup {None},
         NEW given \in Codes \cup Refreshes, NEW grant \in Codes
  PROVE  MintingFor(c, u, given, grant) \in Proper /\ MintingFor(c, u, given, grant) \in Elsewhere
BY DEF MintingFor, Elsewhere, Idle, Proper, Handling, Steps, Facing, LookingUp

\* A handler moves itself only.
Moves(h, c) ==
  /\ handler' \in [Handlers -> Proper]
  /\ handler'[h] = c
  /\ \A g \in Handlers \ {h} : handler'[g] = handler[g]

LEMMA Moving ==
  ASSUME Types, NEW h \in Handlers, NEW c \in Proper, Become(h, c)
  PROVE  Moves(h, c)
BY DEF Types, Become, Moves

LEMMA Ending ==
  ASSUME Types, NEW h \in Handlers, Done(h)
  PROVE  Moves(h, Idle)
BY Moving, IdleIsQuiet, QuietIsProper DEF Done

LEMMA Going ==
  ASSUME Types, NEW h \in Handlers, NEW pc \in Steps, Goto(h, pc),
         [handler[h] EXCEPT !.pc = pc] \in Proper
  PROVE  Moves(h, [handler[h] EXCEPT !.pc = pc])
<1>1. Become(h, [handler[h] EXCEPT !.pc = pc])
  BY DEF Goto, Become, Types
<1> QED BY <1>1, Moving

-----------------------------------------------------------------------------
(* Each action keeps the types.                                            *)

USE DEF world, browsing, stores, observed

LEMMA InitTyped == Init => Types
<1> SUFFICES ASSUME Init PROVE Types OBVIOUS
<1>1. handler \in [Handlers -> Proper] /\ handler \in [Handlers -> Handling]
  BY IdleIsQuiet, QuietIsProper DEF Init, Proper
<1>2. /\ refresh \in [Refreshes -> RefreshRecords]
      /\ refresh \in [Refreshes ->
           [stage : Stage, client : Clients \cup {None}, user : Users \cup {None},
            grant : Codes \cup {None}, from : Codes \cup Refreshes \cup {None}]]
  BY DEF Init, RefreshRecords, Stage
<1> QED BY <1>1, <1>2 DEF Init, Types, TypeOK, Stage

LEMMA MovesTyped ==
  ASSUME Types, NEW h \in Handlers, NEW c, Moves(h, c), UNCHANGED <<world, browsing, stores, observed>>
  PROVE  Types'
BY DEF Types, TypeOK, Moves, Proper

LEMMA BrowserTyped ==
  ASSUME Types,
         \/ \E c \in Clients : Register(c)
         \/ \E b \in Browsers, n \in Nonces, c \in Clients, redirect \in Redirects :
              StartSignIn(b, n, c, redirect)
         \/ \E i \in Ids : Expire(i)
  PROVE  Types' /\ UNCHANGED handler
<1>1. ASSUME NEW c \in Clients, Register(c) PROVE Types' /\ UNCHANGED handler
  BY <1>1 DEF Register, Types, TypeOK
<1>2. ASSUME NEW b \in Browsers, NEW n \in Nonces, NEW c \in Clients, NEW redirect \in Redirects,
             StartSignIn(b, n, c, redirect)
      PROVE  Types' /\ UNCHANGED handler
  <2>1. browser' \in [Browsers -> [nonce : Nonces \cup {None}, session : Sessions \cup {None}]]
    BY <1>2 DEF StartSignIn, Types, TypeOK
  <2>2. attempt' \in [Nonces -> Browsers \cup {None}]
    BY <1>2 DEF StartSignIn, Types, TypeOK
  <2> QED BY <1>2, <2>1, <2>2 DEF StartSignIn, Types, TypeOK
<1>3. ASSUME NEW i \in Ids, Expire(i) PROVE Types' /\ UNCHANGED handler
  BY <1>3 DEF Expire, Types, TypeOK
<1> QED BY <1>1, <1>2, <1>3

\* What a handler becomes when it goes on.
LEMMA OnwardsIsQuiet ==
  ASSUME NEW c \in Proper
  PROVE  /\ c.pc \in Facing => [c EXCEPT !.pc = "rejecting"] \in Quiet
         /\ c.pc \in Facing => \A u \in Users : [c EXCEPT !.pc = "opening", !.user = u] \in Quiet
         /\ c.pc = "closing" => \A pc \in {"cleared", "clearing"} : [c EXCEPT !.pc = pc] \in Quiet
         /\ c.pc \in {"asking", "consenting"} =>
              \A pc \in {"showing", "authorizing"}, u \in Users \cup {None} :
                [c EXCEPT !.pc = pc, !.user = u] \in Quiet \cap Elsewhere
         /\ c.pc = "challenging" => [c EXCEPT !.pc = "consuming"] \in Quiet \cap Elsewhere
<1> USE DEF Quiet, Elsewhere, Proper, Handling, Steps, Facing, LookingUp
<1>1. c.pc \in Facing => [c EXCEPT !.pc = "rejecting"] \in Quiet OBVIOUS
<1>2. c.pc \in Facing => \A u \in Users : [c EXCEPT !.pc = "opening", !.user = u] \in Quiet OBVIOUS
<1>3. c.pc = "closing" => \A pc \in {"cleared", "clearing"} : [c EXCEPT !.pc = pc] \in Quiet OBVIOUS
<1>4. c.pc \in {"asking", "consenting"} =>
        \A pc \in {"showing", "authorizing"}, u \in Users \cup {None} :
          [c EXCEPT !.pc = pc, !.user = u] \in Quiet \cap Elsewhere OBVIOUS
<1>5. c.pc = "challenging" => [c EXCEPT !.pc = "consuming"] \in Quiet \cap Elsewhere OBVIOUS
<1> QED BY <1>1, <1>2, <1>3, <1>4, <1>5

LEMMA HandlerProper == ASSUME Types, NEW h \in Handlers PROVE handler[h] \in Proper
BY DEF Types

Cookies == [nonce : Nonces \cup {None}, session : Sessions \cup {None}]

LEMMA CookiesTyped ==
  ASSUME Types
  PROVE  /\ browser \in [Browsers -> Cookies]
         /\ session \in [Sessions -> [stage : Stage, user : Users \cup {None}]]
BY DEF Types, TypeOK, Cookies

\* A handler moves, and sessions and cookies change.
LEMMA SessionTyped ==
  ASSUME Types, NEW h \in Handlers, NEW c, Moves(h, c),
         browser' \in [Browsers -> Cookies],
         session' \in [Sessions -> [stage : Stage, user : Users \cup {None}]],
         UNCHANGED <<world, attempt, code, refresh, observed>>
  PROVE  Types'
BY DEF Types, TypeOK, Moves, Proper, Cookies

LEMMA SigningInTyped ==
  ASSUME Types, NEW h \in Handlers,
         \/ \E b \in Browsers, n \in Nonces : Callback(h, b, n)
         \/ SignIn(h) \/ OpenSession(h) \/ Reject(h)
  PROVE  Types' /\ \E c \in Quiet : Moves(h, c)
<1> DEFINE P == Types' /\ \E c \in Quiet : Moves(h, c)
<1>1. ASSUME NEW b \in Browsers, NEW n \in Nonces, Callback(h, b, n)
      PROVE  P
  <2> DEFINE c == [Idle EXCEPT !.browser = b, !.nonce = n,
                     !.pc = IF StateVerified(b, n) THEN "signing in" ELSE "rejecting"]
  <2>1. c \in Quiet BY DEF Idle, Quiet, Proper, Handling, Steps, Facing, LookingUp
  <2>2. Become(h, c) BY <1>1 DEF Callback
  <2>3. Moves(h, c) BY <2>1, <2>2, Moving, QuietIsProper
  <2> QED BY <2>1, <2>3, <1>1, MovesTyped DEF Callback
<1>2. ASSUME SignIn(h) PROVE P
  <2>1. handler[h] \in Proper /\ handler[h].pc \in Facing
    BY <1>2, HandlerProper DEF SignIn, At, Facing
  <2>2. ASSUME NEW u \in Users, Become(h, [handler[h] EXCEPT !.pc = "opening", !.user = u])
        PROVE  \E c \in Quiet : Moves(h, c)
    BY <2>1, <2>2, OnwardsIsQuiet, Moving, QuietIsProper
  <2>3. CASE Goto(h, "rejecting")
    BY <2>1, <2>3, <1>2, OnwardsIsQuiet, Going, QuietIsProper, MovesTyped DEF SignIn, Steps
  <2> QED BY <2>2, <2>3, <1>2, MovesTyped DEF SignIn
<1>3. ASSUME OpenSession(h) PROVE P
  <2>1. handler[h] \in Proper /\ handler[h].pc \in Facing
    BY <1>3, HandlerProper DEF OpenSession, At, Facing
  <2>2. \E c \in Quiet : Moves(h, c)
    BY <2>1, <1>3, OnwardsIsQuiet, Going, Ending, IdleIsQuiet, QuietIsProper DEF OpenSession, Steps
  <2>3. handler[h].user \in Users \cup {None}
    BY <2>1 DEF Proper, Handling
  <2>4. session' \in [Sessions -> [stage : Stage, user : Users \cup {None}]]
    <3>1. ASSUME NEW s \in Sessions, Listed(s, handler[h].user)
          PROVE  session' \in [Sessions -> [stage : Stage, user : Users \cup {None}]]
      BY <2>3, <3>1, CookiesTyped DEF Listed, Stage
    <3> QED BY <3>1, <1>3, CookiesTyped DEF OpenSession
  <2>5. browser' \in [Browsers -> Cookies]
    <3>1. \A s \in Sessions : [nonce |-> None, session |-> s] \in Cookies BY DEF Cookies
    <3> QED BY <3>1, <1>3, CookiesTyped DEF OpenSession
  <2> QED BY <2>2, <2>4, <2>5, <1>3, SessionTyped DEF OpenSession
<1>4. ASSUME Reject(h) PROVE P
  <2>1. Moves(h, Idle) BY <1>4, Ending DEF Reject
  <2>2. browser' \in [Browsers -> Cookies]
    BY <1>4, CookiesTyped DEF Reject, Cookies
  <2> QED BY <2>1, <2>2, <1>4, IdleIsQuiet, QuietIsProper, SessionTyped, CookiesTyped DEF Reject
<1> QED BY <1>1, <1>2, <1>3, <1>4

LEMMA SigningOutTyped ==
  ASSUME Types, NEW h \in Handlers,
         \/ \E b \in Browsers : Logout(h, b)
         \/ CloseSession(h) \/ ClearCookie(h)
  PROVE  Types' /\ \E c \in Quiet : Moves(h, c)
<1> DEFINE P == Types' /\ \E c \in Quiet : Moves(h, c)
<1>1. ASSUME NEW b \in Browsers, Logout(h, b) PROVE P
  <2> DEFINE s == browser[b].session
             c == [Idle EXCEPT !.browser = b, !.session = s,
                     !.pc = IF s \in expired \cup {None} THEN "clearing" ELSE "closing"]
  <2>1. s \in Sessions \cup {None} BY CookiesTyped DEF Cookies
  <2>2. c \in Quiet BY <2>1 DEF Idle, Quiet, Proper, Handling, Steps, Facing, LookingUp
  <2>3. Become(h, c) BY <1>1 DEF Logout
  <2>4. Moves(h, c) BY <2>2, <2>3, Moving, QuietIsProper
  <2> QED BY <2>2, <2>4, <1>1, MovesTyped DEF Logout
<1>2. ASSUME CloseSession(h) PROVE P
  <2>1. handler[h] \in Proper /\ handler[h].pc = "closing"
    BY <1>2, HandlerProper DEF CloseSession, At
  <2>2. \E c \in Quiet : Moves(h, c)
    BY <2>1, <1>2, OnwardsIsQuiet, Going, QuietIsProper DEF CloseSession, Steps
  <2>3. \A s \in Sessions : [session[s] EXCEPT !.stage = "dead"] \in [stage : Stage, user : Users \cup {None}]
    BY CookiesTyped DEF Stage
  <2>4. session' \in [Sessions -> [stage : Stage, user : Users \cup {None}]]
    BY <1>2, <2>3, CookiesTyped DEF CloseSession
  <2> QED BY <2>2, <2>4, <1>2, SessionTyped, CookiesTyped DEF CloseSession
<1>3. ASSUME ClearCookie(h) PROVE P
  <2>1. Moves(h, Idle) BY <1>3, Ending DEF ClearCookie
  <2>2. browser' \in [Browsers -> Cookies]
    BY <1>3, CookiesTyped DEF ClearCookie, Cookies
  <2> QED BY <2>1, <2>2, <1>3, IdleIsQuiet, QuietIsProper, SessionTyped, CookiesTyped DEF ClearCookie
<1> QED BY <1>1, <1>2, <1>3

LEMMA ConsentTyped ==
  ASSUME Types, NEW h \in Handlers,
         \/ \E b \in Browsers, c \in Clients : Consent(h, b, c)
         \/ \E b \in Browsers, c \in Clients, redirect \in Redirects : AskConsent(h, b, c, redirect)
         \/ CheckSession(h) \/ ShowConsent(h)
  PROVE  Types' /\ \E c \in Quiet \cap Elsewhere : Moves(h, c)
<1> DEFINE P == Types' /\ \E c \in Quiet \cap Elsewhere : Moves(h, c)
<1>1. ASSUME NEW b \in Browsers, NEW c \in Clients, NEW pc \in {"asking", "consenting"},
             browser[b].session # None,
             Become(h, [Idle EXCEPT !.pc = pc, !.browser = b, !.client = c, !.session = browser[b].session]),
             UNCHANGED <<world, browsing, stores, observed>>
      PROVE  P
  <2> DEFINE s == browser[b].session
             d == [Idle EXCEPT !.pc = pc, !.browser = b, !.client = c, !.session = s]
  <2>1. s \in Sessions BY <1>1, CookiesTyped DEF Cookies
  <2>2. d \in Quiet \cap Elsewhere BY <2>1 DEF Idle, Quiet, Elsewhere, Proper, Handling, Steps, Facing, LookingUp
  <2>3. Moves(h, d) BY <2>2, <1>1, Moving, QuietIsProper
  <2> QED BY <2>2, <2>3, <1>1, MovesTyped
<1>2. ASSUME NEW b \in Browsers, NEW c \in Clients, Consent(h, b, c) PROVE P
  BY <1>1, <1>2 DEF Consent
<1>3. ASSUME NEW b \in Browsers, NEW c \in Clients, NEW redirect \in Redirects,
             AskConsent(h, b, c, redirect)
      PROVE  P
  BY <1>1, <1>3 DEF AskConsent
<1>4. ASSUME CheckSession(h) PROVE P
  <2>1. handler[h] \in Proper /\ handler[h].pc \in {"asking", "consenting"}
    BY <1>4, HandlerProper DEF CheckSession, At
  <2> DEFINE s == handler[h].session
             d == [handler[h] EXCEPT !.pc = IF At(h, "asking") THEN "showing" ELSE "authorizing",
                                     !.user = session[s].user]
  <2>2. s \in Sessions BY <2>1 DEF Proper, LookingUp
  <2>3. session[s].user \in Users \cup {None} BY <2>2, CookiesTyped
  <2>4. d \in Quiet \cap Elsewhere
    <3>1. CASE At(h, "asking") BY <3>1, <2>1, <2>3, OnwardsIsQuiet
    <3>2. CASE ~ At(h, "asking") BY <3>2, <2>1, <2>3, OnwardsIsQuiet
    <3> QED BY <3>1, <3>2
  <2>5. Become(h, d) \/ Done(h) BY <1>4 DEF CheckSession
  <2>6. \E c \in Quiet \cap Elsewhere : Moves(h, c) BY <2>4, <2>5, Moving, Ending, IdleIsQuiet, QuietIsProper
  <2> QED BY <2>6, <1>4, MovesTyped DEF CheckSession
<1>5. ASSUME ShowConsent(h) PROVE P
  BY <1>5, Ending, IdleIsQuiet, QuietIsProper, MovesTyped DEF ShowConsent
<1> QED BY <1>2, <1>3, <1>4, <1>5

LEMMA RecordsTyped ==
  ASSUME Types
  PROVE  code \in [Codes -> CodeRecords] /\ refresh \in [Refreshes -> RefreshRecords]
BY DEF Types, TypeOK, CodeRecords, RefreshRecords

\* A handler moves, and codes and refresh tokens change.
LEMMA StoresTyped ==
  ASSUME Types, NEW h \in Handlers, NEW c, Moves(h, c),
         code' \in [Codes -> CodeRecords], refresh' \in [Refreshes -> RefreshRecords],
         delivered' \subseteq Codes \cup Refreshes, disturbed' \subseteq Codes,
         UNCHANGED <<world, browsing, session>>
  PROVE  Types'
BY DEF Types, TypeOK, Moves, Proper, CodeRecords, RefreshRecords

LEMMA HandlerFields ==
  ASSUME NEW c \in Proper
  PROVE  /\ c.client \in Clients \cup {None} /\ c.user \in Users \cup {None}
         /\ c.grant \in Codes \cup {None} /\ c.given \in Codes \cup Refreshes \cup {None}
         /\ c.pc \in {"challenging", "unverified", "consuming"} => c.given \in Codes
         /\ c.pc \in {"rotating", "revoking"} => c.given \in Refreshes
         /\ c.pc = "minting" => c.given \in Codes \cup Refreshes /\ c.grant \in Codes
BY DEF Proper, Handling

LEMMA StageUpdates ==
  /\ \A r \in CodeRecords, to \in Stage : [r EXCEPT !.stage = to] \in CodeRecords
  /\ \A r \in RefreshRecords, to \in Stage :
       r.stage # "free" => [r EXCEPT !.stage = to] \in RefreshRecords
BY DEF CodeRecords, RefreshRecords

LEMMA Observing ==
  ASSUME Types
  PROVE  delivered \subseteq Codes \cup Refreshes /\ disturbed \subseteq Codes
BY DEF Types, TypeOK

LEMMA CodesTyped ==
  ASSUME Types, NEW h \in Handlers,
         Authorize(h) \/ Challenge(h) \/ Consume(h)
  PROVE  Types' /\ \E c \in Elsewhere : Moves(h, c)
<1> DEFINE P == Types' /\ \E c \in Elsewhere : Moves(h, c)
           me == handler[h]
           k == me.given
<1>a. me \in Proper BY HandlerProper
<1>b. \A to \in Stage, i \in Codes : [code EXCEPT ![i].stage = to] \in [Codes -> CodeRecords]
  BY RecordsTyped, StageUpdates
<1>c. {"listed", "redeemed", "dead"} \subseteq Stage BY DEF Stage
<1>1. ASSUME Authorize(h) PROVE P
  <2>1. PICK i \in Codes :
          /\ Issued(i, me.client, me.user)
          /\ \/ delivered' = delivered \cup {i} /\ UNCHANGED disturbed
             \/ disturbed' = disturbed \cup {i} /\ UNCHANGED delivered
    BY <1>1 DEF Authorize
  <2>2. [stage |-> "listed", client |-> me.client, user |-> me.user] \in CodeRecords
    BY <1>a, HandlerFields DEF CodeRecords, Stage
  <2>3. code' \in [Codes -> CodeRecords] BY <2>1, <2>2, RecordsTyped DEF Issued
  <2>4. Moves(h, Idle) BY <1>1, Ending DEF Authorize
  <2> QED BY <2>1, <2>3, <2>4, <1>1, IdleIsQuiet, QuietIsProper, Observing, RecordsTyped, StoresTyped DEF Authorize
<1>2. ASSUME Challenge(h) PROVE P
  <2>1. k \in Codes BY <1>2, <1>a, HandlerFields DEF Challenge, At
  <2>2. \/ UNCHANGED <<code, disturbed>>
        \/ Kill(k) /\ disturbed' = disturbed \cup {k}
    BY <1>2 DEF Challenge
  <2>3. code' \in [Codes -> CodeRecords] BY <2>1, <2>2, <1>b, <1>c, RecordsTyped DEF Kill
  <2>4. (At(h, "challenging") /\ Goto(h, "consuming")) \/ Done(h) BY <1>2 DEF Challenge
  <2>5. \E c \in Elsewhere : Moves(h, c)
    BY <2>4, <1>a, OnwardsIsQuiet, Going, Ending, IdleIsQuiet, QuietIsProper DEF At, Steps
  <2> QED BY <2>1, <2>2, <2>3, <2>5, <1>2, Observing, RecordsTyped, StoresTyped DEF Challenge
<1>3. ASSUME Consume(h) PROVE P
  <2>1. k \in Codes BY <1>3, <1>a, HandlerFields DEF Consume, At
  <2>2. /\ \/ UNCHANGED code
           \/ \E to \in {"redeemed", "dead"} : code' = [code EXCEPT ![k].stage = to]
        /\ UNCHANGED disturbed \/ disturbed' = disturbed \cup {k}
    BY <1>3 DEF Consume, Kill
  <2>3. code' \in [Codes -> CodeRecords] BY <2>1, <2>2, <1>b, <1>c, RecordsTyped
  <2> DEFINE d == MintingFor(me.client, code[k].user, k, k)
  <2>4. d \in Elsewhere
    <3>1. code[k].user \in Users \cup {None} BY <2>1, RecordsTyped DEF CodeRecords
    <3> QED BY <3>1, <2>1, <1>a, HandlerFields, MintingIsProper
  <2>5. Become(h, d) \/ Done(h) BY <1>3 DEF Consume, Minting, MintingFor
  <2>6. \E c \in Elsewhere : Moves(h, c) BY <2>4, <2>5, Moving, Ending, IdleIsQuiet, QuietIsProper
  <2> QED BY <2>1, <2>2, <2>3, <2>6, <1>3, Observing, RecordsTyped, StoresTyped DEF Consume
<1> QED BY <1>1, <1>2, <1>3

LEMMA RefreshTyped ==
  ASSUME Types, NEW h \in Handlers,
         \/ Rotate(h) \/ Mint(h) \/ Unlist(h)
         \/ \E c \in Clients, j \in Refreshes : Refresh(h, c, j)
  PROVE  Types' /\ \E c \in Elsewhere : Moves(h, c)
<1> DEFINE P == Types' /\ \E c \in Elsewhere : Moves(h, c)
           me == handler[h]
           j == me.given
<1>a. me \in Proper BY HandlerProper
<1>b. ASSUME NEW i \in Refreshes, refresh[i].stage # "free", NEW to \in {"redeemed", "dead"}
      PROVE  [refresh EXCEPT ![i].stage = to] \in [Refreshes -> RefreshRecords] /\ refresh[i].grant \in Codes
  <2>1. to \in Stage BY DEF Stage
  <2> QED BY <1>b, <2>1, RecordsTyped, StageUpdates DEF RefreshRecords
<1>1. ASSUME Rotate(h) PROVE P
  <2>1. j \in Refreshes BY <1>1, <1>a, HandlerFields DEF Rotate, At
  <2>2. CASE refresh[j].stage # "listed"
    BY <2>2, <1>1, Ending, IdleIsQuiet, QuietIsProper, Observing, RecordsTyped, StoresTyped DEF Rotate
  <2>3. CASE refresh[j].stage = "listed"
    <3>1. /\ \E to \in {"redeemed", "dead"} : refresh' = [refresh EXCEPT ![j].stage = to]
          /\ UNCHANGED disturbed \/ disturbed' = disturbed \cup {refresh[j].grant}
      BY <2>3, <1>1 DEF Rotate
    <3>2. refresh' \in [Refreshes -> RefreshRecords] /\ refresh[j].grant \in Codes
      <4>1. PICK to \in {"redeemed", "dead"} : refresh' = [refresh EXCEPT ![j].stage = to] BY <3>1
      <4>2. refresh[j].stage # "free" BY <2>3
      <4> HIDE DEF me, j
      <4> QED BY <2>1, <4>1, <4>2, <1>b
    <3> DEFINE d == MintingFor(me.client, refresh[j].user, j, refresh[j].grant)
    <3>3. d \in Elsewhere
      <4>1. refresh[j].user \in Users \cup {None} BY <2>1, RecordsTyped DEF RefreshRecords
      <4> QED BY <3>2, <4>1, <2>1, <1>a, HandlerFields, MintingIsProper
    <3>4. Become(h, d) \/ Done(h) BY <2>3, <1>1 DEF Rotate, Minting, MintingFor
    <3>5. \E c \in Elsewhere : Moves(h, c) BY <3>3, <3>4, Moving, Ending, IdleIsQuiet, QuietIsProper
    <3> QED BY <3>1, <3>2, <3>5, <1>1, Observing, RecordsTyped, StoresTyped DEF Rotate
  <2> QED BY <2>2, <2>3
<1>2. ASSUME Mint(h) PROVE P
  <2>1. me.grant \in Codes /\ j \in Codes \cup Refreshes
    BY <1>2, <1>a, HandlerFields DEF Mint, At
  <2> DEFINE record == [stage |-> "listed", client |-> me.client, user |-> me.user,
                        grant |-> me.grant, from |-> j]
  <2>2. PICK i \in Refreshes :
          /\ refresh' = [refresh EXCEPT ![i] = record]
          /\ \/ delivered' = delivered \cup {i} /\ UNCHANGED disturbed
             \/ disturbed' = disturbed \cup {me.grant} /\ UNCHANGED delivered
    BY <1>2 DEF Mint
  <2>3. record \in RefreshRecords BY <2>1, <1>a, HandlerFields DEF RefreshRecords, Stage
  <2>4. refresh' \in [Refreshes -> RefreshRecords] BY <2>2, <2>3, RecordsTyped
  <2>5. Moves(h, Idle) BY <1>2, Ending DEF Mint
  <2> QED BY <2>1, <2>2, <2>4, <2>5, <1>2, IdleIsQuiet, QuietIsProper, Observing, RecordsTyped, StoresTyped DEF Mint
<1>3. ASSUME Unlist(h) PROVE P
  <2>1. j \in Refreshes BY <1>3, <1>a, HandlerFields DEF Unlist, At
  <2>2. Moves(h, Idle) BY <1>3, Ending DEF Unlist
  <2>3. CASE UNCHANGED <<refresh, disturbed>>
    BY <2>2, <2>3, <1>3, IdleIsQuiet, QuietIsProper, Observing, RecordsTyped, StoresTyped DEF Unlist
  <2>4. CASE ~ UNCHANGED <<refresh, disturbed>>
    <3>1. /\ refresh[j].stage = "listed" /\ refresh' = [refresh EXCEPT ![j].stage = "dead"]
          /\ disturbed' = disturbed \cup {refresh[j].grant}
      BY <2>4, <1>3 DEF Unlist
    <3>2. refresh' \in [Refreshes -> RefreshRecords] /\ refresh[j].grant \in Codes
      BY <2>1, <3>1, <1>b
    <3> QED BY <2>2, <3>1, <3>2, <1>3, IdleIsQuiet, QuietIsProper, Observing, RecordsTyped, StoresTyped DEF Unlist
  <2> QED BY <2>3, <2>4
<1>4. ASSUME NEW c \in Clients, NEW i \in Refreshes, Refresh(h, c, i) PROVE P
  <2> DEFINE d == [Idle EXCEPT !.pc = "rotating", !.client = c, !.given = i]
  <2>1. d \in Elsewhere BY DEF Idle, Elsewhere, Proper, Handling, Steps, Facing, LookingUp
  <2>2. Become(h, d) BY <1>4 DEF Refresh
  <2>3. Moves(h, d) BY <2>1, <2>2, Moving, QuietIsProper
  <2> QED BY <2>1, <2>3, <1>4, MovesTyped DEF Refresh
<1> QED BY <1>1, <1>2, <1>3, <1>4

LEMMA PresentingTyped ==
  ASSUME Types, NEW h \in Handlers,
         \/ \E c \in Clients, k \in Codes, verified \in BOOLEAN : Exchange(h, c, k, verified)
         \/ \E c \in Clients, j \in Refreshes : Revoke(h, c, j)
         \/ Fails(h)
  PROVE  Types' /\ \E c \in Quiet \cap Elsewhere : Moves(h, c)
<1> DEFINE P == Types' /\ \E c \in Quiet \cap Elsewhere : Moves(h, c)
<1>1. ASSUME NEW c \in Clients, NEW k \in Codes, NEW verified \in BOOLEAN, Exchange(h, c, k, verified)
      PROVE  P
  <2> DEFINE d == [Idle EXCEPT !.pc = IF verified THEN "challenging" ELSE "unverified",
                               !.client = c, !.given = k]
  <2>1. d \in Quiet \cap Elsewhere BY DEF Idle, Quiet, Elsewhere, Proper, Handling, Steps, Facing, LookingUp
  <2>2. Become(h, d) BY <1>1 DEF Exchange
  <2>3. Moves(h, d) BY <2>1, <2>2, Moving, QuietIsProper
  <2> QED BY <2>1, <2>3, <1>1, MovesTyped DEF Exchange
<1>2. ASSUME NEW c \in Clients, NEW j \in Refreshes, Revoke(h, c, j) PROVE P
  <2> DEFINE d == [Idle EXCEPT !.pc = "revoking", !.client = c, !.given = j]
  <2>1. d \in Quiet \cap Elsewhere BY DEF Idle, Quiet, Elsewhere, Proper, Handling, Steps, Facing, LookingUp
  <2>2. Become(h, d) BY <1>2 DEF Revoke
  <2>3. Moves(h, d) BY <2>1, <2>2, Moving, QuietIsProper
  <2> QED BY <2>1, <2>3, <1>2, MovesTyped DEF Revoke
<1>3. ASSUME Fails(h) PROVE P
  <2>1. Moves(h, Idle) BY <1>3, Ending DEF Fails
  <2> QED BY <2>1, <1>3, IdleIsQuiet, Observing, RecordsTyped, StoresTyped DEF Fails
<1> QED BY <1>1, <1>2, <1>3

LEMMA RestartTyped == ASSUME Types, Restart PROVE Types'
<1>1. session' \in [Sessions -> [stage : Stage, user : Users \cup {None}]]
  BY CookiesTyped DEF Restart, Lost, Stage
<1>2. code' \in [Codes -> CodeRecords]
  BY RecordsTyped DEF Restart, Lost, CodeRecords, Stage
<1>3. refresh' \in [Refreshes -> RefreshRecords]
  BY RecordsTyped DEF Restart, Lost, RefreshRecords, Stage
<1>4. handler' \in [Handlers -> Proper] BY IdleIsQuiet, QuietIsProper DEF Restart
<1>5. expired' \subseteq Ids /\ disturbed' \subseteq Codes
  BY DEF Restart, Types, TypeOK, Ids
<1> QED BY <1>1, <1>2, <1>3, <1>4, <1>5
      DEF Restart, Types, TypeOK, CodeRecords, RefreshRecords, Proper

\* The steps of one handler.
Step(h) ==
  \/ SignIn(h) \/ OpenSession(h) \/ Reject(h)
  \/ CloseSession(h) \/ ClearCookie(h)
  \/ CheckSession(h) \/ ShowConsent(h) \/ Authorize(h)
  \/ Challenge(h) \/ Consume(h) \/ Rotate(h) \/ Mint(h) \/ Unlist(h)
  \/ Fails(h)
  \/ \E b \in Browsers : Logout(h, b)
  \/ \E b \in Browsers, n \in Nonces : Callback(h, b, n)
  \/ \E b \in Browsers, c \in Clients : Consent(h, b, c)
  \/ \E b \in Browsers, c \in Clients, redirect \in Redirects : AskConsent(h, b, c, redirect)
  \/ \E c \in Clients, k \in Codes, verified \in BOOLEAN : Exchange(h, c, k, verified)
  \/ \E c \in Clients, j \in Refreshes : Refresh(h, c, j) \/ Revoke(h, c, j)

\* The ones that redeem nothing and leave codes and refresh tokens alone.
QuietStep(h) ==
  \/ SignIn(h) \/ OpenSession(h) \/ Reject(h)
  \/ CloseSession(h) \/ ClearCookie(h)
  \/ CheckSession(h) \/ ShowConsent(h) \/ Fails(h)
  \/ \E b \in Browsers : Logout(h, b)
  \/ \E b \in Browsers, n \in Nonces : Callback(h, b, n)
  \/ \E b \in Browsers, c \in Clients : Consent(h, b, c)
  \/ \E b \in Browsers, c \in Clients, redirect \in Redirects : AskConsent(h, b, c, redirect)
  \/ \E c \in Clients, k \in Codes, verified \in BOOLEAN : Exchange(h, c, k, verified)
  \/ \E c \in Clients, j \in Refreshes : Revoke(h, c, j)

LEMMA QuietTyped ==
  ASSUME Types, NEW h \in Handlers, QuietStep(h)
  PROVE  Types' /\ \E c \in Quiet : Moves(h, c)
BY SigningInTyped, SigningOutTyped, ConsentTyped, PresentingTyped DEF QuietStep

LEMMA StepTyped ==
  ASSUME Types, NEW h \in Handlers, Step(h)
  PROVE  Types' /\ \E c \in Proper : Moves(h, c)
<1>1. CASE \/ Authorize(h) \/ Challenge(h) \/ Consume(h) \/ Rotate(h) \/ Mint(h) \/ Unlist(h)
           \/ \E c \in Clients, j \in Refreshes : Refresh(h, c, j)
  BY <1>1, CodesTyped, RefreshTyped, QuietIsProper
<1>2. CASE QuietStep(h) BY <1>2, QuietTyped, QuietIsProper
<1> QED BY <1>1, <1>2 DEF Step, QuietStep

LEMMA NextTyped == Types /\ [Next]_vars => Types'
<1> SUFFICES ASSUME Types, [Next]_vars PROVE Types' OBVIOUS
<1>1. CASE Restart BY <1>1, RestartTyped
<1>2. CASE \E h \in Handlers : Step(h) BY <1>2, StepTyped
<1>3. CASE UNCHANGED vars
  BY <1>3 DEF vars, Types, TypeOK
<1> QED BY <1>1, <1>2, <1>3, BrowserTyped DEF Next, Step

\* The types of the stores' records, the cookies and the requests under way.
THEOREM ServerTyped == Spec => []TypeOK
<1>1. Types => TypeOK BY DEF Types
<1> QED BY <1>1, InitTyped, NextTyped, PTL DEF Spec

-----------------------------------------------------------------------------
(***************************************************************************)
(* The line of a code: the code, the refresh tokens that follow from it    *)
(* one from another, and the handlers that have redeemed one of them.      *)
(***************************************************************************)

Minter(h) == handler[h].pc = "minting"
Live(j) == refresh[j].stage = "listed"

\* What was given to a minting handler, and what a refresh token was issued for.
Spent(c) == IF c \in Codes THEN code[c].stage = "redeemed" ELSE refresh[c].stage = "redeemed"
LineOf(c) == IF c \in Codes THEN c ELSE refresh[c].grant

OfItsLine(k, client, user) ==
  code[k].stage = "redeemed" /\ client = code[k].client /\ user = code[k].user

TokensFollow ==
  \A j \in Refreshes :
    /\ refresh[j].stage # "free" => OfItsLine(refresh[j].grant, refresh[j].client, refresh[j].user)
    /\ refresh[j].from # None => Spent(refresh[j].from)

MintersRedeemed ==
  \A h \in Handlers : Minter(h) =>
    /\ OfItsLine(handler[h].grant, handler[h].client, handler[h].user)
    /\ Spent(handler[h].given) /\ LineOf(handler[h].given) = handler[h].grant
    /\ \A j \in Refreshes : refresh[j].from # handler[h].given

Rotators ==
  /\ \A j \in Refreshes : j \in delivered => refresh[j].stage # "free"
  /\ \A h \in Handlers : handler[h].pc = "rotating" =>
       LET j == handler[h].given IN refresh[j].stage # "free" /\ refresh[j].client = handler[h].client

OneWay ==
  /\ \A i, j \in Refreshes : Live(i) /\ Live(j) /\ refresh[i].grant = refresh[j].grant => i = j
  /\ \A g, h \in Handlers : Minter(g) /\ Minter(h) /\ handler[g].grant = handler[h].grant => g = h
  /\ \A j \in Refreshes, h \in Handlers : Live(j) /\ Minter(h) => refresh[j].grant # handler[h].grant

Lines == TokensFollow /\ MintersRedeemed /\ Rotators /\ OneWay

-----------------------------------------------------------------------------

USE DEF world, browsing, stores, observed

LEMMA InitLines == Init => Lines
BY DEF Init, Idle, Lines, TokensFollow, MintersRedeemed, Rotators, OneWay, Minter, Live

\* What a step needs to know of the records and the handlers.
LEMMA Known ==
  ASSUME Types
  PROVE  /\ \A j \in Refreshes : refresh[j].stage # "free" => refresh[j].grant \in Codes
         /\ \A j \in Refreshes : refresh[j].from \in Codes \cup Refreshes \cup {None}
         /\ \A h \in Handlers : Minter(h) =>
              handler[h].grant \in Codes /\ handler[h].given \in Codes \cup Refreshes
         /\ \A h \in Handlers : handler[h].pc = "rotating" => handler[h].given \in Refreshes
BY DEF Types, RefreshRecords, Proper, Handling, Minter

\* A handler that redeems nothing, beside stores that stay.
LEMMA QuietLines ==
  ASSUME Types, Lines, NEW h \in Handlers, NEW c \in Proper, Moves(h, c), c.pc # "minting",
         c.pc = "rotating" => /\ refresh[c.given].stage # "free"
                              /\ refresh[c.given].client = c.client,
         UNCHANGED <<code, refresh, delivered>>
  PROVE  Lines'
<1>1. \A g \in Handlers : Minter(g)' => g # h /\ Minter(g)
  BY DEF Moves, Minter
<1>2. TokensFollow' BY DEF Lines, TokensFollow, OfItsLine, Spent
<1>3. MintersRedeemed'
  BY <1>1 DEF Lines, MintersRedeemed, OfItsLine, Spent, LineOf, Moves
<1>4. Rotators' BY DEF Lines, Rotators, Moves
<1>5. OneWay' BY <1>1 DEF Lines, OneWay, Live, Moves
<1> QED BY <1>2, <1>3, <1>4, <1>5 DEF Lines

LEMMA StandingLines ==
  ASSUME Types, Lines, UNCHANGED <<code, refresh, delivered, handler>>
  PROVE  Lines'
BY DEF Lines, TokensFollow, MintersRedeemed, Rotators, OneWay, OfItsLine, Spent, LineOf, Minter, Live

LEMMA QuietStepLines ==
  ASSUME Types, Lines, NEW h \in Handlers, QuietStep(h)
  PROVE  Lines'
<1>1. UNCHANGED <<code, refresh, delivered>>
  BY DEF QuietStep, SignIn, OpenSession, Reject, CloseSession, ClearCookie, CheckSession, ShowConsent,
         Fails, Logout, Callback, Consent, AskConsent, Exchange, Revoke
<1>2. PICK c \in Quiet : Moves(h, c) BY QuietTyped
<1> QED BY <1>1, <1>2, QuietLines DEF Quiet

LEMMA RefreshLines ==
  ASSUME Types, Lines, NEW h \in Handlers, NEW c \in Clients, NEW j \in Refreshes, Refresh(h, c, j)
  PROVE  Lines'
<1> DEFINE d == [Idle EXCEPT !.pc = "rotating", !.client = c, !.given = j]
<1>1. d \in Proper /\ d.pc = "rotating" /\ d.given = j /\ d.client = c
  BY DEF Idle, Proper, Handling, Steps, Facing, LookingUp
<1>2. Become(h, d) BY DEF Refresh
<1>3. Moves(h, d) BY <1>1, <1>2, Moving
<1>4. refresh[j].stage # "free" /\ refresh[j].client = c BY DEF Refresh, Lines, Rotators
<1>5. UNCHANGED <<code, refresh, delivered>> BY DEF Refresh
<1> HIDE DEF d
<1> QED BY <1>1, <1>3, <1>4, <1>5, QuietLines

\* A code changes that has not been redeemed yet, and no handler redeems it.
LEMMA CodeLines ==
  ASSUME Types, Lines, NEW h \in Handlers, NEW c \in Quiet, Moves(h, c),
         NEW k \in Codes, code[k].stage # "redeemed",
         \A i \in Codes : i # k => code'[i] = code[i],
         UNCHANGED refresh, delivered' \cap Refreshes \subseteq delivered
  PROVE  Lines'
<1>1. \A g \in Handlers : (Minter(g)' => g # h /\ Minter(g)) /\ (g # h => handler'[g] = handler[g])
  BY DEF Moves, Minter, Quiet
<1>2. TokensFollow'
  BY Known DEF Lines, TokensFollow, OfItsLine, Spent
<1>3. MintersRedeemed'
  BY <1>1, Known DEF Lines, MintersRedeemed, OfItsLine, Spent, LineOf
<1>4. Rotators' BY DEF Lines, Rotators, Moves, Quiet
<1>5. OneWay' BY <1>1 DEF Lines, OneWay, Live
<1> QED BY <1>2, <1>3, <1>4, <1>5 DEF Lines

\* A refresh token is redeemed or revoked, and no handler goes on with it.
LEMMA TokenLines ==
  ASSUME Types, Lines, NEW h \in Handlers, NEW c \in Quiet, Moves(h, c),
         NEW j \in Refreshes, Live(j), NEW to \in {"redeemed", "dead"},
         refresh' = [refresh EXCEPT ![j].stage = to], UNCHANGED <<code, delivered>>
  PROVE  Lines'
<1>1. \A g \in Handlers : (Minter(g)' => g # h /\ Minter(g)) /\ (g # h => handler'[g] = handler[g])
  BY DEF Moves, Minter, Quiet
<1>2. /\ \A i \in Refreshes : i # j => refresh'[i] = refresh[i]
      /\ refresh'[j].stage = to /\ refresh'[j].grant = refresh[j].grant
      /\ refresh'[j].client = refresh[j].client /\ refresh'[j].user = refresh[j].user
      /\ refresh'[j].from = refresh[j].from
  BY RecordsTyped DEF RefreshRecords
<1>3. TokensFollow'
  BY <1>2, Known DEF Lines, TokensFollow, OfItsLine, Spent, Live
<1>4. MintersRedeemed'
  BY <1>1, <1>2, Known DEF Lines, MintersRedeemed, OfItsLine, Spent, LineOf, Live
<1>5. Rotators' BY <1>2 DEF Lines, Rotators, Moves, Quiet
<1>6. OneWay' BY <1>1, <1>2 DEF Lines, OneWay, Live
<1> QED BY <1>3, <1>4, <1>5, <1>6 DEF Lines

LEMMA MinterFields ==
  \A c, u, given, grant :
    LET d == MintingFor(c, u, given, grant)
    IN  d.pc = "minting" /\ d.client = c /\ d.user = u /\ d.given = given /\ d.grant = grant
BY DEF MintingFor, Idle

LEMMA ConsumedLines ==
  ASSUME Types, Lines, NEW h \in Handlers, NEW k \in Codes,
         code[k].stage = "listed", code' = [code EXCEPT ![k].stage = "redeemed"],
         NEW c, Moves(h, c), c.pc = "minting", c.given = k, c.grant = k,
         c.client = code[k].client, c.user = code[k].user,
         UNCHANGED <<refresh, delivered>>
  PROVE  Lines'
<1>1. \A g \in Handlers : g # h => handler'[g] = handler[g] BY DEF Moves
<1>2. handler'[h] = c BY DEF Moves
<1>3. /\ \A i \in Codes : i # k => code'[i] = code[i]
      /\ code'[k].stage = "redeemed" /\ code'[k].client = code[k].client /\ code'[k].user = code[k].user
  BY RecordsTyped DEF CodeRecords
<1>4. /\ \A j \in Refreshes : refresh[j].stage # "free" => refresh[j].grant # k
      /\ \A j \in Refreshes : refresh[j].from # k
      /\ \A g \in Handlers : Minter(g) => handler[g].grant # k /\ handler[g].given # k
  <2>1. k # None BY OAuthAssumption DEF Ids
  <2> QED BY <2>1, Known DEF Lines, TokensFollow, MintersRedeemed, OfItsLine, Spent
<1>5. TokensFollow' BY <1>3, Known DEF Lines, TokensFollow, OfItsLine, Spent
<1>6. MintersRedeemed'
  BY <1>1, <1>2, <1>3, <1>4, Known DEF Lines, MintersRedeemed, OfItsLine, Spent, LineOf, Minter
<1>7. Rotators' BY <1>1, <1>2 DEF Lines, Rotators
<1>8. OneWay' BY <1>1, <1>2, <1>4 DEF Lines, OneWay, Live, Minter
<1> QED BY <1>5, <1>6, <1>7, <1>8 DEF Lines

LEMMA RotatedLines ==
  ASSUME Types, Lines, NEW h \in Handlers, NEW j \in Refreshes,
         Live(j), refresh' = [refresh EXCEPT ![j].stage = "redeemed"],
         NEW c, Moves(h, c), c.pc = "minting", c.given = j, c.grant = refresh[j].grant,
         c.client = refresh[j].client, c.user = refresh[j].user,
         UNCHANGED <<code, delivered>>
  PROVE  Lines'
<1>1. \A g \in Handlers : g # h => handler'[g] = handler[g] BY DEF Moves
<1>2. handler'[h] = c BY DEF Moves
<1>3. /\ \A i \in Refreshes : i # j => refresh'[i] = refresh[i]
      /\ refresh'[j].stage = "redeemed" /\ refresh'[j].grant = refresh[j].grant
      /\ refresh'[j].client = refresh[j].client /\ refresh'[j].user = refresh[j].user
      /\ refresh'[j].from = refresh[j].from
  BY RecordsTyped DEF RefreshRecords
<1>4. j \notin Codes /\ j # None BY OAuthAssumption DEF Ids
<1>5. /\ \A i \in Refreshes : refresh[i].from # j
      /\ \A g \in Handlers : Minter(g) => handler[g].given # j /\ handler[g].grant # refresh[j].grant
      /\ \A i \in Refreshes : Live(i) /\ refresh[i].grant = refresh[j].grant => i = j
  BY <1>4 DEF Lines, TokensFollow, MintersRedeemed, OneWay, Spent, Live
<1>6. TokensFollow' BY <1>3, Known DEF Lines, TokensFollow, OfItsLine, Spent, Live
<1>7. MintersRedeemed'
  <2>1. OfItsLine(refresh[j].grant, refresh[j].client, refresh[j].user)
    BY DEF Lines, TokensFollow, Live
  <2> QED BY <1>1, <1>2, <1>3, <1>4, <1>5, <2>1, Known
        DEF Lines, MintersRedeemed, OfItsLine, Spent, LineOf, Minter
<1>8. Rotators' BY <1>1, <1>2, <1>3 DEF Lines, Rotators
<1>9. OneWay' BY <1>1, <1>2, <1>3, <1>5 DEF Lines, OneWay, Live, Minter
<1> QED BY <1>6, <1>7, <1>8, <1>9 DEF Lines

LEMMA MintedLines ==
  ASSUME Types, Lines, NEW h \in Handlers, Minter(h), Moves(h, Idle),
         NEW j \in Refreshes, refresh[j].stage = "free",
         refresh' = [refresh EXCEPT ![j] =
           [stage |-> "listed", client |-> handler[h].client, user |-> handler[h].user,
            grant |-> handler[h].grant, from |-> handler[h].given]],
         delivered' \in {delivered, delivered \cup {j}}, UNCHANGED code
  PROVE  Lines'
<1>1. \A g \in Handlers : (Minter(g)' => g # h /\ Minter(g)) /\ (g # h => handler'[g] = handler[g])
  BY IdleIsQuiet DEF Moves, Minter, Quiet
<1>2. /\ \A i \in Refreshes : i # j => refresh'[i] = refresh[i]
      /\ refresh'[j].stage = "listed" /\ refresh'[j].grant = handler[h].grant
      /\ refresh'[j].client = handler[h].client /\ refresh'[j].user = handler[h].user
      /\ refresh'[j].from = handler[h].given
  BY RecordsTyped
<1>3. j \notin Codes /\ ~ Spent(j) BY OAuthAssumption DEF Spent
<1>4. \A i \in Codes \cup Refreshes : Spent(i) => Spent(i)' /\ LineOf(i)' = LineOf(i)
  BY <1>2, <1>3 DEF Spent, LineOf
<1>5. TokensFollow'
  BY <1>2, <1>4, Known DEF Lines, TokensFollow, MintersRedeemed, OfItsLine
<1>6. MintersRedeemed'
  <2>1. \A g \in Handlers : Minter(g)' => handler[g].given # handler[h].given
    BY <1>1 DEF Lines, MintersRedeemed, OneWay
  <2> QED BY <1>1, <1>2, <1>4, <2>1, Known DEF Lines, MintersRedeemed, OfItsLine
<1>7. Rotators' BY <1>1, <1>2, IdleIsQuiet DEF Lines, Rotators, Moves, Quiet
<1>8. OneWay' BY <1>1, <1>2 DEF Lines, OneWay, Live
<1> QED BY <1>5, <1>6, <1>7, <1>8 DEF Lines

LEMMA DyingKeeps ==
  ASSUME NEW r \in RefreshRecords
  PROVE  LET d == [r EXCEPT !.stage = "dead"]
         IN  /\ d.stage = "dead" /\ d.grant = r.grant /\ d.client = r.client
             /\ d.user = r.user /\ d.from = r.from
BY DEF RefreshRecords

LEMMA RestartLines ==
  ASSUME Types, Lines, Restart
  PROVE  Lines'
<1>1. /\ \A k \in Codes : /\ code[k].stage = "redeemed" => code'[k] = code[k]
      /\ \A j \in Refreshes :
           /\ refresh[j].stage # "listed" => refresh'[j] = refresh[j]
           /\ refresh[j].stage = "listed" => refresh'[j] = [refresh[j] EXCEPT !.stage = "dead"]
  BY RecordsTyped DEF Restart, Lost
<1>2. \A j \in Refreshes :
        /\ refresh'[j].stage # "listed" /\ (refresh'[j].stage = "free" <=> refresh[j].stage = "free")
        /\ refresh'[j].grant = refresh[j].grant /\ refresh'[j].client = refresh[j].client
        /\ refresh'[j].user = refresh[j].user /\ refresh'[j].from = refresh[j].from
        /\ refresh[j].stage = "redeemed" => refresh'[j].stage = "redeemed"
  <2> SUFFICES ASSUME NEW j \in Refreshes
               PROVE  /\ refresh'[j].stage # "listed" /\ (refresh'[j].stage = "free" <=> refresh[j].stage = "free")
                      /\ refresh'[j].grant = refresh[j].grant /\ refresh'[j].client = refresh[j].client
                      /\ refresh'[j].user = refresh[j].user /\ refresh'[j].from = refresh[j].from
                      /\ refresh[j].stage = "redeemed" => refresh'[j].stage = "redeemed"
    OBVIOUS
  <2>1. CASE refresh[j].stage = "listed" BY <1>1, <2>1, RecordsTyped, DyingKeeps
  <2>2. CASE refresh[j].stage # "listed" BY <1>1, <2>2
  <2> QED BY <2>1, <2>2
<1>3. \A h \in Handlers : ~ Minter(h)' /\ handler'[h].pc # "rotating"
  BY DEF Restart, Idle, Minter
<1>4. TokensFollow' BY <1>1, <1>2, Known DEF Lines, TokensFollow, OfItsLine, Spent
<1>5. Rotators' BY <1>2, <1>3 DEF Lines, Rotators, Restart
<1> QED BY <1>2, <1>3, <1>4, <1>5 DEF Lines, MintersRedeemed, OneWay, Live

\* The steps of the token endpoint, and what else changes a code or a refresh token.
LEMMA NextLines == Types /\ Lines /\ [Next]_vars => Lines'
<1> SUFFICES ASSUME Types, Lines, [Next]_vars PROVE Lines' OBVIOUS
<1>1. ASSUME NEW h \in Handlers, Authorize(h) PROVE Lines'
  <2>1. PICK k \in Codes :
          /\ code[k].stage = "free" /\ Issued(k, handler[h].client, handler[h].user)
          /\ delivered' \in {delivered, delivered \cup {k}}
    BY <1>1 DEF Authorize
  <2>2. \A i \in Codes : i # k => code'[i] = code[i] BY <2>1, RecordsTyped DEF Issued
  <2>3. delivered' \cap Refreshes \subseteq delivered BY <2>1, OAuthAssumption
  <2>4. Moves(h, Idle) /\ UNCHANGED refresh BY <1>1, Ending DEF Authorize
  <2> QED BY <2>1, <2>2, <2>3, <2>4, IdleIsQuiet, CodeLines
<1>2. ASSUME NEW h \in Handlers, Challenge(h) PROVE Lines'
  <2> DEFINE k == handler[h].given
  <2>1. k \in Codes BY <1>2, HandlerProper, HandlerFields DEF Challenge, At
  <2>2. UNCHANGED code \/ (code[k].stage = "listed" /\ Kill(k)) BY <1>2 DEF Challenge
  <2>3. \A i \in Codes : i # k => code'[i] = code[i] BY <2>2, RecordsTyped DEF Kill
  <2>4. \E c \in Quiet : Moves(h, c)
    <3>1. handler[h] \in Proper BY HandlerProper
    <3>2. (At(h, "challenging") /\ Goto(h, "consuming")) \/ Done(h) BY <1>2 DEF Challenge
    <3> QED BY <3>1, <3>2, OnwardsIsQuiet, Going, Ending, IdleIsQuiet, QuietIsProper DEF At, Steps
  <2>5. UNCHANGED <<refresh, delivered>> BY <1>2 DEF Challenge
  <2>6. CASE code[k].stage # "redeemed" BY <2>1, <2>3, <2>4, <2>5, <2>6, CodeLines
  <2>7. CASE UNCHANGED code BY <2>4, <2>5, <2>7, QuietLines DEF Quiet
  <2> QED BY <2>2, <2>6, <2>7
<1>3. ASSUME NEW h \in Handlers, Consume(h) PROVE Lines'
  <2> DEFINE k == handler[h].given
  <2>1. k \in Codes BY <1>3, HandlerProper, HandlerFields DEF Consume, At
  <2>2. UNCHANGED <<refresh, delivered>> BY <1>3 DEF Consume
  <2>3. CASE Done(h)
    <3>1. Moves(h, Idle) BY <2>3, Ending
    <3>2. CASE UNCHANGED code BY <2>2, <3>1, <3>2, IdleIsQuiet, QuietLines DEF Quiet
    <3>3. CASE code[k].stage = "listed"
      <4>1. \A i \in Codes : i # k => code'[i] = code[i]
        BY <1>3, <3>3, RecordsTyped DEF Consume, Kill
      <4> QED BY <2>1, <2>2, <3>1, <3>3, <4>1, IdleIsQuiet, CodeLines
    <3> QED BY <1>3, <3>2, <3>3 DEF Consume
  <2>4. CASE ~ Done(h)
    <3> DEFINE c == MintingFor(handler[h].client, code[k].user, k, k)
    <3>1. /\ code[k].stage = "listed" /\ code[k].client = handler[h].client
          /\ code' = [code EXCEPT ![k].stage = "redeemed"] /\ Become(h, c)
      BY <1>3, <2>4 DEF Consume, Minting, MintingFor
    <3>2. c \in Proper
      BY <2>1, RecordsTyped, HandlerProper, HandlerFields, MintingIsProper DEF CodeRecords
    <3>3. Moves(h, c) BY <3>1, <3>2, Moving
    <3>4. /\ c.pc = "minting" /\ c.given = k /\ c.grant = k
          /\ c.client = code[k].client /\ c.user = code[k].user
      BY <3>1, MinterFields
    <3> HIDE DEF c, k
    <3> QED BY <2>1, <2>2, <3>1, <3>3, <3>4, ConsumedLines
  <2> QED BY <2>3, <2>4
<1>4. ASSUME NEW h \in Handlers, Rotate(h) PROVE Lines'
  <2> DEFINE j == handler[h].given
  <2>1. j \in Refreshes BY <1>4, HandlerProper, HandlerFields DEF Rotate, At
  <2>2. UNCHANGED <<code, delivered>> BY <1>4 DEF Rotate
  <2>3. CASE Done(h)
    <3>1. Moves(h, Idle) BY <2>3, Ending
    <3>2. CASE UNCHANGED refresh BY <2>2, <3>1, <3>2, IdleIsQuiet, QuietLines DEF Quiet
    <3>3. CASE Live(j) /\ \E to \in {"redeemed", "dead"} : refresh' = [refresh EXCEPT ![j].stage = to]
      BY <2>1, <2>2, <3>1, <3>3, IdleIsQuiet, TokenLines
    <3> QED BY <1>4, <3>2, <3>3 DEF Rotate, Live
  <2>4. CASE ~ Done(h)
    <3> DEFINE c == MintingFor(handler[h].client, refresh[j].user, j, refresh[j].grant)
    <3>1. Live(j) /\ refresh' = [refresh EXCEPT ![j].stage = "redeemed"] /\ Become(h, c)
      BY <1>4, <2>4 DEF Rotate, Minting, MintingFor, Live
    <3>2. c \in Proper
      BY <2>1, <3>1, RecordsTyped, HandlerProper, HandlerFields, MintingIsProper DEF RefreshRecords, Live
    <3>3. Moves(h, c) BY <3>1, <3>2, Moving
    <3>4. handler[h].client = refresh[j].client
      BY <1>4 DEF Rotate, At, Lines, Rotators
    <3>5. /\ c.pc = "minting" /\ c.given = j /\ c.grant = refresh[j].grant
          /\ c.client = refresh[j].client /\ c.user = refresh[j].user
      BY <3>4, MinterFields
    <3> HIDE DEF c, j
    <3> QED BY <2>1, <2>2, <3>1, <3>3, <3>5, RotatedLines
  <2> QED BY <2>3, <2>4
<1>5. ASSUME NEW h \in Handlers, Mint(h) PROVE Lines'
  <2>1. Minter(h) /\ Moves(h, Idle) /\ UNCHANGED code BY <1>5, Ending DEF Mint, Minter, At
  <2> QED BY <1>5, <2>1, MintedLines DEF Mint
<1>6. ASSUME NEW h \in Handlers, Unlist(h) PROVE Lines'
  <2> DEFINE j == handler[h].given
  <2>1. j \in Refreshes BY <1>6, HandlerProper, HandlerFields DEF Unlist, At
  <2>2. Moves(h, Idle) /\ UNCHANGED <<code, delivered>> BY <1>6, Ending DEF Unlist
  <2>3. CASE UNCHANGED refresh BY <2>2, <2>3, IdleIsQuiet, QuietLines DEF Quiet
  <2>4. CASE Live(j) /\ refresh' = [refresh EXCEPT ![j].stage = "dead"]
    BY <2>1, <2>2, <2>4, IdleIsQuiet, TokenLines
  <2> QED BY <1>6, <2>3, <2>4 DEF Unlist, Live
<1>7. ASSUME NEW h \in Handlers, Step(h) PROVE Lines'
  BY <1>1, <1>2, <1>3, <1>4, <1>5, <1>6, <1>7, QuietStepLines, RefreshLines DEF Step, QuietStep
<1>8. CASE \/ \E c \in Clients : Register(c)
           \/ \E b \in Browsers, n \in Nonces, c \in Clients, redirect \in Redirects :
                StartSignIn(b, n, c, redirect)
           \/ \E i \in Ids : Expire(i)
           \/ UNCHANGED vars
  BY <1>8, StandingLines DEF Register, StartSignIn, Expire, vars
<1> QED BY <1>7, <1>8, RestartLines DEF Next, Step

LEMMA LinesHold == Spec => [](Types /\ Lines)
BY InitTyped, NextTyped, InitLines, NextLines, PTL DEF Spec

\* However exchanges and rotations overlap, fail or are repeated, there is never more than
\* one way on from a code.
THEOREM Holder == Spec => []OneHolder
<1>1. Types /\ Lines => OneHolder
  <2> SUFFICES ASSUME Types, Lines, NEW k \in Codes, NEW x \in Holders(k), NEW y \in Holders(k)
               PROVE  x = y
    BY DEF OneHolder
  <2>1. /\ \A j \in Refreshes : Live(j) /\ refresh[j].grant = k => code[k].stage = "redeemed"
        /\ \A h \in Handlers : Minter(h) /\ handler[h].grant = k => code[k].stage = "redeemed"
    BY DEF Lines, TokensFollow, MintersRedeemed, OfItsLine, Live
  <2> QED BY <2>1 DEF Holders, Lines, OneWay, Live, Minter, At
<1> QED BY <1>1, LinesHold, PTL

\* A refresh token is one of the client and the user that its code was issued to.
THEOREM ActsForItsUser == Spec => []TokenActsForItsUser
<1>1. Types /\ Lines => TokenActsForItsUser
  BY DEF Lines, TokensFollow, OfItsLine, TokenActsForItsUser
<1> QED BY <1>1, LinesHold, PTL

-----------------------------------------------------------------------------
(* A line that nothing disturbed has a way on.                             *)

HasWayOn(k) ==
  \/ code[k].stage = "listed"
  \/ \E j \in Refreshes : Live(j) /\ refresh[j].grant = k
  \/ \E h \in Handlers : Minter(h) /\ handler[h].grant = k

Survives == \A k \in Codes \ disturbed : code[k].stage # "free" => HasWayOn(k)

\* A handler that is no minter moves, and one code or refresh token of the line of k changes.
LEMMA OtherWays ==
  ASSUME Types, Survives, NEW h \in Handlers, ~ Minter(h), NEW c, Moves(h, c), NEW k \in Codes,
         disturbed \subseteq disturbed', k \in disturbed' \/ HasWayOn(k)',
         \A i \in Codes \ {k} : code'[i] = code[i],
         \A j \in Refreshes : Live(j) /\ refresh[j].grant # k => refresh'[j] = refresh[j]
  PROVE  Survives'
<1> SUFFICES ASSUME NEW i \in Codes \ disturbed', code'[i].stage # "free", i # k PROVE HasWayOn(i)'
  BY DEF Survives
<1>1. HasWayOn(i) BY DEF Survives
<1>2. \A g \in Handlers : Minter(g) => handler'[g] = handler[g] BY DEF Moves
<1> QED BY <1>1, <1>2 DEF HasWayOn, Live, Minter

LEMMA UntouchedWays ==
  ASSUME Types, Survives, NEW h \in Handlers, NEW c, Moves(h, c), UNCHANGED <<code, refresh>>,
         disturbed \subseteq disturbed', Minter(h) => handler[h].grant \in disturbed'
  PROVE  Survives'
<1> SUFFICES ASSUME NEW i \in Codes \ disturbed', code'[i].stage # "free" PROVE HasWayOn(i)'
  BY DEF Survives
<1>1. HasWayOn(i) BY DEF Survives
<1>2. \A g \in Handlers : Minter(g) /\ handler[g].grant = i => handler'[g] = handler[g] BY DEF Moves
<1> QED BY <1>1, <1>2 DEF HasWayOn, Live, Minter

LEMMA NextSurvives == Types /\ Lines /\ Survives /\ [Next]_vars => Survives'
<1> SUFFICES ASSUME Types, Lines, Survives, [Next]_vars PROVE Survives' OBVIOUS
<1>1. ASSUME NEW h \in Handlers, QuietStep(h) PROVE Survives'
  <2>1. \E c \in Quiet : Moves(h, c) BY <1>1, QuietTyped
  <2>2. UNCHANGED <<code, refresh>> /\ disturbed \subseteq disturbed'
    BY <1>1 DEF QuietStep, SignIn, OpenSession, Reject, CloseSession, ClearCookie, CheckSession,
                ShowConsent, Fails, Logout, Callback, Consent, AskConsent, Exchange, Revoke
  <2>3. Fails(h) => (Minter(h) => handler[h].grant \in disturbed')
    BY Known DEF Fails
  <2>4. ~ Fails(h) => ~ Minter(h)
    BY <1>1 DEF QuietStep, SignIn, OpenSession, Reject, CloseSession, ClearCookie, CheckSession,
                ShowConsent, Logout, Callback, Consent, AskConsent, Exchange, Revoke, IsIdle, At, Minter
  <2> QED BY <2>1, <2>2, <2>3, <2>4, UntouchedWays
<1>2. ASSUME NEW h \in Handlers, NEW c \in Clients, NEW j \in Refreshes, Refresh(h, c, j)
      PROVE  Survives'
  <2>1. \E d \in Proper : Moves(h, d) BY <1>2, RefreshTyped, QuietIsProper
  <2> QED BY <1>2, <2>1, UntouchedWays DEF Refresh, IsIdle, Minter
<1>3. ASSUME NEW h \in Handlers, Authorize(h) PROVE Survives'
  <2>1. PICK k \in Codes : code[k].stage = "free" /\ Issued(k, handler[h].client, handler[h].user)
    BY <1>3 DEF Authorize
  <2>2. code'[k].stage = "listed" /\ \A i \in Codes \ {k} : code'[i] = code[i]
    BY <2>1, RecordsTyped DEF Issued
  <2>3. /\ UNCHANGED refresh /\ Moves(h, Idle) /\ ~ Minter(h) /\ disturbed \subseteq disturbed'
    BY <1>3, Ending DEF Authorize, At, Minter
  <2> QED BY <2>2, <2>3, OtherWays DEF HasWayOn
<1>4. ASSUME NEW h \in Handlers, Challenge(h) PROVE Survives'
  <2> DEFINE k == handler[h].given
  <2>1. k \in Codes BY <1>4, HandlerProper, HandlerFields DEF Challenge, At
  <2>2. /\ (\E c \in Proper : Moves(h, c)) /\ UNCHANGED refresh /\ ~ Minter(h)
        /\ disturbed \subseteq disturbed'
    BY <1>4, CodesTyped, QuietIsProper DEF Challenge, At, Minter
  <2>3. UNCHANGED code \/ (Kill(k) /\ k \in disturbed') BY <1>4 DEF Challenge
  <2>4. \A i \in Codes \ {k} : code'[i] = code[i] BY <2>3, RecordsTyped DEF Kill
  <2>5. CASE UNCHANGED code BY <2>2, <2>5, UntouchedWays
  <2>6. CASE k \in disturbed' BY <2>1, <2>2, <2>4, <2>6, OtherWays
  <2> QED BY <2>3, <2>5, <2>6
<1>5. ASSUME NEW h \in Handlers, Consume(h) PROVE Survives'
  <2>1. PICK k \in Codes : k = handler[h].given
    BY <1>5, HandlerProper, HandlerFields DEF Consume, At
  <2>2. /\ (\E c \in Proper : Moves(h, c)) /\ UNCHANGED refresh /\ ~ Minter(h)
        /\ disturbed \subseteq disturbed'
    BY <1>5, CodesTyped, QuietIsProper DEF Consume, At, Minter
  <2>3. CASE UNCHANGED code BY <2>2, <2>3, UntouchedWays
  <2>4. CASE ~ UNCHANGED code
    <3>1. \A i \in Codes \ {k} : code'[i] = code[i]
      BY <1>5, <2>1, <2>4, RecordsTyped DEF Consume, Kill
    <3>2. k \in disturbed' \/ Become(h, MintingFor(handler[h].client, code[k].user, k, k))
      BY <1>5, <2>1, <2>4 DEF Consume, Minting, MintingFor
    <3>3. ASSUME Become(h, MintingFor(handler[h].client, code[k].user, k, k)) PROVE HasWayOn(k)'
      <4>1. MintingFor(handler[h].client, code[k].user, k, k) \in Proper
        BY <2>1, RecordsTyped, HandlerProper, HandlerFields, MintingIsProper DEF CodeRecords
      <4>2. Moves(h, MintingFor(handler[h].client, code[k].user, k, k)) BY <3>3, <4>1, Moving
      <4> QED BY <4>2, MinterFields DEF HasWayOn, Minter, Moves
    <3> QED BY <2>1, <2>2, <3>1, <3>2, <3>3, OtherWays
  <2> QED BY <2>3, <2>4
<1>6. ASSUME NEW h \in Handlers, Rotate(h) PROVE Survives'
  <2>1. PICK j \in Refreshes : j = handler[h].given
    BY <1>6, HandlerProper, HandlerFields DEF Rotate, At
  <2>2. /\ (\E c \in Proper : Moves(h, c)) /\ UNCHANGED code /\ ~ Minter(h)
        /\ disturbed \subseteq disturbed'
    BY <1>6, RefreshTyped, QuietIsProper DEF Rotate, At, Minter
  <2>3. CASE UNCHANGED refresh BY <2>2, <2>3, UntouchedWays
  <2>4. CASE ~ UNCHANGED refresh
    <3>1. refresh[j].stage = "listed" /\ \A i \in Refreshes \ {j} : refresh'[i] = refresh[i]
      BY <1>6, <2>1, <2>4, RecordsTyped DEF Rotate
    <3>2. PICK k \in Codes : k = refresh[j].grant BY <3>1, Known
    <3>3. k \in disturbed' \/ Become(h, MintingFor(handler[h].client, refresh[j].user, j, k))
      BY <1>6, <2>1, <2>4, <3>2 DEF Rotate, Minting, MintingFor
    <3>4. ASSUME Become(h, MintingFor(handler[h].client, refresh[j].user, j, k)) PROVE HasWayOn(k)'
      <4>1. MintingFor(handler[h].client, refresh[j].user, j, k) \in Proper
        BY <2>1, <3>2, RecordsTyped, HandlerProper, HandlerFields, MintingIsProper DEF RefreshRecords
      <4>2. Moves(h, MintingFor(handler[h].client, refresh[j].user, j, k)) BY <3>4, <4>1, Moving
      <4> QED BY <4>2, MinterFields DEF HasWayOn, Minter, Moves
    <3>5. \A i \in Refreshes : Live(i) /\ refresh[i].grant # k => refresh'[i] = refresh[i]
      BY <3>1, <3>2
    <3> QED BY <2>2, <3>2, <3>3, <3>4, <3>5, OtherWays
  <2> QED BY <2>3, <2>4
<1>7. ASSUME NEW h \in Handlers, Mint(h) PROVE Survives'
  <2>1. Minter(h) /\ Moves(h, Idle) /\ UNCHANGED code /\ disturbed \subseteq disturbed'
    BY <1>7, Ending DEF Mint, Minter, At
  <2>2. PICK j \in Refreshes :
          /\ refresh[j].stage = "free"
          /\ refresh' = [refresh EXCEPT ![j] =
               [stage |-> "listed", client |-> handler[h].client, user |-> handler[h].user,
                grant |-> handler[h].grant, from |-> handler[h].given]]
    BY <1>7 DEF Mint
  <2>3. /\ \A i \in Refreshes \ {j} : refresh'[i] = refresh[i]
        /\ refresh'[j].stage = "listed" /\ refresh'[j].grant = handler[h].grant
    BY <2>2, RecordsTyped
  <2> SUFFICES ASSUME NEW i \in Codes \ disturbed', code'[i].stage # "free" PROVE HasWayOn(i)'
    BY DEF Survives
  <2>4. HasWayOn(i) BY <2>1 DEF Survives
  <2>5. \A g \in Handlers : g # h => handler'[g] = handler[g] BY <2>1 DEF Moves
  <2> QED BY <2>1, <2>2, <2>3, <2>4, <2>5 DEF HasWayOn, Live, Minter
<1>8. ASSUME NEW h \in Handlers, Unlist(h) PROVE Survives'
  <2> DEFINE j == handler[h].given
             k == refresh[j].grant
  <2>1. j \in Refreshes BY <1>8, HandlerProper, HandlerFields DEF Unlist, At
  <2>2. /\ Moves(h, Idle) /\ UNCHANGED code /\ ~ Minter(h) /\ disturbed \subseteq disturbed'
    BY <1>8, Ending DEF Unlist, At, Minter
  <2>3. CASE UNCHANGED refresh BY <2>2, <2>3, UntouchedWays
  <2>4. CASE ~ UNCHANGED refresh
    <3>1. /\ refresh[j].stage = "listed" /\ \A i \in Refreshes \ {j} : refresh'[i] = refresh[i]
          /\ k \in disturbed'
      BY <1>8, <2>4, RecordsTyped DEF Unlist
    <3>2. k \in Codes BY <2>1, <3>1, Known
    <3>3. \A i \in Refreshes : Live(i) /\ refresh[i].grant # k => refresh'[i] = refresh[i]
      BY <3>1
    <3> HIDE DEF k, j
    <3> QED BY <2>2, <3>1, <3>2, <3>3, OtherWays
  <2> QED BY <2>3, <2>4
<1>9. CASE Restart
  <2>1. \A k \in Codes : code'[k].stage # "free" => k \in disturbed'
    BY <1>9, RecordsTyped DEF Restart, Lost, CodeRecords
  <2> QED BY <2>1 DEF Survives
<1>10. CASE \/ \E c \in Clients : Register(c)
            \/ \E b \in Browsers, n \in Nonces, c \in Clients, redirect \in Redirects :
                 StartSignIn(b, n, c, redirect)
            \/ \E i \in Ids : Expire(i)
            \/ UNCHANGED vars
  <2>1. UNCHANGED <<code, refresh, handler, disturbed>>
    BY <1>10 DEF Register, StartSignIn, Expire, vars
  <2> QED BY <2>1 DEF Survives, HasWayOn, Live, Minter
<1>11. ASSUME NEW h \in Handlers, Step(h) PROVE Survives'
  BY <1>1, <1>2, <1>3, <1>4, <1>5, <1>6, <1>7, <1>8, <1>11 DEF Step, QuietStep
<1> QED BY <1>9, <1>10, <1>11 DEF Next, Step

\* Only a fault, a revocation, an end of its time or a misuse of its code leaves a client
\* without a way on from its code.
THEOREM GrantsSurvive == Spec => []GrantSurvives
<1>1. Init => Survives BY DEF Init, Survives
<1>2. Survives => GrantSurvives
  <2> SUFFICES ASSUME Survives, NEW k \in Codes \ disturbed, code[k].stage # "free"
               PROVE  Holders(k) # {}
    BY DEF GrantSurvives
  <2>1. HasWayOn(k) BY DEF Survives
  <2> QED BY <2>1 DEF HasWayOn, Holders, Live, Minter, At
<1> QED BY <1>1, <1>2, InitTyped, NextTyped, InitLines, NextLines, NextSurvives, PTL DEF Spec
=============================================================================
