---------------------------- MODULE RequestAuth ----------------------------
(***************************************************************************)
(* A request of POST /mcp from its headers to the token of its Graph       *)
(* calls: the combined authentication and the Meta-token middleware of     *)
(* transport/http.ts, auth/api-key.ts, and the token tools of              *)
(* tools/tokens.ts.  Over stdio a call has neither headers nor a context.  *)
(* Requests stand at an await while others run.                            *)
(***************************************************************************)
EXTENDS TokenPool, FiniteSets

CONSTANTS
  Requests,
  Users,
  Holder      \* token -> whose it is, None for the operator's

ASSUME HolderAssumption == Holder \in [Tokens -> Users \cup {None}]

VARIABLES
  request,    \* request -> where it stands
  saved       \* user -> the tokens its repository has

requestVars == <<request, saved>>

Waiting ==
  [pc |-> "idle", person |-> None, header |-> None, user |-> None, token |-> None, used |-> {}]

Ended == [Waiting EXCEPT !.pc = "over"]

AuthInit ==
  /\ request = [r \in Requests |-> Waiting]
  /\ saved = [u \in Users |-> {}]

\* Headers: x-api-key; Authorization with the key, an access token of a user or of none, or
\* anything else; x-meta-token.
Person(caller) == IF caller.bearer \in Users THEN caller.bearer ELSE None

Owned(person) == {t \in OtherTokens : Holder[t] = person}

Callers ==
  {c \in [key : {"none", "right", "wrong"},
          bearer : Users \cup {"none", "key", "anonymous"},
          meta : OtherTokens \cup {None}] :
     c.meta = None \/ c.meta \in Owned(Person(c))}

\* validateApiKey, before anything else where a key is configured.
Keyed(caller) ==
  /\ config.apiKey
  /\ caller.key = "right" \/ (caller.key = "none" /\ caller.bearer = "key")

Refused(caller) ==
  \/ config.apiKey /\ caller.key = "wrong"
  \/ ~ Keyed(caller) /\ caller.bearer \in {"none", "key"}

\* fbUserId of req.auth: a request let in by its key has none, whatever else it carries.
UserOf(caller) == IF Keyed(caller) THEN None ELSE Person(caller)

\* The middleware as a bug would have it: the header goes before the token-free check.
MutRequestContext(caller) ==
  LET none == [pc |-> "running", header |-> caller.meta, user |-> None, token |-> None]
  IN IF caller.meta # None THEN [none EXCEPT !.token = caller.meta]
     ELSE IF config.tokenFree THEN none
     ELSE IF config.multiTenant /\ UserOf(caller) # None
       THEN [none EXCEPT !.pc = "resolving", !.user = UserOf(caller)]
     ELSE [none EXCEPT !.token = AccessToken(None)]

\* buildMetaTokenMiddleware, up to the await for the token of a user.
RequestContext(caller) ==
  LET none == [pc |-> "running", header |-> None, user |-> None, token |-> None]
  IN IF config.tokenFree THEN none
     ELSE IF caller.meta # None
       THEN [none EXCEPT !.header = caller.meta, !.token = caller.meta]
     ELSE IF config.multiTenant /\ UserOf(caller) # None
       THEN [none EXCEPT !.pc = "resolving", !.user = UserOf(caller)]
     ELSE [none EXCEPT !.token = AccessToken(None)]

\* POST /mcp: 401, 500 for want of a token, or on with a context.
Arrive(r, caller) ==
  /\ config.http /\ request[r].pc = "idle"
  /\ LET context == RequestContext(caller)
         failed == Refused(caller)
                   \/ (context.pc = "running" /\ context.token = None /\ ~ config.tokenFree)
     IN request' = [request EXCEPT ![r] =
          IF failed THEN Ended
          ELSE [pc |-> context.pc, person |-> Person(caller), header |-> context.header,
                user |-> context.user, token |-> context.token, used |-> {}]]
  /\ UNCHANGED saved

\* A call over stdio.
Call(r) ==
  /\ ~ config.http /\ request[r].pc = "idle"
  /\ request' = [request EXCEPT ![r].pc = "running"]
  /\ UNCHANGED saved

\* getDecryptedToken answers: a token of the user, or 401.
Resolve(r) ==
  /\ request[r].pc = "resolving"
  /\ \/ \E t \in saved[request[r].user] :
          request' = [request EXCEPT ![r].pc = "running", ![r].token = t]
     \/ request' = [request EXCEPT ![r] = Ended]
  /\ UNCHANGED saved

\* The token is read anew for each call to the Graph API; without one the call throws.
CallGraph(r) ==
  /\ request[r].pc = "running" /\ ~ config.tokenFree
  /\ LET token == AccessToken(request[r].token)
     IN request' = [request EXCEPT ![r] =
          IF token = None THEN Ended ELSE [request[r] EXCEPT !.used = @ \cup {token}]]
  /\ UNCHANGED saved

Offered == ~ config.tokenFree     \* registerAllTools leaves the token tools out

\* ads_register_token: validated with Meta, then saved for the user or in the pool.
AskRegister(r) ==
  /\ request[r].pc = "running" /\ Offered
  /\ request' = [request EXCEPT ![r].pc = "validating"]
  /\ UNCHANGED saved

Register(r, name, token) ==
  /\ request[r].pc = "validating" /\ token \in Owned(request[r].person)
  /\ request' = [request EXCEPT ![r] = Ended]
  /\ IF request[r].user # None
       THEN /\ saved' = [saved EXCEPT ![request[r].user] = @ \cup {token}]
            /\ UNCHANGED poolVars
       ELSE RegisterToken(name, token) /\ UNCHANGED saved

\* ads_set_active_token: of the user's repository (TokenRepository), or of the pool.
Activate(r, name) ==
  /\ request[r].pc = "running" /\ Offered /\ request[r].user = None
  /\ SetActiveToken(name)
  /\ request' = [request EXCEPT ![r] = Ended]
  /\ UNCHANGED saved

\* ads_delete_token: only a user's own.
DeleteToken(r, token) ==
  /\ request[r].pc = "running" /\ Offered
  /\ request[r].user # None /\ token \in saved[request[r].user]
  /\ saved' = [saved EXCEPT ![request[r].user] = @ \ {token}]
  /\ request' = [request EXCEPT ![r] = Ended]

\* Answered: nothing more is done, or the token did not validate.
Return(r) ==
  /\ request[r].pc \in {"running", "validating"}
  /\ request' = [request EXCEPT ![r] = Ended]
  /\ UNCHANGED saved

\* A request of POST /mcp, or a call over stdio.
Serve ==
  \E r \in Requests :
    \/ /\ \/ \E c \in Callers : Arrive(r, c)
          \/ Call(r) \/ Resolve(r) \/ CallGraph(r) \/ AskRegister(r) \/ Return(r)
          \/ \E t \in Tokens : DeleteToken(r, t)
       /\ UNCHANGED poolVars
    \/ \E n \in Names : Activate(r, n) \/ \E t \in OtherTokens : Register(r, n, t)

AuthTypeOK ==
  /\ config \in Settlements
  /\ PoolTypeOK
  /\ saved \in [Users -> SUBSET Tokens]
  /\ \A r \in Requests :
       LET q == request[r]
       IN /\ q.pc \in {"idle", "resolving", "running", "validating", "over"}
          /\ {q.person, q.user} \subseteq Users \cup {None}
          /\ {q.header, q.token} \subseteq Tokens \cup {None}
          /\ q.used \subseteq Tokens
          /\ q.user # None => q.person = q.user /\ config.multiTenant

\* http.ts:361-416, token-store.ts:28-47: whatever others register or switch to meanwhile,
\* every Graph call of a request carries one token: the one of its header; without it, one
\* its user saved; without a user, one the process was given for all.
ActsAsItsCaller ==
  \A r \in Requests :
    LET q == request[r]
    IN config.http =>
         /\ Cardinality(q.used) <= 1
         /\ q.header # None => q.used \subseteq {q.header}
         /\ q.user # None => \A t \in q.used : Holder[t] = q.user
         /\ q.header = None /\ q.user = None => q.used \subseteq given

\* INV-A of http.ts:351-359 and 435-450: a token-free server holds no Meta token, neither in
\* its pool nor for any request, whatever its environment and its callers bring.
TokenFreeHoldsNone ==
  config.http /\ config.tokenFree =>
    /\ given = {}
    /\ \A r \in Requests : request[r].token = None /\ request[r].used = {}
=============================================================================
