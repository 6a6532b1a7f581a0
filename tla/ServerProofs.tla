---------------------------- MODULE ServerProofs ----------------------------
(***************************************************************************)
(* The invariants of the server, each from an inductive one over the state *)
(* of its component: a step of the server is a step of each component, or  *)
(* leaves it alone (Parted).                                               *)
(***************************************************************************)
EXTENDS McpServer, FiniteSetTheorems, SequenceTheorems, TLAPS

\* What a step of the server is to each of its components.
TokenStep == Serve \/ UNCHANGED tokenVars

DoorStep ==
  \/ /\ \E d \in Doors : Sweep(d) \/ \E a \in Addresses : Request(d, a)
     /\ UNCHANGED now
  \/ UNCHANGED doorVars /\ (Tick \/ UNCHANGED now)

WriteStep == WriteOn \/ (\E a \in Asks : AskWrite(a)) \/ UNCHANGED write

QueryStep == FollowAdvice \/ (\E q \in Queries : AskInsights(q)) \/ UNCHANGED query

ReportStep ==
  \/ /\ \/ \E p \in Reports : CreateReport(p) \/ EndReport(p) \/ PollStatus(p)
        \/ \E w \in Waits : WaitOn(w)
        \/ \E w \in Waits, p \in Reports, m \in MaxWaits, i \in PollIntervals : RunAndWait(w, p, m, i)
     /\ UNCHANGED now
  \/ UNCHANGED reportVars /\ (Tick \/ UNCHANGED now)

DownloadStep ==
  \/ DownloadOn
  \/ \E kind \in {"download", "vet"}, url \in Urls : AskDownload(kind, url)
  \/ UNCHANGED fetch

ReadStep ==
  \/ Conclude
  \/ \E i \in DOMAIN reading.answers : AnswerRead(i)
  \/ \E c \in Calls : AskReads(c)
  \/ UNCHANGED reading

LEMMA Parted ==
  [Next]_vars =>
    /\ UNCHANGED <<config, load>>
    /\ TokenStep /\ DoorStep /\ WriteStep /\ QueryStep /\ ReportStep /\ DownloadStep /\ ReadStep
<1> SUFFICES ASSUME [Next]_vars
             PROVE  /\ UNCHANGED <<config, load>>
                    /\ TokenStep /\ DoorStep /\ WriteStep /\ QueryStep /\ ReportStep
                    /\ DownloadStep /\ ReadStep
  OBVIOUS
<1> USE DEF TokenStep, DoorStep, WriteStep, QueryStep, ReportStep, DownloadStep, ReadStep
<1>1. CASE Door BY <1>1 DEF Door
<1>2. CASE Token BY <1>2 DEF Token
<1>3. CASE Write BY <1>3 DEF Write
<1>4. CASE Download BY <1>4 DEF Download
<1>5. CASE Upload
  <2>1. UploadImage \subseteq Asks /\ UploadVideo \subseteq Asks BY DEF Asks
  <2> QED BY <1>5, <2>1 DEF Upload
<1>6. CASE Query BY <1>6 DEF Query
<1>7. CASE RunReport BY <1>7 DEF RunReport, PollByHand
<1>8. CASE Read BY <1>8 DEF Read
<1>9. CASE TimePasses BY <1>9 DEF TimePasses
<1>10. CASE UNCHANGED vars BY <1>10 DEF vars
<1> QED BY <1>1, <1>2, <1>3, <1>4, <1>5, <1>6, <1>7, <1>8, <1>9, <1>10 DEF Next

-----------------------------------------------------------------------------
(* The tokens.                                                             *)

RequestType ==
  [pc : {"idle", "resolving", "running", "validating", "over"}, person : Users \cup {None},
   header : Tokens \cup {None}, user : Users \cup {None}, token : Tokens \cup {None},
   used : SUBSET Tokens]

AuthTypes ==
  /\ config \in Settlements
  /\ pool \in [Names -> Tokens \cup {None}]
  /\ active \in Names \cup {None} /\ (active # None => pool[active] # None)
  /\ given \subseteq Tokens
  /\ saved \in [Users -> SUBSET Tokens]
  /\ request \in [Requests -> RequestType]

\* A token of a request is that of its header, one of its user, or one of the supply.
Owns(q, supply) ==
  CASE q.header # None -> q.token = q.header
    [] q.header = None /\ q.user # None -> Holder[q.token] = q.user
    [] q.header = None /\ q.user = None -> q.token \in supply

\* A request whose token stays the one that it began with.
Sound(q, c, supply) ==
  /\ q.user # None => q.person = q.user /\ q.header = None /\ c.multiTenant
  /\ q.pc = "validating" => ~ c.tokenFree
  /\ q.pc = "resolving" => ~ c.tokenFree /\ q.user # None /\ q.header = None /\ q.token = None
  /\ c.http =>
       /\ q.used \subseteq {q.token} \ {None}
       /\ q.pc \in {"running", "validating"} /\ ~ c.tokenFree => q.token # None
       /\ c.tokenFree => q.token = None
       /\ q.token # None => Owns(q, supply)

RequestsSound == \A r \in Requests : Sound(request[r], config, given)

\* What the process offers to all was given to it, what a user has saved is the user's, and
\* a token-free server was given nothing.
Supplies ==
  /\ \A n \in Names : pool[n] # None => pool[n] \in given
  /\ EnvToken # None => EnvToken \in given
  /\ \A u \in Users : \A t \in saved[u] : Holder[t] = u
  /\ config.http /\ config.tokenFree => given = {}

AuthInv == AuthTypes /\ RequestsSound /\ Supplies

-----------------------------------------------------------------------------

LEMMA Settling ==
  ASSUME NEW c \in Settlements
  PROVE  /\ c.metaTokens \in NamedTokens
         /\ c.http /\ c.tokenFree => ~ c.metaToken /\ c.metaTokens = "none"
<1>1. PICK env \in Environments : Starts(env) /\ c = Settled(env) BY DEF Settlements
<1>2. env.metaTokens \in NamedTokens BY DEF Environments
<1>3. /\ c.metaTokens = env.metaTokens /\ c.metaToken = env.metaToken
      /\ c.tokenFree = TokenFree(env) /\ c.http = (env.transport = "http")
  BY <1>1 DEF Settled
<1> QED BY <1>1, <1>2, <1>3 DEF Starts, Leaks

LEMMA Beginning ==
  /\ Waiting \in RequestType /\ Ended \in RequestType
  /\ \A c, supply : Sound(Waiting, c, supply) /\ Sound(Ended, c, supply)
<1>1. Waiting \in RequestType /\ Ended \in RequestType BY DEF Waiting, Ended, RequestType
<1>2. \A c, supply : Sound(Waiting, c, supply) /\ Sound(Ended, c, supply)
  BY DEF Waiting, Ended, Sound
<1> QED BY <1>1, <1>2

LEMMA AuthBegins == ConfigInit /\ PoolInit /\ AuthInit => AuthInv
<1> SUFFICES ASSUME ConfigInit, PoolInit, AuthInit PROVE AuthInv OBVIOUS
<1>1. Loaded \in [Names -> Tokens \cup {None}] BY DEF Loaded, Tokens, Names
<1>2. active \in Names \cup {None} /\ (active # None => pool[active] # None)
  BY PoolAssumption DEF PoolInit, Loaded, Names, Tokens
<1>3. EnvToken \in Tokens \cup {None} BY DEF EnvToken, Tokens
<1>4. given = ({pool[n] : n \in Names} \cup {EnvToken}) \ {None} BY DEF PoolInit
<1>5. AuthTypes
  BY <1>1, <1>2, <1>3, <1>4, Beginning DEF AuthTypes, PoolInit, AuthInit, ConfigInit
<1>6. RequestsSound BY Beginning DEF RequestsSound, AuthInit
<1>7. Supplies
  <2>1. config.http /\ config.tokenFree => \A n \in Names : pool[n] = None
    BY Settling DEF ConfigInit, PoolInit, Loaded, Names
  <2>2. config.http /\ config.tokenFree => EnvToken = None
    BY Settling DEF ConfigInit, EnvToken
  <2> QED BY <1>4, <2>1, <2>2 DEF Supplies, AuthInit
<1> QED BY <1>5, <1>6, <1>7 DEF AuthInv

\* One request moves, and the process may be given more.
LEMMA Moving ==
  ASSUME AuthInv, NEW r \in Requests, NEW q \in RequestType, Sound(q, config, given'),
         request' = [request EXCEPT ![r] = q], UNCHANGED config, given \subseteq given'
  PROVE  request' \in [Requests -> RequestType] /\ RequestsSound'
<1>1. \A s \in Requests : Sound(request[s], config, given) => Sound(request[s], config, given')
  BY DEF Sound, Owns
<1>2. \A s \in Requests : request'[s] = IF s = r THEN q ELSE request[s] BY DEF AuthInv, AuthTypes
<1> QED BY <1>1, <1>2 DEF AuthInv, AuthTypes, RequestsSound

\* One request moves, and nothing is registered.
LEMMA MovingAlone ==
  ASSUME AuthInv, NEW r \in Requests, NEW q \in RequestType, Sound(q, config, given),
         request' = [request EXCEPT ![r] = q], UNCHANGED <<config, poolVars, saved>>
  PROVE  AuthInv'
<1>1. request' \in [Requests -> RequestType] /\ RequestsSound' BY Moving DEF poolVars
<1>2. AuthTypes' /\ Supplies' BY <1>1 DEF AuthInv, AuthTypes, Supplies, EnvToken, poolVars
<1> QED BY <1>1, <1>2 DEF AuthInv

-----------------------------------------------------------------------------

LEMMA Tokenless == None \notin Tokens
BY PoolAssumption

\* The token that a caller without one of its own gets.
LEMMA FromSupply ==
  ASSUME AuthInv
  PROVE  /\ AccessToken(None) \in Tokens \cup {None}
         /\ AccessToken(None) # None => AccessToken(None) \in given
BY DEF AuthInv, AuthTypes, Supplies, AccessToken, ActiveToken, EnvToken, Tokens

LEMMA ArriveKeeps ==
  ASSUME AuthInv, NEW r \in Requests, NEW caller \in Callers, Arrive(r, caller), UNCHANGED <<config, poolVars>>
  PROVE  AuthInv'
<1> DEFINE context == RequestContext(caller)
           q == [pc |-> context.pc, person |-> Person(caller), header |-> context.header,
                 user |-> context.user, token |-> context.token, used |-> {}]
<1>1. /\ caller.meta \in Tokens \cup {None} /\ Person(caller) \in Users \cup {None}
      /\ UserOf(caller) \in {Person(caller), None}
  BY DEF Callers, Person, UserOf, Tokens
<1>2. /\ context.pc \in {"running", "resolving"} /\ context.header \in Tokens \cup {None}
      /\ context.user \in {Person(caller), None} /\ context.token \in Tokens \cup {None}
      /\ context.pc = "resolving" =>
           ~ config.tokenFree /\ context.user # None /\ context.header = None /\ context.token = None
      /\ context.pc = "running" => context.user = None
      /\ context.user # None => config.multiTenant
      /\ config.tokenFree => context.token = None
      /\ context.header # None => context.token = context.header
      /\ context.header = None /\ context.token # None => context.token \in given
  <2>1. \/ /\ config.tokenFree
           /\ context = [pc |-> "running", header |-> None, user |-> None, token |-> None]
        \/ /\ ~ config.tokenFree /\ caller.meta # None
           /\ context = [pc |-> "running", header |-> caller.meta, user |-> None, token |-> caller.meta]
        \/ /\ ~ config.tokenFree /\ UserOf(caller) # None /\ config.multiTenant
           /\ context = [pc |-> "resolving", header |-> None, user |-> UserOf(caller), token |-> None]
        \/ /\ ~ config.tokenFree
           /\ context = [pc |-> "running", header |-> None, user |-> None, token |-> AccessToken(None)]
    <3> DEFINE none == [pc |-> "running", header |-> None, user |-> None, token |-> None]
    <3>1. CASE config.tokenFree
      <4>1. context = none BY <3>1 DEF RequestContext
      <4> QED BY <3>1, <4>1
    <3>2. CASE ~ config.tokenFree /\ caller.meta # None
      <4>1. context = [none EXCEPT !.header = caller.meta, !.token = caller.meta]
        BY <3>2 DEF RequestContext
      <4> QED BY <3>2, <4>1
    <3>3. CASE ~ config.tokenFree /\ caller.meta = None /\ config.multiTenant /\ UserOf(caller) # None
      <4>1. context = [none EXCEPT !.pc = "resolving", !.user = UserOf(caller)]
        BY <3>3 DEF RequestContext
      <4> QED BY <3>3, <4>1
    <3>4. CASE /\ ~ config.tokenFree /\ caller.meta = None
               /\ ~ (config.multiTenant /\ UserOf(caller) # None)
      <4>1. context = [none EXCEPT !.token = AccessToken(None)] BY <3>4 DEF RequestContext
      <4> QED BY <3>4, <4>1
    <3> QED BY <3>1, <3>2, <3>3, <3>4
  <2> HIDE DEF context
  <2> QED BY <1>1, <2>1, FromSupply
<1>3. q \in RequestType BY <1>1, <1>2 DEF RequestType
<1> HIDE DEF context
<1>4. \/ context.pc = "running" /\ ~ config.tokenFree /\ context.token = None
      \/ Sound(q, config, given)
  BY <1>2 DEF Sound, Owns
<1>5. request' = [request EXCEPT ![r] = Ended]
      \/ (request' = [request EXCEPT ![r] = q] /\ Sound(q, config, given))
  BY <1>4 DEF Arrive, context
<1>6. UNCHANGED saved BY DEF Arrive
<1> HIDE DEF q
<1> QED BY <1>3, <1>5, <1>6, Beginning, MovingAlone

LEMMA RequestKnown ==
  ASSUME AuthInv, NEW r \in Requests
  PROVE  request[r] \in RequestType /\ Sound(request[r], config, given)
BY DEF AuthInv, AuthTypes, RequestsSound

\* A call that begins, or asks for a registration.
LEMMA CallKeeps ==
  ASSUME AuthInv, NEW r \in Requests, Call(r) \/ AskRegister(r), UNCHANGED <<config, poolVars>>
  PROVE  AuthInv'
<1> DEFINE pc == IF Call(r) THEN "running" ELSE "validating"
           q == [request[r] EXCEPT !.pc = pc]
<1>1. /\ q \in RequestType /\ q.pc = pc /\ q.person = request[r].person /\ q.header = request[r].header
      /\ q.user = request[r].user /\ q.token = request[r].token /\ q.used = request[r].used
  BY RequestKnown DEF RequestType
<1>2. Sound(q, config, given)
  <2>1. Call(r) => ~ config.http BY DEF Call
  <2>2. ~ Call(r) => request[r].pc = "running" /\ ~ config.tokenFree BY DEF AskRegister, Offered
  <2> HIDE DEF q
  <2> QED BY <1>1, <2>1, <2>2, RequestKnown DEF Sound, Owns
<1>3. request' = [request EXCEPT ![r] = q] /\ UNCHANGED saved
  BY RequestKnown DEF Call, AskRegister
<1> HIDE DEF q
<1> QED BY <1>1, <1>2, <1>3, MovingAlone

LEMMA ResolveKeeps ==
  ASSUME AuthInv, NEW r \in Requests, Resolve(r), UNCHANGED <<config, poolVars>>
  PROVE  AuthInv'
<1>1. CASE request' = [request EXCEPT ![r] = Ended]
  BY <1>1, Beginning, MovingAlone DEF Resolve
<1>2. ASSUME NEW t \in saved[request[r].user],
             request' = [request EXCEPT ![r].pc = "running", ![r].token = t]
      PROVE  AuthInv'
  <2> DEFINE q == [request[r] EXCEPT !.pc = "running", !.token = t]
  <2>1. /\ request[r].pc = "resolving" /\ ~ config.tokenFree /\ request[r].user # None
        /\ request[r].header = None /\ request[r].user \in Users
    BY RequestKnown DEF Resolve, Sound, RequestType
  <2>2. t \in Tokens /\ Holder[t] = request[r].user BY <1>2, <2>1 DEF AuthInv, AuthTypes, Supplies
  <2>3. /\ q \in RequestType /\ q.pc = "running" /\ q.person = request[r].person /\ q.header = None
        /\ q.user = request[r].user /\ q.token = t /\ q.used = request[r].used
    BY <2>1, <2>2, RequestKnown DEF RequestType
  <2>4. config.http => q.used = {} BY <2>3, RequestKnown DEF Resolve, Sound
  <2>5. Sound(q, config, given)
    <3> HIDE DEF q
    <3> QED BY <2>1, <2>2, <2>3, <2>4, Tokenless, RequestKnown DEF Sound, Owns
  <2>6. request' = [request EXCEPT ![r] = q] BY <1>2, RequestKnown
  <2> HIDE DEF q
  <2> QED BY <2>3, <2>5, <2>6, MovingAlone DEF Resolve
<1> QED BY <1>1, <1>2 DEF Resolve

\* The token of a call is the request's own, whatever is active by now.
LEMMA CallGraphKeeps ==
  ASSUME AuthInv, NEW r \in Requests, CallGraph(r), UNCHANGED <<config, poolVars>>
  PROVE  AuthInv'
<1>1. PICK token : /\ token = AccessToken(request[r].token)
                   /\ request' = [request EXCEPT ![r] =
                        IF token = None THEN Ended ELSE [request[r] EXCEPT !.used = @ \cup {token}]]
  BY DEF CallGraph
<1>2. CASE token = None BY <1>1, <1>2, Beginning, MovingAlone DEF CallGraph
<1>3. CASE token # None
  <2> DEFINE q == [request[r] EXCEPT !.used = request[r].used \cup {token}]
  <2>1. /\ token \in Tokens
        /\ request[r].token # None => token = request[r].token
    BY <1>1, <1>3, RequestKnown DEF AuthInv, AuthTypes, AccessToken, ActiveToken, EnvToken, Tokens, RequestType
  <2>2. /\ q \in RequestType /\ q.pc = "running" /\ q.person = request[r].person
        /\ q.header = request[r].header /\ q.user = request[r].user /\ q.token = request[r].token
        /\ q.used = request[r].used \cup {token}
    BY <2>1, RequestKnown DEF RequestType, CallGraph
  <2>3. request[r].pc = "running" /\ ~ config.tokenFree BY DEF CallGraph
  <2>4. request' = [request EXCEPT ![r] = q] /\ UNCHANGED saved
    BY <1>1, <1>3, RequestKnown DEF CallGraph, AuthInv, AuthTypes
  <2> HIDE DEF q
  <2>5. Sound(q, config, given)
    BY <1>3, <2>1, <2>2, <2>3, RequestKnown DEF Sound, Owns
  <2> QED BY <2>2, <2>4, <2>5, MovingAlone
<1> QED BY <1>2, <1>3

LEMMA RegisterKeeps ==
  ASSUME AuthInv, NEW r \in Requests, NEW name \in Names, NEW token \in OtherTokens,
         Register(r, name, token), UNCHANGED config
  PROVE  AuthInv'
<1>1. /\ ~ config.tokenFree /\ Holder[token] = request[r].person
      /\ request' = [request EXCEPT ![r] = Ended]
  BY RequestKnown DEF Register, Owned, Sound
<1>2. token \in Tokens BY DEF Tokens
<1>3. CASE request[r].user # None
  <2>1. /\ saved' = [saved EXCEPT ![request[r].user] = @ \cup {token}] /\ UNCHANGED poolVars
    BY <1>3 DEF Register
  <2>2. request' \in [Requests -> RequestType] /\ RequestsSound'
    BY <1>1, <2>1, Beginning, Moving DEF poolVars
  <2>3. Holder[token] = request[r].user BY <1>1, <1>3, RequestKnown DEF Sound
  <2>4. Supplies' BY <2>1, <2>3 DEF AuthInv, AuthTypes, Supplies, EnvToken, poolVars
  <2>5. AuthTypes' BY <1>2, <2>1, <2>2 DEF AuthInv, AuthTypes, poolVars
  <2> QED BY <2>2, <2>4, <2>5 DEF AuthInv
<1>4. CASE request[r].user = None
  <2>1. RegisterToken(name, token) /\ UNCHANGED saved BY <1>4 DEF Register
  <2>2. given' = given \cup {token} BY <2>1 DEF RegisterToken
  <2>3. request' \in [Requests -> RequestType] /\ RequestsSound' BY <1>1, <2>2, Beginning, Moving
  <2>4. Supplies' BY <1>1, <2>1, <2>2 DEF RegisterToken, AuthInv, AuthTypes, Supplies, EnvToken
  <2>5. AuthTypes'
    <3>1. pool' \in [Names -> Tokens \cup {None}] /\ pool'[name] = token
      BY <1>2, <2>1 DEF RegisterToken, AuthInv, AuthTypes
    <3>2. active' \in Names \cup {None} /\ (active' # None => pool'[active'] # None)
      BY <1>2, <2>1, <3>1, Tokenless DEF RegisterToken, AuthInv, AuthTypes
    <3> QED BY <1>2, <2>1, <2>3, <3>1, <3>2 DEF RegisterToken, AuthInv, AuthTypes
  <2> QED BY <2>3, <2>4, <2>5 DEF AuthInv
<1> QED BY <1>3, <1>4

LEMMA ActivateKeeps ==
  ASSUME AuthInv, NEW r \in Requests, NEW name \in Names, Activate(r, name), UNCHANGED config
  PROVE  AuthInv'
<1>1. /\ request' = [request EXCEPT ![r] = Ended] /\ UNCHANGED <<pool, given, saved>>
      /\ active' = IF pool[name] # None THEN name ELSE active
  BY DEF Activate, SetActiveToken
<1>2. request' \in [Requests -> RequestType] /\ RequestsSound' BY <1>1, Beginning, Moving
<1>3. AuthTypes' /\ Supplies' BY <1>1, <1>2 DEF AuthInv, AuthTypes, Supplies, EnvToken
<1> QED BY <1>2, <1>3 DEF AuthInv

LEMMA DeleteKeeps ==
  ASSUME AuthInv, NEW r \in Requests, NEW token \in Tokens, DeleteToken(r, token),
         UNCHANGED <<config, poolVars>>
  PROVE  AuthInv'
<1>1. /\ request' = [request EXCEPT ![r] = Ended]
      /\ saved' = [saved EXCEPT ![request[r].user] = @ \ {token}]
  BY DEF DeleteToken
<1>2. request' \in [Requests -> RequestType] /\ RequestsSound' BY <1>1, Beginning, Moving DEF poolVars
<1>3. AuthTypes' /\ Supplies' BY <1>1, <1>2 DEF AuthInv, AuthTypes, Supplies, EnvToken, poolVars
<1> QED BY <1>2, <1>3 DEF AuthInv

LEMMA AuthGoesOn == AuthInv /\ TokenStep /\ UNCHANGED config => AuthInv'
<1> SUFFICES ASSUME AuthInv, TokenStep, UNCHANGED config PROVE AuthInv' OBVIOUS
<1>1. CASE UNCHANGED tokenVars
  BY <1>1 DEF tokenVars, poolVars, requestVars, AuthInv, AuthTypes, RequestsSound, Supplies, EnvToken
<1>2. CASE Serve
  <2>1. PICK r \in Requests :
          \/ /\ \/ \E c \in Callers : Arrive(r, c)
                \/ Call(r) \/ Resolve(r) \/ CallGraph(r) \/ AskRegister(r) \/ Return(r)
                \/ \E t \in Tokens : DeleteToken(r, t)
             /\ UNCHANGED poolVars
          \/ \E n \in Names : Activate(r, n) \/ \E t \in OtherTokens : Register(r, n, t)
    BY <1>2 DEF Serve
  <2>2. CASE (\E c \in Callers : Arrive(r, c)) /\ UNCHANGED poolVars BY <1>2, <2>2, ArriveKeeps
  <2>3. CASE (Call(r) \/ AskRegister(r)) /\ UNCHANGED poolVars BY <1>2, <2>3, CallKeeps
  <2>4. CASE Resolve(r) /\ UNCHANGED poolVars BY <1>2, <2>4, ResolveKeeps
  <2>5. CASE CallGraph(r) /\ UNCHANGED poolVars BY <1>2, <2>5, CallGraphKeeps
  <2>6. CASE Return(r) /\ UNCHANGED poolVars BY <1>2, <2>6, Beginning, MovingAlone DEF Return
  <2>7. CASE (\E t \in Tokens : DeleteToken(r, t)) /\ UNCHANGED poolVars
    BY <1>2, <2>7, DeleteKeeps
  <2>8. CASE \E n \in Names : Activate(r, n) BY <1>2, <2>8, ActivateKeeps
  <2>9. CASE \E n \in Names : \E t \in OtherTokens : Register(r, n, t)
    BY <1>2, <2>9, RegisterKeeps
  <2> QED BY <2>1, <2>2, <2>3, <2>4, <2>5, <2>6, <2>7, <2>8, <2>9
<1> QED BY <1>1, <1>2 DEF TokenStep

LEMMA AlwaysAuth == Spec => []AuthInv
<1>1. Init => AuthInv BY AuthBegins DEF Init
<1>2. AuthInv /\ [Next]_vars => AuthInv' BY AuthGoesOn, Parted
<1> QED BY <1>1, <1>2, PTL DEF Spec

-----------------------------------------------------------------------------

LEMMA OneTokenEach ==
  ASSUME AuthInv, NEW r \in Requests, config.http
  PROVE  LET q == request[r]
         IN /\ Cardinality(q.used) <= 1
            /\ q.header # None => q.used \subseteq {q.header}
            /\ q.user # None => \A t \in q.used : Holder[t] = q.user
            /\ q.header = None /\ q.user = None => q.used \subseteq given
<1>1. request[r].used \subseteq {request[r].token} \ {None} BY RequestKnown DEF Sound
<1>2. Cardinality(request[r].used) <= 1
  <2>1. request[r].used = {} \/ request[r].used = {request[r].token} BY <1>1
  <2>2. Cardinality({}) = 0 /\ Cardinality({request[r].token}) = 1 BY FS_EmptySet, FS_Singleton
  <2> QED BY <2>1, <2>2
<1>3. request[r].token # None => Owns(request[r], given) BY RequestKnown DEF Sound
<1>4. \A t \in request[r].used : t = request[r].token /\ Owns(request[r], given) BY <1>1, <1>3
<1>5. CASE request[r].header # None
  <2>1. request[r].user = None BY <1>5, RequestKnown DEF Sound
  <2> QED BY <1>2, <1>4, <1>5, <2>1 DEF Owns
<1>6. CASE request[r].header = None /\ request[r].user # None BY <1>2, <1>4, <1>6 DEF Owns
<1>7. CASE request[r].header = None /\ request[r].user = None BY <1>2, <1>4, <1>7 DEF Owns
<1> QED BY <1>5, <1>6, <1>7

\* Whatever is registered, switched or deleted while a request waits (http.ts:361-416,
\* token-store.ts:28-47), its Graph calls carry one token, and it is its caller's.
THEOREM OwnTokens == Spec => []ActsAsItsCaller
<1>1. AuthInv => ActsAsItsCaller BY OneTokenEach DEF ActsAsItsCaller
<1> QED BY <1>1, AlwaysAuth, PTL

\* A token-free server never holds a Meta token (http.ts:351-359, 435-450), whatever it
\* started with and whoever calls it.
THEOREM NoTokens == Spec => []TokenFreeHoldsNone
<1>1. AuthInv => TokenFreeHoldsNone
  BY RequestKnown DEF AuthInv, Supplies, Sound, TokenFreeHoldsNone
<1> QED BY <1>1, AlwaysAuth, PTL

-----------------------------------------------------------------------------
(* The download.                                                           *)

FetchType ==
  [pc : {"idle", "resolving", "connecting", "answering", "receiving", "over"},
   kind : {"download", "vet"}, url : Urls, vetted : SUBSET IpAddresses,
   redirects : 0 .. MaxRedirects, reached : Seq(IpAddresses), held : 0 .. MaxBytes, ok : BOOLEAN]

\* What was vetted is safe, and so is what was reached; one connection for each URL that has
\* come to its answer.
FetchInv ==
  /\ fetch \in FetchType
  /\ \A a \in fetch.vetted : ~ UnsafeIp(a)
  /\ \A i \in 1 .. Len(fetch.reached) : ~ UnsafeIp(fetch.reached[i])
  /\ fetch.pc \in {"idle", "resolving", "connecting"} => Len(fetch.reached) = fetch.redirects
  /\ fetch.pc \in {"answering", "receiving"} => Len(fetch.reached) = fetch.redirects + 1
  /\ Len(fetch.reached) <= fetch.redirects + 1

LEMMA FetchBegins == DownloadInit => FetchInv
<1>1. NoUrl \in Urls BY DownloadAssumption DEF NoUrl, Urls
<1>2. <<>> \in Seq(IpAddresses) /\ Len(<<>>) = 0 OBVIOUS
<1> QED BY <1>1, <1>2, DownloadAssumption DEF DownloadInit, FetchInv, FetchType

LEMMA FetchGoesOn == FetchInv /\ DownloadStep => FetchInv'
<1> SUFFICES ASSUME FetchInv, DownloadStep PROVE FetchInv' OBVIOUS
<1> USE DEF FetchInv
<1>1. CASE UNCHANGED fetch BY <1>1
<1>2. ASSUME NEW ok \in BOOLEAN, fetch' = FetchOver(ok) PROVE FetchInv'
  BY <1>2, DownloadAssumption DEF FetchOver, FetchType
<1>3. ASSUME NEW kind \in {"download", "vet"}, NEW url \in Urls, AskDownload(kind, url)
      PROVE  FetchInv'
  BY <1>3, DownloadAssumption DEF AskDownload, FetchType
<1>4. CASE ResolveHost
  <2>1. PICK answer \in Lookups(fetch.url.host) :
          fetch' = IF ~ Vetted(fetch.url, answer) THEN FetchOver(FALSE)
                   ELSE IF fetch.kind = "vet" THEN FetchOver(TRUE)
                   ELSE [fetch EXCEPT !.pc = "connecting", !.vetted = answer]
    BY <1>4 DEF ResolveHost
  <2>2. answer \subseteq IpAddresses
    <3>1. fetch.url.host \in IpAddresses \cup HostNames BY DEF FetchType, Urls
    <3> QED BY <2>1, <3>1 DEF Lookups
  <2>3. CASE Vetted(fetch.url, answer) /\ fetch' = [fetch EXCEPT !.pc = "connecting", !.vetted = answer]
    BY <1>4, <2>2, <2>3, DownloadAssumption DEF ResolveHost, Vetted, FetchType
  <2> QED BY <1>2, <2>1, <2>3
<1>5. CASE Connect
  <2>1. ASSUME NEW a \in Connectable(fetch),
               fetch' = [fetch EXCEPT !.pc = "answering", !.reached = Append(fetch.reached, a)]
        PROVE  FetchInv'
    <3>1. /\ fetch \in FetchType /\ a \in IpAddresses /\ ~ UnsafeIp(a)
      BY <2>1 DEF Connectable, FetchType
    <3>2. fetch.reached \in Seq(IpAddresses) BY <3>1 DEF FetchType
    <3>3. /\ Append(fetch.reached, a) \in Seq(IpAddresses)
          /\ Len(Append(fetch.reached, a)) = Len(fetch.reached) + 1
          /\ \A i \in 1 .. Len(fetch.reached) + 1 :
               Append(fetch.reached, a)[i] = IF i = Len(fetch.reached) + 1 THEN a ELSE fetch.reached[i]
      BY <3>1, <3>2
    <3>4. /\ fetch' \in FetchType /\ fetch'.pc = "answering" /\ fetch'.vetted = fetch.vetted
          /\ fetch'.reached = Append(fetch.reached, a) /\ fetch'.redirects = fetch.redirects
      BY <2>1, <3>1, <3>3 DEF FetchType
    <3>5. fetch.redirects \in Nat /\ Len(fetch.reached) \in Nat
      BY <3>1, <3>2, DownloadAssumption DEF FetchType
    <3>6. Len(fetch.reached) = fetch.redirects BY <1>5 DEF Connect
    <3> QED BY <3>1, <3>3, <3>4, <3>5, <3>6
  <2> QED BY <1>2, <1>5, <2>1 DEF Connect
<1>6. ASSUME NEW url \in Urls, Redirected(url) PROVE FetchInv'
  <2>1. CASE fetch' = [fetch EXCEPT !.pc = "resolving", !.url = url, !.redirects = @ + 1]
             /\ fetch.redirects # MaxRedirects
    <3>1. fetch.redirects + 1 \in 0 .. MaxRedirects
      BY <1>6, <2>1, DownloadAssumption DEF FetchType
    <3>2. /\ fetch' \in FetchType /\ fetch'.pc = "resolving" /\ fetch'.vetted = fetch.vetted
          /\ fetch'.reached = fetch.reached /\ fetch'.redirects = fetch.redirects + 1
      BY <2>1, <3>1 DEF FetchType
    <3>3. Len(fetch.reached) = fetch.redirects + 1 BY <1>6 DEF Redirected
    <3>4. fetch.redirects \in Nat BY DownloadAssumption DEF FetchType
    <3> QED BY <3>2, <3>3, <3>4
  <2> QED BY <1>2, <1>6, <2>1 DEF Redirected
<1>7. CASE Accepted BY <1>7, DownloadAssumption DEF Accepted, FetchType
<1>8. ASSUME NEW n \in 1 .. MaxBytes + 1, Chunk(n) PROVE FetchInv'
  <2>1. Held(n) \in 0 .. MaxBytes BY <1>8, DownloadAssumption DEF Held, FetchType
  <2>2. PICK pc \in {"over", "receiving"} : fetch' = [fetch EXCEPT !.pc = pc, !.held = Held(n)]
    BY <1>8 DEF Chunk, FetchType
  <2>3. /\ fetch' \in FetchType /\ fetch'.pc = pc /\ fetch'.vetted = fetch.vetted
        /\ fetch'.reached = fetch.reached /\ fetch'.redirects = fetch.redirects
    BY <2>1, <2>2 DEF FetchType
  <2> QED BY <1>8, <2>3 DEF Chunk
<1> QED
  BY <1>1, <1>2, <1>3, <1>4, <1>5, <1>6, <1>7, <1>8
  DEF DownloadStep, DownloadOn, Rejected, Complete

LEMMA AlwaysFetch == Spec => []FetchInv
<1>1. Init => FetchInv BY FetchBegins DEF Init
<1>2. FetchInv /\ [Next]_vars => FetchInv' BY FetchGoesOn, Parted
<1> QED BY <1>1, <1>2, PTL DEF Spec

\* Whatever the DNS answers and wherever a server redirects (url-guard.ts:102-115,
\* safe-download.ts:206-229), a download connects only to what the guard lets through.
THEOREM OnlyVetted == Spec => []FetchesVetted
<1>1. FetchInv => FetchesVetted
  <2> SUFFICES ASSUME FetchInv PROVE FetchesVetted OBVIOUS
  <2>1. /\ fetch.reached \in Seq(IpAddresses) /\ fetch.redirects \in 0 .. MaxRedirects
        /\ fetch.held \in 0 .. MaxBytes
    BY DEF FetchInv, FetchType
  <2>2. DOMAIN fetch.reached = 1 .. Len(fetch.reached) /\ Len(fetch.reached) \in Nat BY <2>1
  <2> QED BY <2>1, <2>2, DownloadAssumption DEF FetchInv, FetchesVetted
<1> QED BY <1>1, AlwaysFetch, PTL

-----------------------------------------------------------------------------
(* The reports.                                                            *)

Stages == {"idle", "sleeping", "polling", "fetching", "timed out", "answered", "failed"}

WaitType ==
  [pc : Stages, report : Reports \cup {None}, deadline : Nat, interval : 0 .. MaxPollInterval,
   wake : Nat]

PollType == [report : Reports, by : Waits \cup {"status"}, at : 1 .. now, n : Nat]

\* A call that waits; its sleep ends in time, a minimum interval after each of its polls.
WaitSound(w) ==
  /\ wait[w].pc # "idle" => wait[w].report \in Reports /\ wait[w].interval >= MinPollInterval
  /\ wait[w].pc = "sleeping" =>
       /\ wait[w].wake < wait[w].deadline + MaxPollInterval
       /\ \A q \in polls : q.by = w => wait[w].wake >= q.at + MinPollInterval

\* The polls of a report by one caller, numbered as they came.
PollsOf(p, caller) == {q \in polls : q.report = p /\ q.by = caller}

PollsSound ==
  /\ IsFiniteSet(polls) /\ polls \subseteq PollType
  /\ \A q \in polls : q.n < Cardinality(PollsOf(q.report, q.by))
  /\ \A q, r \in polls :
       q.report = r.report /\ q.by = r.by /\ q.n < r.n => r.at >= q.at + MinPollInterval

ReportInv ==
  /\ now \in Nat \ {0}
  /\ report \in [Reports -> ReportStates]
  /\ lastPollAt \in [Reports -> 0 .. now]
  /\ wait \in [Waits -> WaitType]
  /\ PollsSound
  /\ \A q \in polls : q.by = "status" => q.at <= lastPollAt[q.report]
  /\ \A w \in Waits : WaitSound(w)

LEMMA LesserGreater ==
  ASSUME NEW a \in Nat, NEW b \in Nat
  PROVE  /\ Min({a, b}) = IF a <= b THEN a ELSE b
         /\ Max({a, b}) = IF a <= b THEN b ELSE a
BY DEF Min, Max

LEMMA ReportBegins == ClockInit /\ ReportsInit => ReportInv
<1> SUFFICES ASSUME ClockInit, ReportsInit PROVE ReportInv OBVIOUS
<1>1. NotWaiting \in WaitType BY ReportsAssumption DEF NotWaiting, WaitType, Stages
<1>2. IsFiniteSet({}) BY FS_EmptySet
<1> QED
  BY <1>1, <1>2
  DEF ClockInit, ReportsInit, ReportInv, PollsSound, WaitSound, NotWaiting, ReportStates

\* A poll that comes a minimum interval after the others of its caller.
LEMMA Polling ==
  ASSUME ReportInv, NEW p \in Reports, NEW caller \in Waits \cup {"status"}, Polled(p, caller),
         UNCHANGED now, \A q \in PollsOf(p, caller) : now >= q.at + MinPollInterval
  PROVE  /\ PollsSound'
         /\ polls' \subseteq polls \cup [report : {p}, by : {caller}, at : {now}, n : Nat]
<1> DEFINE before == PollsOf(p, caller)
           new == [report |-> p, by |-> caller, at |-> now, n |-> Cardinality(before)]
<1>1. polls' = polls \cup {new} BY DEF Polled, PollsOf
<1>2. IsFiniteSet(before) BY FS_Subset DEF ReportInv, PollsSound, PollsOf
<1>3. Cardinality(before) \in Nat BY <1>2, FS_CardinalityType
<1>4. new \in PollType BY <1>3 DEF PollType, ReportInv
<1>5. \A q \in before : q.n < Cardinality(before) BY DEF ReportInv, PollsSound, PollsOf
<1>6. new \notin before BY <1>3, <1>5
<1>7. Cardinality(before \cup {new}) = Cardinality(before) + 1 BY <1>2, <1>6, FS_AddElement
<1>8. /\ PollsOf(p, caller)' = before \cup {new}
      /\ \A q \in polls : q.report # p \/ q.by # caller =>
           PollsOf(q.report, q.by)' = PollsOf(q.report, q.by)
  BY <1>1 DEF PollsOf
<1>9. IsFiniteSet(polls') BY <1>1, FS_AddElement DEF ReportInv, PollsSound
<1>10. PollType' = PollType BY DEF PollType
<1>11. polls \subseteq PollType BY DEF ReportInv, PollsSound
<1> HIDE DEF before
<1>12. \A q \in polls' : q.n < Cardinality(PollsOf(q.report, q.by)')
  <2> SUFFICES ASSUME NEW q \in polls' PROVE q.n < Cardinality(PollsOf(q.report, q.by)') OBVIOUS
  <2>1. CASE q = new
    <3>1. PollsOf(q.report, q.by)' = before \cup {new} BY <1>1, <2>1 DEF PollsOf, before
    <3>2. Cardinality(PollsOf(q.report, q.by)') = Cardinality(before) + 1 BY <1>7, <3>1
    <3>3. q.n = Cardinality(before) BY <2>1
    <3> QED BY <1>3, <3>2, <3>3
  <2>2. CASE q \in polls /\ ~ (q.report = p /\ q.by = caller)
    BY <1>8, <2>2 DEF ReportInv, PollsSound
  <2>3. CASE q \in polls /\ q.report = p /\ q.by = caller
    <3>1. q \in before /\ q.n \in Nat BY <1>11, <2>3 DEF before, PollsOf, PollType
    <3> QED BY <1>3, <1>5, <1>7, <1>8, <2>3, <3>1
  <2> QED BY <1>1, <2>1, <2>2, <2>3
<1>13. \A q, r \in polls' :
         q.report = r.report /\ q.by = r.by /\ q.n < r.n => r.at >= q.at + MinPollInterval
  <2> SUFFICES ASSUME NEW q \in polls', NEW r \in polls', q.report = r.report, q.by = r.by, q.n < r.n
               PROVE  r.at >= q.at + MinPollInterval
    OBVIOUS
  <2>1. CASE q \in polls /\ r \in polls BY <2>1 DEF ReportInv, PollsSound
  <2>2. CASE q \in polls /\ r = new
    <3>1. q \in before BY <2>2 DEF before, PollsOf
    <3> QED BY <2>2, <3>1 DEF before
  <2>3. CASE q = new /\ r \in polls
    <3>1. r \in before /\ r.n \in Nat BY <1>11, <2>3 DEF before, PollsOf, PollType
    <3> QED BY <1>3, <1>5, <2>3, <3>1
  <2>4. CASE q = new /\ r = new BY <1>3, <2>4
  <2> QED BY <1>1, <2>1, <2>2, <2>3, <2>4
<1> QED BY <1>1, <1>3, <1>4, <1>9, <1>10, <1>11, <1>12, <1>13 DEF PollsSound

\* The head of the loop, for a call whose report is created.
LEMMA Sleeping ==
  ASSUME ReportInv, NEW record \in WaitType, record.report \in Reports,
         record.interval >= MinPollInterval
  PROVE  LET next == LoopHead(record)
         IN /\ next \in WaitType /\ next.pc \in {"sleeping", "timed out"}
            /\ next.report = record.report /\ next.interval >= MinPollInterval
            /\ next.pc = "sleeping" => /\ next.wake < next.deadline + MaxPollInterval
                                      /\ next.wake >= now + MinPollInterval
<1>1. /\ record.interval \in Nat /\ record.interval <= MaxPollInterval /\ record.deadline \in Nat
      /\ now \in Nat /\ MinPollInterval \in Nat /\ MaxPollInterval \in Nat
      /\ MinPollInterval <= MaxPollInterval
  BY ReportsAssumption DEF WaitType, ReportInv
<1> DEFINE longer == (3 * record.interval + 1) \div 2
           bounded == Min({MaxPollInterval, longer})
<1>2. longer \in Nat /\ longer >= record.interval BY <1>1
<1>3. bounded \in 0 .. MaxPollInterval /\ bounded >= MinPollInterval
  BY <1>1, <1>2, LesserGreater
<1>4. CASE now < record.deadline
  <2>1. LoopHead(record) = [record EXCEPT !.pc = "sleeping", !.wake = now + record.interval,
                                          !.interval = bounded]
    BY <1>4 DEF LoopHead
  <2> HIDE DEF bounded
  <2>2. now + record.interval \in Nat /\ "sleeping" \in Stages BY <1>1 DEF Stages
  <2> DEFINE next == LoopHead(record)
  <2>3. next \in WaitType BY <1>3, <2>1, <2>2 DEF WaitType
  <2>4. /\ next.pc = "sleeping" /\ next.report = record.report /\ next.deadline = record.deadline
        /\ next.interval = bounded /\ next.wake = now + record.interval
    BY <2>1 DEF WaitType
  <2> HIDE DEF next
  <2> SUFFICES /\ next \in WaitType /\ next.pc \in {"sleeping", "timed out"}
               /\ next.report = record.report /\ next.interval >= MinPollInterval
               /\ next.wake < next.deadline + MaxPollInterval
               /\ next.wake >= now + MinPollInterval
    BY DEF next
  <2> QED BY <1>1, <1>3, <1>4, <2>3, <2>4
<1>5. CASE ~ (now < record.deadline)
  <2>1. LoopHead(record) = [record EXCEPT !.pc = "timed out"] BY <1>5 DEF LoopHead
  <2> QED BY <1>1, <2>1 DEF WaitType, Stages
<1> QED BY <1>4, <1>5

\* One call of those that wait moves, to where it has no sleep or a new one.
LEMMA WaitMoves ==
  ASSUME ReportInv, NEW w \in Waits, NEW next \in WaitType, wait' = [wait EXCEPT ![w] = next],
         UNCHANGED <<now, lastPollAt, polls>>, report' \in [Reports -> ReportStates],
         next.pc # "idle" => next.report \in Reports /\ next.interval >= MinPollInterval,
         next.pc = "sleeping" => /\ next.wake < next.deadline + MaxPollInterval
                                 /\ next.wake >= now + MinPollInterval
  PROVE  ReportInv'
<1>1. \A q \in polls : q.at \in Nat /\ q.at <= now BY DEF ReportInv, PollsSound, PollType
<1>2. \A v \in Waits : wait'[v] = IF v = w THEN next ELSE wait[v] BY DEF ReportInv
<1>3. wait' \in [Waits -> WaitType] BY DEF ReportInv
<1>4. ASSUME NEW v \in Waits PROVE WaitSound(v)'
  <2>1. CASE v = w
    <3>1. \A q \in polls : next.pc = "sleeping" => next.wake >= q.at + MinPollInterval
      BY <1>1, ReportsAssumption DEF WaitType, ReportInv
    <3> QED BY <1>2, <2>1, <3>1 DEF WaitSound
  <2>2. CASE v # w BY <1>2, <2>2 DEF WaitSound, ReportInv
  <2> QED BY <2>1, <2>2
<1>5. PollsSound' BY DEF ReportInv, PollsSound, PollType, PollsOf
<1> QED BY <1>3, <1>4, <1>5 DEF ReportInv

\* A call at work, and where it stands once only its stage has changed.
LEMMA Staged ==
  ASSUME ReportInv, NEW w \in Waits, NEW pc \in Stages
  PROVE  LET next == [wait[w] EXCEPT !.pc = pc]
         IN /\ next \in WaitType /\ next.pc = pc /\ next.report = wait[w].report
            /\ next.interval = wait[w].interval
<1>1. wait[w] \in WaitType BY DEF ReportInv
<1> QED BY <1>1 DEF WaitType

LEMMA StageMoves ==
  ASSUME ReportInv, NEW w \in Waits, NEW pc \in Stages \ {"idle", "sleeping"}, wait[w].pc # "idle",
         wait' = [wait EXCEPT ![w].pc = pc], UNCHANGED <<now, report, lastPollAt, polls>>
  PROVE  ReportInv'
<1> DEFINE next == [wait[w] EXCEPT !.pc = pc]
<1>1. /\ next \in WaitType /\ next.pc = pc /\ next.report = wait[w].report
      /\ next.interval = wait[w].interval
  BY Staged
<1>2. wait[w].report \in Reports /\ wait[w].interval >= MinPollInterval
  BY DEF ReportInv, WaitSound
<1>3. wait' = [wait EXCEPT ![w] = next] BY DEF ReportInv
<1>4. report' \in [Reports -> ReportStates] BY DEF ReportInv
<1> HIDE DEF next
<1> QED BY <1>1, <1>2, <1>3, <1>4, WaitMoves

LEMMA PollStatusKeeps ==
  ASSUME ReportInv, NEW p \in Reports, PollStatus(p), UNCHANGED now
  PROVE  ReportInv'
<1>1. /\ lastPollAt' = [lastPollAt EXCEPT ![p] = Stamp(p)] /\ UNCHANGED <<report, wait>>
  BY DEF PollStatus
<1>2. /\ lastPollAt[p] \in 0 .. now /\ now \in Nat \ {0} BY DEF ReportInv
<1>3. Stamp(p) \in {now, lastPollAt[p]} /\ (~ TooFast(p) => Stamp(p) = now) BY DEF Stamp, TooFast
<1>4. lastPollAt' \in [Reports -> 0 .. now] /\ lastPollAt'[p] >= lastPollAt[p]
  BY <1>1, <1>2, <1>3 DEF ReportInv
<1>5. CASE UNCHANGED polls
  <2>1. \A q \in polls : q.report \in Reports /\ q.at \in Nat
    BY DEF ReportInv, PollsSound, PollType
  <2>2. \A q \in polls : q.by = "status" => q.at <= lastPollAt'[q.report]
    <3> SUFFICES ASSUME NEW q \in polls, q.by = "status" PROVE q.at <= lastPollAt'[q.report]
      OBVIOUS
    <3>1. q.at <= lastPollAt[q.report] BY DEF ReportInv
    <3>2. CASE q.report = p BY <1>2, <1>4, <2>1, <3>1, <3>2
    <3>3. CASE q.report # p BY <1>1, <2>1, <3>1, <3>3 DEF ReportInv
    <3> QED BY <3>2, <3>3
  <2>3. PollsSound' BY <1>5 DEF ReportInv, PollsSound, PollType, PollsOf
  <2>4. \A w \in Waits : WaitSound(w)' BY <1>1, <1>5 DEF ReportInv, WaitSound
  <2> QED BY <1>1, <1>4, <1>5, <2>2, <2>3, <2>4 DEF ReportInv
<1>6. CASE ~ TooFast(p) /\ Polled(p, "status")
  <2>1. \A q \in PollsOf(p, "status") : q.at \in 1 .. now /\ q.at <= lastPollAt[p]
    BY DEF ReportInv, PollsSound, PollsOf, PollType
  <2>2. \A q \in PollsOf(p, "status") : now >= q.at + MinPollInterval
    BY <1>2, <1>6, <2>1, ReportsAssumption DEF TooFast
  <2>3. /\ PollsSound'
        /\ polls' \subseteq polls \cup [report : {p}, by : {"status"}, at : {now}, n : Nat]
    BY <1>6, <2>2, Polling
  <2>4. lastPollAt'[p] = now /\ \A x \in Reports : x # p => lastPollAt'[x] = lastPollAt[x]
    BY <1>1, <1>3, <1>6 DEF ReportInv
  <2>5. \A q \in polls' : q.by = "status" => q.at <= lastPollAt'[q.report]
    <3> SUFFICES ASSUME NEW q \in polls', q.by = "status" PROVE q.at <= lastPollAt'[q.report]
      OBVIOUS
    <3>1. CASE q \notin polls
      <4>1. q.report = p /\ q.at = now BY <2>3, <3>1
      <4> QED BY <1>2, <2>4, <4>1
    <3>2. CASE q \in polls
      <4>1. q.report \in Reports /\ q.at \in 1 .. now /\ q.at <= lastPollAt[q.report]
        BY <3>2 DEF ReportInv, PollsSound, PollType
      <4> QED BY <1>2, <2>4, <4>1
    <3> QED BY <3>1, <3>2
  <2>6. ASSUME NEW w \in Waits PROVE WaitSound(w)'
    <3>1. \A q \in polls' : q.by = w => q \in polls BY <2>3, ReportsAssumption
    <3> QED BY <1>1, <3>1 DEF ReportInv, WaitSound
  <2> QED BY <1>1, <1>4, <2>3, <2>5, <2>6 DEF ReportInv
<1> QED BY <1>5, <1>6 DEF PollStatus

LEMMA PollReportKeeps ==
  ASSUME ReportInv, NEW w \in Waits, PollReport(w), UNCHANGED now
  PROVE  ReportInv'
<1>1. wait[w].pc = "sleeping" /\ now >= wait[w].wake /\ UNCHANGED <<report, lastPollAt>>
  BY DEF PollReport
<1>2. CASE wait' = [wait EXCEPT ![w].pc = "failed"] /\ UNCHANGED polls
  BY <1>1, <1>2, StageMoves DEF Stages
<1>3. CASE wait' = [wait EXCEPT ![w].pc = "polling"] /\ Polled(wait[w].report, w)
  <2> DEFINE p == wait[w].report
             next == [wait[w] EXCEPT !.pc = "polling"]
  <2>1. /\ p \in Reports /\ wait[w].interval >= MinPollInterval
        /\ \A q \in polls : q.by = w => wait[w].wake >= q.at + MinPollInterval
    BY <1>1 DEF ReportInv, WaitSound
  <2>2. wait[w].wake \in Nat /\ now \in Nat /\ \A q \in polls : q.at \in Nat
    BY DEF ReportInv, WaitType, PollsSound, PollType
  <2>3. \A q \in PollsOf(p, w) : now >= q.at + MinPollInterval
    BY <1>1, <2>1, <2>2, ReportsAssumption DEF PollsOf
  <2> HIDE DEF p
  <2>4. PollsSound' /\ polls' \subseteq polls \cup [report : {p}, by : {w}, at : {now}, n : Nat]
    BY <1>3, <2>1, <2>3, Polling DEF p
  <2>5. /\ next \in WaitType /\ next.pc = "polling" /\ next.report = p
        /\ next.interval = wait[w].interval
    BY Staged DEF Stages, p
  <2>6. wait' = [wait EXCEPT ![w] = next] BY <1>3 DEF ReportInv
  <2> HIDE DEF next
  <2>7. ASSUME NEW v \in Waits PROVE WaitSound(v)'
    <3>1. CASE v = w
      <4>1. wait'[v] = next BY <2>6, <3>1 DEF ReportInv
      <4> QED BY <2>1, <2>5, <4>1 DEF WaitSound
    <3>2. CASE v # w
      <4>1. wait'[v] = wait[v] BY <2>6, <3>2 DEF ReportInv
      <4>2. \A q \in polls' : q.by = v => q \in polls BY <2>4, <3>2
      <4> QED BY <4>1, <4>2 DEF ReportInv, WaitSound
    <3> QED BY <3>1, <3>2
  <2>8. \A q \in polls' : q.by = "status" => q \in polls BY <2>4, ReportsAssumption
  <2>9. wait' \in [Waits -> WaitType] BY <2>5, <2>6 DEF ReportInv
  <2> QED BY <1>1, <2>4, <2>7, <2>8, <2>9 DEF ReportInv
<1> QED BY <1>2, <1>3 DEF PollReport

LEMMA AnswerPollKeeps ==
  ASSUME ReportInv, NEW w \in Waits, AnswerPoll(w), UNCHANGED now
  PROVE  ReportInv'
<1>1. wait[w].pc = "polling" /\ UNCHANGED <<report, lastPollAt, polls>> BY DEF AnswerPoll
<1>2. CASE wait' = [wait EXCEPT ![w].pc = "failed"] BY <1>1, <1>2, StageMoves DEF Stages
<1>3. CASE wait' = [wait EXCEPT ![w] = AfterPoll(wait[w], report[wait[w].report])]
  <2>1. CASE wait' = [wait EXCEPT ![w] = LoopHead(wait[w])]
    <3> DEFINE next == LoopHead(wait[w])
    <3>1. /\ wait[w] \in WaitType /\ wait[w].report \in Reports
          /\ wait[w].interval >= MinPollInterval /\ report' \in [Reports -> ReportStates]
      BY <1>1 DEF ReportInv, WaitSound
    <3>2. /\ next \in WaitType /\ next.pc \in {"sleeping", "timed out"}
          /\ next.report = wait[w].report /\ next.interval >= MinPollInterval
          /\ next.pc = "sleeping" => /\ next.wake < next.deadline + MaxPollInterval
                                    /\ next.wake >= now + MinPollInterval
      BY <3>1, Sleeping
    <3> HIDE DEF next
    <3>3. wait' = [wait EXCEPT ![w] = next] BY <2>1 DEF next
    <3> QED BY <1>1, <3>1, <3>2, <3>3, WaitMoves
  <2>2. ASSUME NEW pc \in {"fetching", "failed"}, wait' = [wait EXCEPT ![w] = [wait[w] EXCEPT !.pc = pc]]
        PROVE  ReportInv'
    <3>1. wait' = [wait EXCEPT ![w].pc = pc] BY <2>2 DEF ReportInv
    <3> QED BY <1>1, <3>1, StageMoves DEF Stages
  <2> QED BY <1>3, <2>1, <2>2 DEF AfterPoll
<1> QED BY <1>2, <1>3 DEF AnswerPoll

LEMMA RunAndWaitKeeps ==
  ASSUME ReportInv, NEW w \in Waits, NEW p \in Reports, NEW maxWait \in MaxWaits,
         NEW interval \in PollIntervals, RunAndWait(w, p, maxWait, interval), UNCHANGED now
  PROVE  ReportInv'
<1> DEFINE record == [pc |-> "head", report |-> p, deadline |-> now + maxWait, wake |-> 0,
                      interval |-> Max({MinPollInterval, interval})]
           began == [record EXCEPT !.pc = "idle"]
           next == LoopHead(record)
<1>1. /\ interval \in Nat /\ interval <= MaxPollInterval /\ maxWait \in Nat /\ now \in Nat
      /\ Max({MinPollInterval, interval}) \in 0 .. MaxPollInterval
      /\ Max({MinPollInterval, interval}) >= MinPollInterval
  <2>1. /\ interval \in Nat /\ interval <= MaxPollInterval /\ maxWait \in Nat /\ now \in Nat
        /\ MinPollInterval \in Nat /\ MaxPollInterval \in Nat /\ MinPollInterval <= MaxPollInterval
    BY ReportsAssumption DEF ReportInv
  <2>2. Max({MinPollInterval, interval}) \in {MinPollInterval, interval}
        /\ Max({MinPollInterval, interval}) >= MinPollInterval
    BY <2>1, LesserGreater
  <2> QED BY <2>1, <2>2
<1>2. report' \in [Reports -> ReportStates] BY DEF RunAndWait, ReportInv, ReportStates
<1> DEFINE first == Max({MinPollInterval, interval})
<1> HIDE DEF first
<1>3. began \in WaitType /\ began.report = p /\ began.interval >= MinPollInterval
  <2>1. began = [pc |-> "idle", report |-> p, deadline |-> now + maxWait, wake |-> 0, interval |-> first]
    BY DEF first
  <2>2. first \in 0 .. MaxPollInterval /\ first >= MinPollInterval BY <1>1 DEF first
  <2> HIDE DEF began
  <2> QED BY <1>1, <2>1, <2>2 DEF WaitType, Stages
<1>4. next = LoopHead(began)
  <2>1. [record EXCEPT !.pc = "timed out"] = [began EXCEPT !.pc = "timed out"] OBVIOUS
  <2> QED BY <2>1 DEF LoopHead
<1> HIDE DEF began, next
<1>5. /\ next \in WaitType /\ next.pc \in {"sleeping", "timed out"} /\ next.report = p
      /\ next.interval >= MinPollInterval
      /\ next.pc = "sleeping" => /\ next.wake < next.deadline + MaxPollInterval
                                /\ next.wake >= now + MinPollInterval
  BY <1>3, <1>4, Sleeping
<1>6. wait' = [wait EXCEPT ![w] = next] /\ UNCHANGED <<lastPollAt, polls>>
  BY DEF RunAndWait, next
<1> QED BY <1>2, <1>5, <1>6, WaitMoves

\* A report is created, or comes to its end.
LEMMA ReportMoves ==
  ASSUME ReportInv, report' \in [Reports -> ReportStates], UNCHANGED <<now, lastPollAt, wait, polls>>
  PROVE  ReportInv'
BY DEF ReportInv, PollsSound, PollType, PollsOf, WaitSound

LEMMA TickKeepsReports ==
  ASSUME ReportInv, now' \in Nat, now' >= now, UNCHANGED reportVars
  PROVE  ReportInv'
<1>1. PollType \subseteq PollType' BY DEF PollType, ReportInv
<1>2. lastPollAt' \in [Reports -> 0 .. now'] BY DEF reportVars, ReportInv
<1>3. now' \in Nat \ {0} BY DEF ReportInv
<1> QED BY <1>1, <1>2, <1>3 DEF reportVars, ReportInv, PollsSound, PollsOf, WaitSound

LEMMA ReportGoesOn == ReportInv /\ ReportStep => ReportInv'
<1> SUFFICES ASSUME ReportInv, ReportStep PROVE ReportInv' OBVIOUS
<1>1. CASE UNCHANGED reportVars /\ (Tick \/ UNCHANGED now)
  <2>1. now' \in Nat /\ now' >= now BY <1>1 DEF Tick, ReportInv
  <2> QED BY <1>1, <2>1, TickKeepsReports
<1>2. ASSUME NEW p \in Reports, CreateReport(p) \/ EndReport(p), UNCHANGED now PROVE ReportInv'
  <2>1. /\ report' \in [Reports -> ReportStates] /\ UNCHANGED <<lastPollAt, wait, polls>>
    BY <1>2 DEF CreateReport, EndReport, ReportInv, ReportStates
  <2> QED BY <1>2, <2>1, ReportMoves
<1>3. ASSUME NEW w \in Waits, FetchResults(w), UNCHANGED now PROVE ReportInv'
  <2>1. PICK end \in {"answered", "failed"} : wait' = [wait EXCEPT ![w].pc = end]
    BY <1>3 DEF FetchResults
  <2> QED BY <1>3, <2>1, StageMoves DEF FetchResults, Stages
<1>4. ASSUME NEW w \in Waits, WaitOn(w), UNCHANGED now PROVE ReportInv'
  BY <1>3, <1>4, PollReportKeeps, AnswerPollKeeps DEF WaitOn
<1> QED BY <1>1, <1>2, <1>4, PollStatusKeeps, RunAndWaitKeeps DEF ReportStep

LEMMA AlwaysReport == Spec => []ReportInv
<1>1. Init => ReportInv BY ReportBegins DEF Init
<1>2. ReportInv /\ [Next]_vars => ReportInv' BY ReportGoesOn, Parted
<1> QED BY <1>1, <1>2, PTL DEF Spec

\* However the status tool and the waits of any number of calls fall, and whatever they are
\* refused, the polls of one caller keep the minimum interval (reports.ts:265-269, 326-337).
THEOREM Unhurried == Spec => []PollsSpaced
<1>1. ReportInv => PollsSpaced BY DEF ReportInv, PollsSound, WaitSound, PollsSpaced
<1> QED BY <1>1, AlwaysReport, PTL

-----------------------------------------------------------------------------
(* The parallel reads.                                                     *)

AnswerType == [to : Nat, is : {"pending", "data", "empty", "error", "failed"}]

\* The answer to the i-th question remembers it, and fails only if nobody catches that.
OfItsQuestion(call, i, answer) ==
  \/ answer = Pending
  \/ /\ answer \in [to : {i}, is : {"data", "empty", "error", "failed"}]
     /\ answer.is = "failed" => ~ Questions(call)[i].caught

\* What AnswersAreOfTheirQuestion says of a report r.
Right(call, answers, r) ==
  LET q == Questions(call)
      Shows(field, what) == r[field] # Pending => q[r[field].to].what = what
  IN CASE call.tool = "diagnose" ->
            /\ Shows("insights", "insights") /\ Shows("pixel", "pixel") /\ Shows("issues", "issues")
            /\ (call.pixel <=> r.pixel # Pending) /\ (call.account <=> r.issues # Pending)
            /\ \A f \in r.findings : f[2] = "data" =>
                 \E i \in DOMAIN q : q[i].what = f[1] /\ answers[i].is = "data"
       [] call.tool = "anomaly" -> Shows("recent", "recent") /\ Shows("previous", "previous")
       [] call.tool = "context" ->
            Shows("total", "total") /\ Shows("campaigns", "campaigns") /\ Shows("meta", "meta")
       [] OTHER ->
            /\ \A i \in DOMAIN call.ids :
                 LET e == r.byAccount[i]
                 IN /\ e.id = call.ids[i]
                    /\ ~ e.error => /\ q[e.meta.to] = Question("meta", i, TRUE)
                                    /\ q[e.insights.to] = Question("insights", i, FALSE)
            /\ r.total + Cardinality(DOMAIN r.errored) <= Len(call.ids)
            /\ {r.errored[i].id : i \in DOMAIN r.errored}
                 = {call.ids[i] : i \in {j \in DOMAIN call.ids : answers[2 * j].is = "failed"}}

Answering ==
  /\ reading = [pc |-> reading.pc, call |-> reading.call, answers |-> reading.answers,
                report |-> reading.report]
  /\ reading.pc \in {"idle", "asked", "over", "failed"} /\ reading.call \in Calls
  /\ reading.pc = "idle" => reading.answers = <<>>
  /\ reading.pc # "idle" =>
       /\ reading.answers \in [DOMAIN Questions(reading.call) -> AnswerType]
       /\ \A i \in DOMAIN Questions(reading.call) :
            OfItsQuestion(reading.call, i, reading.answers[i])

ReadInv ==
  Answering /\ (reading.pc = "over" => Right(reading.call, reading.answers, reading.report))

LEMMA ReadBegins == ReadInit => ReadInv
<1> SUFFICES ASSUME ReadInit PROVE ReadInv OBVIOUS
<1>1. \E c : c \in Calls
  <2>1. [tool |-> "anomaly", account |-> FALSE, pixel |-> FALSE, ids |-> <<>>] \in Calls BY DEF Calls
  <2> QED BY <2>1
<1>2. reading.call \in Calls BY <1>1 DEF ReadInit
<1>3. reading.answers = <<>> /\ reading.pc = "idle" BY DEF ReadInit
<1>4. reading = [pc |-> reading.pc, call |-> reading.call, answers |-> reading.answers,
                 report |-> reading.report]
  BY DEF ReadInit
<1> QED BY <1>2, <1>3, <1>4 DEF ReadInv, Answering

\* What is known of the questions of each tool.
LEMMA CallKinds ==
  ASSUME NEW call \in Calls
  PROVE  \/ call.tool = "diagnose" /\ call.account \in BOOLEAN /\ call.pixel \in BOOLEAN
         \/ call.tool = "anomaly"
         \/ call.tool = "context"
         \/ /\ call.tool = "portfolio" /\ Len(call.ids) \in Nat
            /\ DOMAIN call.ids = 1 .. Len(call.ids)
<1>1. CASE \E ids \in UNION {[1 .. n -> Accounts] : n \in 1 .. MaxAccounts} :
             call = [tool |-> "portfolio", account |-> FALSE, pixel |-> FALSE, ids |-> ids]
  <2>1. PICK n \in 1 .. MaxAccounts :
          \E ids \in [1 .. n -> Accounts] : call.tool = "portfolio" /\ call.ids = ids
    BY <1>1
  <2>2. n \in Nat BY ReadAssumption
  <2>3. call.ids \in [1 .. n -> Accounts] BY <2>1
  <2>4. call.ids \in Seq(Accounts) BY <2>2, <2>3
  <2> QED BY <2>1, <2>4
<1> QED BY <1>1 DEF Calls

LEMMA DiagnoseQuestions ==
  ASSUME NEW call, call.tool = "diagnose", call.account \in BOOLEAN, call.pixel \in BOOLEAN
  PROVE  LET q == Questions(call)
             n == 1 + (IF call.pixel THEN 1 ELSE 0) + (IF call.account THEN 1 ELSE 0)
         IN /\ DOMAIN q = 1 .. n
            /\ \A i \in 1 .. n : q[i].part = 1 /\ q[i].caught
            /\ q[1].what = "insights"
            /\ call.pixel => q[2].what = "pixel"
            /\ call.account => q[n].what = "issues"
<1> DEFINE first == Question("insights", 1, TRUE)
           pixel == Question("pixel", 1, TRUE)
           issues == Question("issues", 1, TRUE)
<1>1. Questions(call) = Diagnose(call) BY DEF Questions
<1>2. /\ \A x : x \in {first, pixel, issues} => x.part = 1 /\ x.caught
      /\ first.what = "insights" /\ pixel.what = "pixel" /\ issues.what = "issues"
  BY DEF Question
<1> HIDE DEF first, pixel, issues
<1>3. Diagnose(call) = <<first>> \o (IF call.pixel THEN <<pixel>> ELSE <<>>)
                        \o (IF call.account THEN <<issues>> ELSE <<>>)
  BY DEF Diagnose, first, pixel, issues
<1> DEFINE Marks == {first, pixel, issues}
           a == <<first>>
           b == IF call.pixel THEN <<pixel>> ELSE <<>>
           c == IF call.account THEN <<issues>> ELSE <<>>
           n == 1 + (IF call.pixel THEN 1 ELSE 0) + (IF call.account THEN 1 ELSE 0)
<1>4. /\ a \in Seq(Marks) /\ Len(a) = 1 /\ a[1] = first
      /\ b \in Seq(Marks) /\ Len(b) = (IF call.pixel THEN 1 ELSE 0) /\ (call.pixel => b[1] = pixel)
      /\ c \in Seq(Marks) /\ Len(c) = (IF call.account THEN 1 ELSE 0) /\ (call.account => c[1] = issues)
  <2>1. ASSUME NEW x \in Marks PROVE <<x>> \in Seq(Marks) /\ Len(<<x>>) = 1 /\ <<x>>[1] = x OBVIOUS
  <2>2. <<>> \in Seq(Marks) /\ Len(<<>>) = 0 OBVIOUS
  <2>3. a \in Seq(Marks) /\ Len(a) = 1 /\ a[1] = first BY <2>1
  <2>4. /\ b \in Seq(Marks) /\ Len(b) = (IF call.pixel THEN 1 ELSE 0)
        /\ call.pixel => b[1] = pixel
    <3>1. CASE call.pixel
      <4>1. b = <<pixel>> BY <3>1
      <4> HIDE DEF b
      <4> QED BY <2>1, <3>1, <4>1
    <3>2. CASE ~ call.pixel
      <4>1. b = <<>> BY <3>2
      <4> HIDE DEF b
      <4> QED BY <2>2, <3>2, <4>1
    <3> QED BY <3>1, <3>2
  <2>5. /\ c \in Seq(Marks) /\ Len(c) = (IF call.account THEN 1 ELSE 0)
        /\ call.account => c[1] = issues
    <3>1. CASE call.account
      <4>1. c = <<issues>> BY <3>1
      <4> HIDE DEF c
      <4> QED BY <2>1, <3>1, <4>1
    <3>2. CASE ~ call.account
      <4>1. c = <<>> BY <3>2
      <4> HIDE DEF c
      <4> QED BY <2>2, <3>2, <4>1
    <3> QED BY <3>1, <3>2
  <2> QED BY <2>3, <2>4, <2>5
<1>5. Questions(call) = (a \o b) \o c BY <1>1, <1>3
<1> HIDE DEF Marks, a, b, c
<1>6. /\ a \o b \in Seq(Marks) /\ Len(a \o b) = Len(a) + Len(b)
      /\ \A i \in 1 .. Len(a) + Len(b) : (a \o b)[i] = IF i <= Len(a) THEN a[i] ELSE b[i - Len(a)]
  BY <1>4, ConcatProperties
<1> DEFINE ab == a \o b
<1> HIDE DEF ab
<1>7. /\ ab \o c \in Seq(Marks) /\ Len(ab \o c) = Len(ab) + Len(c)
      /\ \A i \in 1 .. Len(ab) + Len(c) : (ab \o c)[i] = IF i <= Len(ab) THEN ab[i] ELSE c[i - Len(ab)]
  BY <1>4, <1>6, ConcatProperties DEF ab
<1> DEFINE q == Questions(call)
<1>8. q \in Seq(Marks) /\ Len(q) = n BY <1>4, <1>5, <1>6, <1>7 DEF ab
<1>9. DOMAIN q = 1 .. n /\ \A i \in 1 .. n : q[i] \in Marks BY <1>8
<1>10. /\ ab[1] = first /\ (call.pixel => ab[2] = pixel)
       /\ Len(ab) = 1 + (IF call.pixel THEN 1 ELSE 0)
  BY <1>4, <1>6 DEF ab
<1>11. q[1] = first /\ (call.pixel => q[2] = pixel) BY <1>4, <1>5, <1>7, <1>10 DEF ab
<1>12. call.account => q[n] = issues BY <1>4, <1>5, <1>7, <1>10 DEF ab
<1> QED BY <1>2, <1>9, <1>11, <1>12 DEF Marks

LEMMA PortfolioQuestions ==
  ASSUME NEW call, call.tool = "portfolio", Len(call.ids) \in Nat
  PROVE  LET q == Questions(call)
         IN /\ DOMAIN q = 1 .. 2 * Len(call.ids)
            /\ \A k \in 1 .. 2 * Len(call.ids) : \E i \in 1 .. Len(call.ids) : k = 2 * i - 1 \/ k = 2 * i
            /\ \A i \in 1 .. Len(call.ids) :
                 q[2 * i - 1] = Question("meta", i, TRUE) /\ q[2 * i] = Question("insights", i, FALSE)
<1>1. Questions(call) = PortfolioSummary(call.ids) BY DEF Questions
<1>2. \A k \in 1 .. 2 * Len(call.ids) : \E i \in 1 .. Len(call.ids) : k = 2 * i - 1 \/ k = 2 * i
  <2> SUFFICES ASSUME NEW k \in 1 .. 2 * Len(call.ids)
               PROVE  \E i \in 1 .. Len(call.ids) : k = 2 * i - 1 \/ k = 2 * i
    OBVIOUS
  <2>1. CASE k % 2 = 1
    <3>1. k = 2 * ((k + 1) \div 2) - 1 /\ (k + 1) \div 2 \in 1 .. Len(call.ids) BY <2>1
    <3> QED BY <3>1
  <2>2. CASE k % 2 = 0
    <3>1. k = 2 * (k \div 2) /\ k \div 2 \in 1 .. Len(call.ids) BY <2>2
    <3> QED BY <3>1
  <2> QED BY <2>1, <2>2
<1>3. ASSUME NEW i \in 1 .. Len(call.ids)
      PROVE  /\ PortfolioSummary(call.ids)[2 * i - 1] = Question("meta", i, TRUE)
             /\ PortfolioSummary(call.ids)[2 * i] = Question("insights", i, FALSE)
  <2>1. 2 * i - 1 \in 1 .. 2 * Len(call.ids) /\ (2 * i - 1) % 2 = 1 /\ (2 * i - 1 + 1) \div 2 = i
    OBVIOUS
  <2>2. 2 * i \in 1 .. 2 * Len(call.ids) /\ (2 * i) \div 2 = i OBVIOUS
  <2>3. PortfolioSummary(call.ids)[2 * i - 1] =
          IF (2 * i - 1) % 2 = 1 THEN Question("meta", (2 * i - 1 + 1) \div 2, TRUE)
          ELSE Question("insights", (2 * i - 1) \div 2, FALSE)
    BY <2>1 DEF PortfolioSummary
  <2>4. PortfolioSummary(call.ids)[2 * i] =
          IF (2 * i) % 2 = 1 THEN Question("meta", (2 * i + 1) \div 2, TRUE)
          ELSE Question("insights", (2 * i) \div 2, FALSE)
    BY <2>2 DEF PortfolioSummary
  <2>5. PortfolioSummary(call.ids)[2 * i - 1] = Question("meta", (2 * i - 1 + 1) \div 2, TRUE)
    BY <2>1, <2>3
  <2>6. PortfolioSummary(call.ids)[2 * i] = Question("insights", (2 * i) \div 2, FALSE)
    <3>1. ~ ((2 * i) % 2 = 1) OBVIOUS
    <3> QED BY <2>4, <3>1, Zenon
  <2>7. (2 * i - 1 + 1) \div 2 = i /\ (2 * i) \div 2 = i BY <2>1, <2>2
  <2>8. /\ Question("meta", (2 * i - 1 + 1) \div 2, TRUE) = Question("meta", i, TRUE)
        /\ Question("insights", (2 * i) \div 2, FALSE) = Question("insights", i, FALSE)
    BY <2>7, Zenon
  <2> QED BY <2>5, <2>6, <2>8, Zenon
<1>4. DOMAIN PortfolioSummary(call.ids) = 1 .. 2 * Len(call.ids) BY DEF PortfolioSummary
<1> QED BY <1>1, <1>2, <1>3, <1>4

\* Nobody is left to answer a single Promise.all that resolves.
LEMMA AllAnswered ==
  ASSUME Answering, reading.pc # "idle", ~ Failed(1), \A p \in Parts : Settles(p),
         \A i \in DOMAIN Questions(reading.call) : Questions(reading.call)[i].part = 1
  PROVE  \A i \in DOMAIN Questions(reading.call) :
           /\ reading.answers[i] \in [to : {i}, is : {"data", "empty", "error"}]
           /\ reading.answers[i] # Pending
<1> DEFINE q == Questions(reading.call)
<1>1. DOMAIN reading.answers = DOMAIN q BY DEF Answering
<1>2. OfPart(1) = DOMAIN q BY <1>1 DEF OfPart
<1> SUFFICES ASSUME NEW i \in DOMAIN q
             PROVE  /\ reading.answers[i] \in [to : {i}, is : {"data", "empty", "error"}]
                    /\ reading.answers[i] # Pending
  OBVIOUS
<1>3. Settles(1) BY <1>1 DEF Parts
<1>4. reading.answers[i].is \notin {"pending", "failed"} BY <1>2, <1>3 DEF Settles, Failed
<1>5. OfItsQuestion(reading.call, i, reading.answers[i]) BY DEF Answering
<1>6. reading.answers[i] # Pending BY <1>4 DEF Pending
<1>7. reading.answers[i] \in [to : {i}, is : {"data", "empty", "error", "failed"}]
  BY <1>5, <1>6 DEF OfItsQuestion
<1> QED BY <1>4, <1>6, <1>7

LEMMA DiagnosisRight ==
  ASSUME Answering, reading.pc # "idle", ~ Failed(1), \A p \in Parts : Settles(p),
         reading.call.tool = "diagnose"
  PROVE  Right(reading.call, reading.answers, Report(reading.call))
<1> DEFINE call == reading.call
           A == reading.answers
           q == Questions(call)
           n == 1 + (IF call.pixel THEN 1 ELSE 0) + (IF call.account THEN 1 ELSE 0)
           D == Diagnosis(call)
           r == Report(call)
<1>1. call.account \in BOOLEAN /\ call.pixel \in BOOLEAN BY CallKinds DEF Answering
<1>2. /\ DOMAIN q = 1 .. n /\ (\A i \in 1 .. n : q[i].part = 1) /\ q[1].what = "insights"
      /\ call.pixel => q[2].what = "pixel"
      /\ call.account => q[n].what = "issues"
  BY <1>1, DiagnoseQuestions
<1>3. \A i \in 1 .. n : A[i] \in [to : {i}, is : {"data", "empty", "error"}] /\ A[i] # Pending
  BY <1>2, AllAnswered
<1>4. A \in [1 .. n -> AnswerType] /\ n \in 1 .. 3 BY <1>2 DEF Answering
<1> HIDE DEF n, A, call
<1>5. A \in Seq(AnswerType) /\ Len(A) = n BY <1>4
<1>6. /\ Tail(A) \in Seq(AnswerType) /\ Len(Tail(A)) = n - 1
      /\ \A i \in 1 .. n - 1 : Tail(A)[i] = A[i + 1]
  BY <1>4, <1>5
<1>7. /\ D.insights = A[1]
      /\ call.pixel => D.pixel = A[2]
      /\ ~ call.pixel => D.pixel = Pending
      /\ call.account => D.issues = A[n]
      /\ ~ call.account => D.issues = Pending
      /\ DOMAIN D = {"insights", "pixel", "issues"}
  <2>1. Rest = Tail(A) BY DEF Rest, A
  <2>2. call.pixel => n \in {2, 3} /\ Rest # <<>> /\ Rest[1] = A[2]
    <3> SUFFICES ASSUME call.pixel PROVE n \in {2, 3} /\ Rest # <<>> /\ Rest[1] = A[2] OBVIOUS
    <3>1. n \in {2, 3} BY <1>1 DEF n
    <3>2. 1 \in 1 .. n - 1 /\ n - 1 # 0 BY <3>1
    <3>3. Tail(A)[1] = A[2] BY <1>6, <3>2
    <3>4. Tail(A) # <<>> BY <1>6, <3>2
    <3> QED BY <2>1, <3>1, <3>3, <3>4
  <2>3. call.account => /\ call.pixel => n = 3 /\ Rest[2] = A[n]
                        /\ ~ call.pixel => n = 2 /\ Rest[1] = A[n]
    BY <1>1, <1>5, <1>6, <2>1 DEF n
  <2>4. /\ D.insights = A[1] /\ DOMAIN D = {"insights", "pixel", "issues"}
        /\ D.pixel = IF call.pixel /\ Rest # <<>> THEN Rest[1] ELSE Pending
        /\ D.issues = IF ~ call.account THEN Pending ELSE IF call.pixel THEN Rest[2] ELSE Rest[1]
    BY DEF Diagnosis, A, call
  <2> QED BY <1>1, <2>2, <2>3, <2>4
<1> HIDE DEF D, q
<1>8. /\ r["insights"] = D.insights /\ r["pixel"] = D.pixel /\ r["issues"] = D.issues
      /\ r["findings"] = Findings(D)
  <2>1. r = [insights |-> D.insights, pixel |-> D.pixel, issues |-> D.issues, findings |-> Findings(D)]
    BY DEF Report, D, call
  <2> HIDE DEF r
  <2> QED BY <2>1
<1>9. ASSUME NEW f \in Findings(D), f[2] = "data"
      PROVE  \E i \in DOMAIN q : q[i].what = f[1] /\ A[i].is = "data"
  <2>1. f \notin {<<"insights", "none">>} BY <1>9
  <2>2. PICK g \in DOMAIN D : D[g].is = "data" /\ f = <<g, D[g].is>> BY <1>9, <2>1 DEF Findings
  <2>3. f[1] = g BY <2>2
  <2>4. Pending.is # "data" BY DEF Pending
  <2>5. CASE g = "insights" BY <1>2, <1>4, <1>7, <2>2, <2>3, <2>5
  <2>6. CASE g = "pixel"
    <3>1. call.pixel BY <1>7, <2>2, <2>4, <2>6
    <3>2. 2 \in 1 .. n BY <1>1, <3>1 DEF n
    <3> QED BY <1>2, <1>7, <2>2, <2>3, <2>6, <3>1, <3>2
  <2>7. CASE g = "issues"
    <3>1. call.account BY <1>7, <2>2, <2>4, <2>7
    <3>2. n \in 1 .. n BY <1>4
    <3> QED BY <1>2, <1>7, <2>2, <2>3, <2>7, <3>1, <3>2
  <2> QED BY <1>7, <2>5, <2>6, <2>7
<1>10. /\ r["insights"] # Pending => q[r["insights"].to].what = "insights"
       /\ r["pixel"] # Pending => q[r["pixel"].to].what = "pixel"
       /\ r["issues"] # Pending => q[r["issues"].to].what = "issues"
       /\ call.pixel <=> r["pixel"] # Pending
       /\ call.account <=> r["issues"] # Pending
  <2>1. A[1].to = 1 BY <1>3, <1>4
  <2>2. call.pixel => A[2].to = 2 /\ A[2] # Pending BY <1>1, <1>3 DEF n
  <2>3. A[n].to = n /\ A[n] # Pending BY <1>3, <1>4
  <2> QED BY <1>1, <1>2, <1>7, <1>8, <2>1, <2>2, <2>3
<1> HIDE DEF r
<1>11. Right(call, A, r)
  BY <1>8, <1>9, <1>10 DEF Right, call, q
<1> QED BY <1>11 DEF call, A, r

LEMMA AnomalyRight ==
  ASSUME Answering, reading.pc # "idle", ~ Failed(1), \A p \in Parts : Settles(p),
         reading.call.tool = "anomaly"
  PROVE  Right(reading.call, reading.answers, Report(reading.call))
<1> DEFINE call == reading.call
           A == reading.answers
           q == Questions(call)
           r == Report(call)
<1>1. q = AnomalySignal BY DEF Questions
<1>2. /\ DOMAIN q = 1 .. 2 /\ (\A i \in DOMAIN q : q[i].part = 1)
      /\ q[1].what = "recent" /\ q[2].what = "previous"
  BY <1>1 DEF AnomalySignal, Question
<1>3. A[1].to = 1 /\ A[2].to = 2
  <2>1. \A i \in DOMAIN q : A[i] \in [to : {i}, is : {"data", "empty", "error"}]
    BY <1>2, AllAnswered
  <2> QED BY <1>2, <2>1
<1>4. r = Anomalies BY DEF Report
<1> HIDE DEF q, r
<1>5. \/ r.recent = A[1] /\ r.previous = A[2]
      \/ r.recent = Pending /\ r.previous = Pending
  BY <1>4 DEF Anomalies
<1>6. /\ r["recent"] # Pending => q[r["recent"].to].what = "recent"
      /\ r["previous"] # Pending => q[r["previous"].to].what = "previous"
  BY <1>2, <1>3, <1>5
<1> HIDE DEF call, A
<1>7. Right(call, A, r) BY <1>6 DEF Right, q, call
<1> QED BY <1>7 DEF call, A, r

LEMMA ContextRight ==
  ASSUME Answering, reading.pc # "idle", ~ Failed(1), \A p \in Parts : Settles(p),
         reading.call.tool = "context"
  PROVE  Right(reading.call, reading.answers, Report(reading.call))
<1> DEFINE call == reading.call
           A == reading.answers
           q == Questions(call)
           r == Report(call)
<1>1. q = AdvertiserContext BY DEF Questions
<1>2. /\ DOMAIN q = 1 .. 3 /\ (\A i \in DOMAIN q : q[i].part = 1)
      /\ q[1].what = "total" /\ q[2].what = "campaigns" /\ q[3].what = "meta"
  BY <1>1 DEF AdvertiserContext, Question
<1>3. A[1].to = 1 /\ A[2].to = 2 /\ A[3].to = 3
  <2>1. \A i \in DOMAIN q : A[i] \in [to : {i}, is : {"data", "empty", "error"}]
    BY <1>2, AllAnswered
  <2> QED BY <1>2, <2>1
<1>4. r = Context BY DEF Report
<1> HIDE DEF q, r
<1>5. r.total = A[1] /\ r.campaigns = A[2] /\ r.meta = A[3] BY <1>4 DEF Context
<1>6. /\ r["total"] # Pending => q[r["total"].to].what = "total"
      /\ r["campaigns"] # Pending => q[r["campaigns"].to].what = "campaigns"
      /\ r["meta"] # Pending => q[r["meta"].to].what = "meta"
  BY <1>2, <1>3, <1>5
<1> HIDE DEF call, A
<1>7. Right(call, A, r) BY <1>6 DEF Right, q, call
<1> QED BY <1>7 DEF call, A, r

\* A mention of a portfolio is in error when its insights failed, and when it is not both of
\* its answers are in.
LEMMA MentionSettled ==
  ASSUME Answering, reading.pc # "idle", \A p \in Parts : Settles(p),
         reading.call.tool = "portfolio", Len(reading.call.ids) \in Nat,
         NEW i \in 1 .. Len(reading.call.ids)
  PROVE  /\ Failed(i) <=> reading.answers[2 * i].is = "failed"
         /\ ~ Failed(i) => reading.answers[2 * i - 1].to = 2 * i - 1 /\ reading.answers[2 * i].to = 2 * i
<1> DEFINE call == reading.call
           A == reading.answers
           q == Questions(call)
<1>1. /\ DOMAIN q = 1 .. 2 * Len(call.ids)
      /\ \A k \in 1 .. 2 * Len(call.ids) : \E j \in 1 .. Len(call.ids) : k = 2 * j - 1 \/ k = 2 * j
      /\ \A j \in 1 .. Len(call.ids) :
           q[2 * j - 1] = Question("meta", j, TRUE) /\ q[2 * j] = Question("insights", j, FALSE)
  BY PortfolioQuestions
<1>2. DOMAIN A = DOMAIN q BY DEF Answering
<1>3. \A k \in DOMAIN q : OfItsQuestion(call, k, A[k]) BY DEF Answering
<1>4. 2 * i - 1 \in DOMAIN q /\ 2 * i \in DOMAIN q BY <1>1
<1>5. /\ q[2 * i - 1].part = i /\ q[2 * i - 1].caught
      /\ q[2 * i].part = i /\ ~ q[2 * i].caught
  <2>1. /\ Question("meta", i, TRUE).part = i /\ Question("meta", i, TRUE).caught
        /\ Question("insights", i, FALSE).part = i /\ ~ Question("insights", i, FALSE).caught
    BY DEF Question
  <2>2. q[2 * i - 1] = Question("meta", i, TRUE) /\ q[2 * i] = Question("insights", i, FALSE) BY <1>1
  <2> QED BY <2>1, <2>2, Zenon
<1>6. OfPart(i) = {2 * i - 1, 2 * i}
  <2>1. 2 * i - 1 \in OfPart(i) /\ 2 * i \in OfPart(i) BY <1>2, <1>4, <1>5 DEF OfPart
  <2>2. ASSUME NEW k \in OfPart(i) PROVE k \in {2 * i - 1, 2 * i}
    <3>1. k \in DOMAIN q /\ q[k].part = i BY <1>2, <2>2 DEF OfPart
    <3>2. PICK j \in 1 .. Len(call.ids) : k = 2 * j - 1 \/ k = 2 * j BY <1>1, <3>1
    <3>3. q[k].part = j
      <4>1. Question("meta", j, TRUE).part = j /\ Question("insights", j, FALSE).part = j
        BY DEF Question
      <4>2. q[k] = Question("meta", j, TRUE) \/ q[k] = Question("insights", j, FALSE) BY <1>1, <3>2
      <4> QED BY <4>1, <4>2, Zenon
    <3> QED BY <3>1, <3>2, <3>3
  <2> QED BY <2>1, <2>2
<1>7. A[2 * i - 1].is # "failed"
  <2>1. OfItsQuestion(call, 2 * i - 1, A[2 * i - 1]) BY <1>3, <1>4
  <2>2. Pending.is # "failed" BY DEF Pending
  <2> QED BY <1>5, <2>1, <2>2 DEF OfItsQuestion
<1>8. Failed(i) <=> A[2 * i].is = "failed" BY <1>6, <1>7 DEF Failed
<1>9. Settles(i) BY <1>2, <1>4, <1>5 DEF Parts
<1>10. ASSUME ~ Failed(i), NEW k \in {2 * i - 1, 2 * i} PROVE A[k].to = k
  <2>1. A[k].is # "pending" BY <1>6, <1>9, <1>10 DEF Settles
  <2>2. A[k] # Pending BY <2>1 DEF Pending
  <2>3. OfItsQuestion(call, k, A[k]) BY <1>3, <1>4, <1>10
  <2> QED BY <2>2, <2>3 DEF OfItsQuestion
<1> QED BY <1>8, <1>10

LEMMA PortfolioRight ==
  ASSUME Answering, reading.pc # "idle", \A p \in Parts : Settles(p),
         reading.call.tool = "portfolio", Len(reading.call.ids) \in Nat,
         DOMAIN reading.call.ids = 1 .. Len(reading.call.ids)
  PROVE  Right(reading.call, reading.answers, Report(reading.call))
<1> DEFINE call == reading.call
           A == reading.answers
           q == Questions(call)
           r == Report(call)
           n == Len(call.ids)
           entries == [i \in DOMAIN call.ids |-> Entry(call.ids, i)]
           spending == {i \in DOMAIN call.ids : ~ entries[i].error /\ entries[i].insights.is = "data"}
           errored == {j \in DOMAIN call.ids : entries[j].error}
<1>1. \A j \in 1 .. n :
        q[2 * j - 1] = Question("meta", j, TRUE) /\ q[2 * j] = Question("insights", j, FALSE)
  BY PortfolioQuestions
<1>2. r = Portfolio(call.ids) BY DEF Report
<1>3. /\ r.byAccount = entries /\ r.total = Cardinality(spending)
      /\ r.errored = [i \in errored |-> entries[i]]
  BY <1>2 DEF Portfolio
<1>4. \A i \in DOMAIN call.ids : entries[i] = Entry(call.ids, i) OBVIOUS
<1>5. ASSUME NEW i \in 1 .. n
      PROVE  /\ entries[i].id = call.ids[i] /\ entries[i].error \in BOOLEAN
             /\ entries[i].error <=> A[2 * i].is = "failed"
             /\ ~ entries[i].error => /\ q[entries[i].meta.to] = Question("meta", i, TRUE)
                                      /\ q[entries[i].insights.to] = Question("insights", i, FALSE)
  <2>1. /\ Failed(i) <=> A[2 * i].is = "failed"
        /\ ~ Failed(i) => A[2 * i - 1].to = 2 * i - 1 /\ A[2 * i].to = 2 * i
    BY MentionSettled
  <2>2. entries[i] = Entry(call.ids, i) BY <1>4
  <2> HIDE DEF q, entries
  <2>3. CASE Failed(i)
    <3>1. entries[i] = [id |-> call.ids[i], meta |-> Pending, insights |-> Pending, error |-> TRUE]
      BY <2>2, <2>3 DEF Entry
    <3> QED BY <2>1, <2>3, <3>1
  <2>4. CASE ~ Failed(i)
    <3>1. entries[i] = [id |-> call.ids[i], meta |-> A[2 * i - 1], insights |-> A[2 * i], error |-> FALSE]
      BY <2>2, <2>4 DEF Entry
    <3>2. /\ entries[i].meta = A[2 * i - 1] /\ entries[i].insights = A[2 * i]
          /\ entries[i].id = call.ids[i] /\ entries[i].error = FALSE
      BY <3>1
    <3>3. q[2 * i - 1] = Question("meta", i, TRUE) /\ q[2 * i] = Question("insights", i, FALSE) BY <1>1
    <3>4. entries[i].meta.to = 2 * i - 1 /\ entries[i].insights.to = 2 * i BY <2>1, <2>4, <3>2
    <3>5. /\ q[entries[i].meta.to] = Question("meta", i, TRUE)
          /\ q[entries[i].insights.to] = Question("insights", i, FALSE)
      BY <3>3, <3>4, Zenon
    <3> QED BY <2>1, <2>4, <3>2, <3>5
  <2> QED BY <2>3, <2>4
<1> HIDE DEF q, r, entries
<1>6. DOMAIN r.errored = errored /\ \A i \in errored : r.errored[i] = entries[i] BY <1>3
<1>7. r.total + Cardinality(DOMAIN r.errored) <= n
  <2>1. IsFiniteSet(1 .. n) /\ Cardinality(1 .. n) = n BY FS_Interval
  <2>2. spending \subseteq 1 .. n /\ errored \subseteq 1 .. n /\ spending \cap errored = {} OBVIOUS
  <2> HIDE DEF spending, errored
  <2>3. /\ IsFiniteSet(spending) /\ IsFiniteSet(errored)
    BY <2>1, <2>2, FS_Subset
  <2>4. /\ IsFiniteSet(spending \cup errored)
        /\ Cardinality(spending \cup errored)
             = Cardinality(spending) + Cardinality(errored) - Cardinality(spending \cap errored)
    BY <2>3, FS_Union
  <2>5. Cardinality(spending \cap errored) = 0 BY <2>2, FS_EmptySet
  <2>6. Cardinality(spending \cup errored) <= n
    <3>1. spending \cup errored \subseteq 1 .. n BY <2>2
    <3> QED BY <2>1, <3>1, FS_Subset
  <2>7. Cardinality(spending) \in Nat /\ Cardinality(errored) \in Nat BY <2>3, FS_CardinalityType
  <2> QED BY <1>3, <1>6, <2>4, <2>5, <2>6, <2>7
<1>8. {r.errored[i].id : i \in DOMAIN r.errored}
        = {call.ids[i] : i \in {j \in DOMAIN call.ids : A[2 * j].is = "failed"}}
  <2>1. errored = {j \in DOMAIN call.ids : A[2 * j].is = "failed"} BY <1>5
  <2>2. \A i \in errored : r.errored[i].id = call.ids[i] BY <1>5, <1>6
  <2> HIDE DEF errored
  <2> QED BY <1>6, <2>1, <2>2
<1>9. \A i \in DOMAIN call.ids :
        /\ r.byAccount[i].id = call.ids[i]
        /\ ~ r.byAccount[i].error => /\ q[r.byAccount[i].meta.to] = Question("meta", i, TRUE)
                                     /\ q[r.byAccount[i].insights.to] = Question("insights", i, FALSE)
  BY <1>3, <1>5
<1> HIDE DEF A
<1>10. Right(call, A, r) BY <1>7, <1>8, <1>9 DEF Right, q
<1> QED BY <1>10 DEF r, A

LEMMA ConcludeKeeps == ReadInv /\ Conclude => ReadInv'
<1> SUFFICES ASSUME ReadInv, Conclude PROVE ReadInv' OBVIOUS
<1> DEFINE R == Report(reading.call)
<1>1. Answering /\ reading.pc = "asked" BY DEF ReadInv, Conclude
<1>2. /\ DOMAIN reading.answers = DOMAIN Questions(reading.call)
      /\ reading.call \in Calls
  BY <1>1 DEF Answering
<1>3. CASE reading' = [reading EXCEPT !.pc = "failed"]
  <2>1. /\ reading'.pc = "failed" /\ reading'.call = reading.call /\ reading'.answers = reading.answers
        /\ reading' = [pc |-> reading'.pc, call |-> reading'.call, answers |-> reading'.answers,
                       report |-> reading'.report]
    BY <1>1, <1>3 DEF Answering
  <2> QED BY <1>1, <2>1 DEF ReadInv, Answering, OfItsQuestion, Questions
<1>4. CASE /\ reading.call.tool = "portfolio" \/ ~ Failed(1)
           /\ \A p \in Parts : Settles(p)
           /\ reading' = [reading EXCEPT !.pc = "over", !.report = R]
  <2>1. Right(reading.call, reading.answers, R)
    <3>1. CASE reading.call.tool = "diagnose" BY <1>1, <1>4, <3>1, DiagnosisRight
    <3>2. CASE reading.call.tool = "anomaly" BY <1>1, <1>4, <3>2, AnomalyRight
    <3>3. CASE reading.call.tool = "context" BY <1>1, <1>4, <3>3, ContextRight
    <3>4. CASE /\ reading.call.tool = "portfolio" /\ Len(reading.call.ids) \in Nat
               /\ DOMAIN reading.call.ids = 1 .. Len(reading.call.ids)
      BY <1>1, <1>4, <3>4, PortfolioRight
    <3> QED BY <1>2, <3>1, <3>2, <3>3, <3>4, CallKinds
  <2> HIDE DEF R
  <2>2. /\ reading'.pc = "over" /\ reading'.call = reading.call /\ reading'.answers = reading.answers
        /\ reading'.report = R
        /\ reading' = [pc |-> reading'.pc, call |-> reading'.call, answers |-> reading'.answers,
                       report |-> reading'.report]
    BY <1>1, <1>4 DEF Answering
  <2>3. Right(reading'.call, reading'.answers, reading'.report) BY <2>1, <2>2, Zenon
  <2>4. Answering' BY <1>1, <2>2 DEF Answering, OfItsQuestion, Questions
  <2> QED BY <2>3, <2>4 DEF ReadInv, Right
<1> QED BY <1>3, <1>4 DEF Conclude

LEMMA AskReadsKeeps ==
  ASSUME ReadInv, NEW call \in Calls, AskReads(call) PROVE ReadInv'
<1> DEFINE Q == Questions(call)
           A == [i \in DOMAIN Q |-> Pending]
<1>1. Pending \in AnswerType BY DEF Pending, AnswerType
<1>2. A \in [DOMAIN Q -> AnswerType] /\ \A i \in DOMAIN Q : A[i] = Pending BY <1>1
<1>3. /\ reading' = [pc |-> reading'.pc, call |-> reading'.call, answers |-> reading'.answers,
                     report |-> reading'.report]
      /\ reading'.pc = "asked" /\ reading'.call = call /\ reading'.answers = A
  BY DEF AskReads
<1> HIDE DEF A
<1>4. Questions(reading'.call) = Q BY <1>3
<1> HIDE DEF Q
<1>5. \A i \in DOMAIN Q : OfItsQuestion(reading'.call, i, A[i]) BY <1>2 DEF OfItsQuestion
<1>6. Answering'
  <2>1. reading'.answers \in [DOMAIN Questions(reading'.call) -> AnswerType] BY <1>2, <1>3, <1>4
  <2>2. \A i \in DOMAIN Questions(reading'.call) :
          OfItsQuestion(reading'.call, i, reading'.answers[i])
    BY <1>3, <1>4, <1>5
  <2> QED BY <1>3, <2>1, <2>2 DEF Answering
<1> QED BY <1>3, <1>6 DEF ReadInv

LEMMA AnswerReadKeeps ==
  ASSUME ReadInv, NEW i \in DOMAIN reading.answers, AnswerRead(i) PROVE ReadInv'
<1> DEFINE call == reading.call
           Q == Questions(call)
           A == reading.answers
<1>1. Answering /\ reading.pc = "asked" BY DEF ReadInv, AnswerRead
<1>2. /\ A \in [DOMAIN Q -> AnswerType] /\ i \in DOMAIN Q
      /\ \A k \in DOMAIN Q : OfItsQuestion(call, k, A[k])
  BY <1>1 DEF Answering
<1>3. PICK is \in {"data", "empty", IF Q[i].caught THEN "error" ELSE "failed"} :
        reading' = [reading EXCEPT !.answers[i] = [to |-> i, is |-> is]]
  BY DEF AnswerRead
<1> DEFINE a == [to |-> i, is |-> is]
           B == [A EXCEPT ![i] = a]
<1>4. DOMAIN Q \subseteq Nat
  <2>1. CASE call.tool = "diagnose" /\ call.account \in BOOLEAN /\ call.pixel \in BOOLEAN
    BY <2>1, DiagnoseQuestions
  <2>2. CASE call.tool = "anomaly" BY <2>2 DEF Questions, AnomalySignal
  <2>3. CASE call.tool = "context" BY <2>3 DEF Questions, AdvertiserContext
  <2>4. CASE call.tool = "portfolio" /\ Len(call.ids) \in Nat
    <3>1. DOMAIN Q = 1 .. 2 * Len(call.ids) BY <2>4, PortfolioQuestions
    <3> HIDE DEF Q
    <3> QED BY <2>4, <3>1
  <2>5. call \in Calls BY <1>1 DEF Answering
  <2> QED BY <2>1, <2>2, <2>3, <2>4, <2>5, CallKinds
<1>5. a \in AnswerType /\ OfItsQuestion(call, i, a)
  <2>1. is \in {"data", "empty", "error", "failed"} BY <1>3
  <2>2. is = "failed" => ~ Q[i].caught BY <1>3
  <2>3. i \in Nat BY <1>2, <1>4
  <2>4. a.is = is /\ a \in [to : {i}, is : {"data", "empty", "error", "failed"}] BY <2>1
  <2>5. a \in AnswerType BY <2>1, <2>3 DEF AnswerType
  <2> HIDE DEF a
  <2> QED BY <2>2, <2>4, <2>5 DEF OfItsQuestion
<1>6. /\ reading' = [pc |-> reading'.pc, call |-> reading'.call, answers |-> reading'.answers,
                     report |-> reading'.report]
      /\ reading'.pc = "asked" /\ reading'.call = call /\ reading'.answers = B
  BY <1>1, <1>3 DEF Answering
<1> HIDE DEF a, Q
<1>7. B \in [DOMAIN Q -> AnswerType] /\ \A k \in DOMAIN Q : OfItsQuestion(call, k, B[k])
  BY <1>2, <1>5
<1> HIDE DEF B
<1>8. Questions(reading'.call) = Q BY <1>6 DEF Q
<1>9. /\ reading'.answers \in [DOMAIN Questions(reading'.call) -> AnswerType]
      /\ \A k \in DOMAIN Questions(reading'.call) :
           OfItsQuestion(reading'.call, k, reading'.answers[k])
  BY <1>6, <1>7, <1>8
<1>10. reading'.call \in Calls BY <1>1, <1>6 DEF Answering
<1>11. Answering' BY <1>6, <1>9, <1>10 DEF Answering
<1> QED BY <1>6, <1>11 DEF ReadInv

LEMMA ReadGoesOn == ReadInv /\ ReadStep => ReadInv'
<1>1. ReadInv /\ UNCHANGED reading => ReadInv'
  <2> SUFFICES ASSUME ReadInv, reading' = reading PROVE ReadInv' OBVIOUS
  <2>1. Answering' BY DEF ReadInv, Answering
  <2>2. reading.pc = "over" => Right(reading.call, reading.answers, reading.report) BY DEF ReadInv
  <2>3. reading'.pc = "over" => Right(reading'.call, reading'.answers, reading'.report) BY <2>2, Zenon
  <2> QED BY <2>1, <2>3 DEF ReadInv, Right
<1> QED BY <1>1, AskReadsKeeps, AnswerReadKeeps, ConcludeKeeps DEF ReadStep

LEMMA AlwaysRead == Spec => []ReadInv
<1>1. Init => ReadInv BY ReadBegins DEF Init
<1>2. ReadInv /\ [Next]_vars => ReadInv' BY ReadGoesOn, Parted
<1> QED BY <1>1, <1>2, PTL DEF Spec

\* In whatever order the answers of a tool come and whichever fail, its report shows each
\* under the question it answers (macros.ts:107-164, 241-291, insights-views.ts:147-161, 370-391).
THEOREM Matched == Spec => []AnswersAreOfTheirQuestion
<1>1. ReadInv => AnswersAreOfTheirQuestion BY DEF ReadInv, Right, AnswersAreOfTheirQuestion
<1> QED BY <1>1, AlwaysRead, PTL
-----------------------------------------------------------------------------
(* The writes.                                                             *)

\* Of the fields that name a budget, only those a price is asked for under, and its amount.
Costed(f) == \A key \in DOMAIN f \cap BudgetKeys : key \in Prices /\ \E n \in Nat : f[key] = Amount(n)

AllCosted(S) == \A f \in S : Costed(f)

\* What the routing relies on in an ask.
Askable(ask) ==
  /\ ask = Ask(ask.tool, ask.method, ask.path, ask.fields, ask.after)
  /\ ask.method \in {"none", "POST", "DELETE", "MULTIPART"}
  /\ ask.tool \in Spenders => CreatesSpender(ask.path)
  /\ Costed(ask.fields)

LEMMA ShortConcat ==
  ASSUME NEW a, NEW b, NEW c PROVE <<a>> \o <<b>> = <<a, b>> /\ <<a, b>> \o <<c>> = <<a, b, c>>
<1> DEFINE S == {a, b, c}
           one == <<a>>
           two == <<b>>
           both == <<a, b>>
           three == <<c>>
           all == <<a, b, c>>
<1>1. /\ one \in Seq(S) /\ Len(one) = 1 /\ one[1] = a
      /\ two \in Seq(S) /\ Len(two) = 1 /\ two[1] = b
      /\ three \in Seq(S) /\ Len(three) = 1 /\ three[1] = c
      /\ both \in Seq(S) /\ Len(both) = 2 /\ both[1] = a /\ both[2] = b
      /\ all \in Seq(S) /\ Len(all) = 3 /\ all[1] = a /\ all[2] = b /\ all[3] = c
  OBVIOUS
<1> HIDE DEF S, one, two, both, three, all
<1>2. /\ one \o two \in Seq(S) /\ Len(one \o two) = Len(one) + Len(two)
      /\ \A i \in 1 .. Len(one) + Len(two) :
           (one \o two)[i] = IF i <= Len(one) THEN one[i] ELSE two[i - Len(one)]
  BY <1>1, ConcatProperties
<1>3. /\ both \o three \in Seq(S) /\ Len(both \o three) = Len(both) + Len(three)
      /\ \A i \in 1 .. Len(both) + Len(three) :
           (both \o three)[i] = IF i <= Len(both) THEN both[i] ELSE three[i - Len(both)]
  BY <1>1, ConcatProperties
<1>4. one \o two = both
  <2>1. \A i \in 1 .. 2 : (one \o two)[i] = both[i] BY <1>1, <1>2
  <2> QED BY <1>1, <1>2, <2>1, SeqEqual
<1>5. both \o three = all
  <2>1. \A i \in 1 .. 3 : (both \o three)[i] = all[i] BY <1>1, <1>3
  <2> QED BY <1>1, <1>3, <2>1, SeqEqual
<1> QED BY <1>4, <1>5 DEF one, two, both, three, all

\* The budget keys, one by one.
LEMMA TheBudgetKeys ==
  BudgetKeys = {DailyBudget, LifetimeBudget, <<"budget">>, SpendCap,
                <<"daily", "budget", "cents">>, <<"lifetime", "budget", "cents">>,
                <<"budget", "cents">>, <<"spend", "cap", "cents">>}
<1> DEFINE budgets == {DailyBudget, LifetimeBudget, <<"budget">>, SpendCap}
<1>1. /\ DailyBudget \o Cents = <<"daily", "budget", "cents">>
      /\ LifetimeBudget \o Cents = <<"lifetime", "budget", "cents">>
      /\ <<"budget">> \o Cents = <<"budget", "cents">>
      /\ SpendCap \o Cents = <<"spend", "cap", "cents">>
  BY ShortConcat DEF DailyBudget, LifetimeBudget, SpendCap, Cents
<1>2. {key \o Cents : key \in budgets} =
        {DailyBudget \o Cents, LifetimeBudget \o Cents, <<"budget">> \o Cents, SpendCap \o Cents}
  OBVIOUS
<1> QED BY <1>1, <1>2 DEF BudgetKeys

LEMMA CostedOver ==
  ASSUME NEW S, NEW T, AllCosted(S), AllCosted(T) PROVE AllCosted(S ++ T)
<1> SUFFICES ASSUME NEW f \in S, NEW g \in T PROVE Costed(Over(f, g))
  BY DEF AllCosted, ++
<1>1. Costed(f) /\ Costed(g) BY DEF AllCosted
<1>2. DOMAIN Over(f, g) = DOMAIN f \cup DOMAIN g
      /\ \A key \in DOMAIN Over(f, g) : Over(f, g)[key] = IF key \in DOMAIN f THEN f[key] ELSE g[key]
  BY DEF Over
<1> QED BY <1>1, <1>2 DEF Costed

LEMMA CostedField ==
  ASSUME NEW key, NEW value, key \notin BudgetKeys \/ (key \in Prices /\ \E n \in Nat : value = Amount(n))
  PROVE  Costed(Field(key, value))
BY DEF Costed, Field

LEMMA CostedNothing == Costed(<<>>)
BY DEF Costed

LEMMA CostedSome ==
  ASSUME NEW key, NEW values,
         key \notin BudgetKeys \/ (key \in Prices /\ \A v \in values : \E n \in Nat : v = Amount(n))
  PROVE  AllCosted(Some(key, values)) /\ AllCosted(Maybe(key, values))
BY CostedField, CostedNothing DEF AllCosted, Some, Maybe

\* The keys whose last word is one word are money keys by that suffix.
LEMMA LastIsSuffix ==
  ASSUME NEW S, NEW t \in Seq(S), NEW x \in S, Len(t) >= 1, t[Len(t)] = x
  PROVE  IsSuffix(<<x>>, t)
<1> DEFINE one == <<x>>
           a == Reverse(one)
           b == Reverse(t)
<1>1. one \in Seq(S) /\ Len(one) = 1 /\ one[1] = x OBVIOUS
<1>2. Len(t) \in Nat /\ DOMAIN t = 1 .. Len(t) /\ \A i \in 1 .. Len(t) : t[i] \in S OBVIOUS
<1> HIDE DEF one
<1>3. a \in Seq(S) /\ Len(a) = 1 /\ a[1] = x BY <1>1 DEF Reverse
<1>4. b \in Seq(S) /\ Len(b) = Len(t) /\ b[1] = x BY <1>2 DEF Reverse
<1> HIDE DEF a, b
<1>5. /\ SubSeq(a, 1, 1) \in Seq(S) /\ Len(SubSeq(a, 1, 1)) = 1 /\ SubSeq(a, 1, 1)[1] = x
      /\ SubSeq(b, 1, 1) \in Seq(S) /\ Len(SubSeq(b, 1, 1)) = 1 /\ SubSeq(b, 1, 1)[1] = x
  BY <1>2, <1>3, <1>4
<1>6. SubSeq(a, 1, 1) = SubSeq(b, 1, 1)
  <2>1. \A i \in 1 .. 1 : SubSeq(a, 1, 1)[i] = SubSeq(b, 1, 1)[i] BY <1>5
  <2> QED BY <1>5, <2>1, SeqEqual
<1> QED BY <1>2, <1>3, <1>4, <1>6 DEF IsSuffix, IsPrefix, a, b, one

LEMMA SelfIsSuffix ==
  ASSUME NEW S, NEW t \in Seq(S) PROVE IsSuffix(t, t)
<1>1. Len(Reverse(t)) \in Nat BY DEF Reverse
<1> QED BY <1>1 DEF IsSuffix, IsPrefix

LEMMA MoneyKeysKnown ==
  \A key \in {DailyBudget, LifetimeBudget, SpendCap, BidAmount, BidStrategy} : IsMoneyKey(key)
<1>1. IsSuffix(<<"budget">>, DailyBudget) /\ IsSuffix(<<"budget">>, LifetimeBudget)
  <2>1. DailyBudget \in Seq({"daily", "budget"}) /\ LifetimeBudget \in Seq({"lifetime", "budget"})
    BY DEF DailyBudget, LifetimeBudget
  <2>2. /\ Len(DailyBudget) = 2 /\ DailyBudget[2] = "budget"
        /\ Len(LifetimeBudget) = 2 /\ LifetimeBudget[2] = "budget"
    BY DEF DailyBudget, LifetimeBudget
  <2>3. /\ Len(DailyBudget) >= 1 /\ DailyBudget[Len(DailyBudget)] = "budget"
        /\ Len(LifetimeBudget) >= 1 /\ LifetimeBudget[Len(LifetimeBudget)] = "budget"
    BY <2>2
  <2>4. "budget" \in {"daily", "budget"} /\ "budget" \in {"lifetime", "budget"} OBVIOUS
  <2>5. IsSuffix(<<"budget">>, DailyBudget) BY <2>1, <2>3, <2>4, LastIsSuffix, Zenon
  <2>6. IsSuffix(<<"budget">>, LifetimeBudget) BY <2>1, <2>3, <2>4, LastIsSuffix, Zenon
  <2> QED BY <2>5, <2>6
<1>2. IsSuffix(SpendCap, SpendCap) /\ IsSuffix(BidAmount, BidAmount)
  <2>1. SpendCap \in Seq({"spend", "cap"}) /\ BidAmount \in Seq({"bid", "amount"})
    BY DEF SpendCap, BidAmount
  <2> QED BY <2>1, SelfIsSuffix
<1>3. BidStrategy \in MoneyKeys BY DEF BidStrategy, MoneyKeys
<1> QED BY <1>1, <1>2, <1>3 DEF IsMoneyKey, MoneySuffixes

\* A write of the tools that spends and shows it is a matter of money to the gateway.
LEMMA SpendingShows ==
  ASSUME NEW ask, Askable(ask), Spends(ask), ~ HidesSpending(ask)
  PROVE  CreatesSpender(ask.path) \/ HasMoneyField(ask.fields)
<1>1. CASE ask.tool \in Spenders BY <1>1 DEF Askable
<1>2. CASE \E key \in DOMAIN ask.fields : IsMoneyKey(key)
  <2>1. ShowsMoney(ask.fields) BY <1>2 DEF ShowsMoney
  <2> QED BY <2>1 DEF HasMoneyField
<1>3. CASE Status \in DOMAIN ask.fields /\ ask.fields[Status] \in Words({"ACTIVE", "UNPAUSED"})
  <2>1. IsActiveStatus(ask.fields[Status]) BY <1>3 DEF IsActiveStatus, Words
  <2>2. ShowsMoney(ask.fields) BY <1>3, <2>1 DEF ShowsMoney
  <2> QED BY <2>2 DEF HasMoneyField
<1>4. Prices \subseteq {DailyBudget, LifetimeBudget, SpendCap} BY DEF Prices
<1> QED BY <1>1, <1>2, <1>3, <1>4, MoneyKeysKnown DEF Spends, Priced

LEMMA GreatestOfFew ==
  ASSUME NEW a \in Nat, NEW b \in Nat, NEW c \in Nat, NEW S \in SUBSET {0, a, b, c}, 0 \in S
  PROVE  Max(S) \in S /\ \A y \in S : Max(S) >= y
<1>1. \E x \in S : \A y \in S : x >= y
  <2>1. CASE a \in S /\ a >= b /\ a >= c BY <2>1
  <2>2. CASE b \in S /\ b >= a /\ b >= c BY <2>2
  <2>3. CASE c \in S /\ c >= a /\ c >= b BY <2>3
  <2> QED BY <2>1, <2>2, <2>3
<1> QED BY <1>1 DEF Max

\* No budget a write names is above the hint of its cost.
LEMMA HintCovers ==
  ASSUME NEW f, Costed(f)
  PROVE  /\ BudgetCents(f) \in Nat
         /\ \A key \in DOMAIN f \cap Prices : BudgetCents(f) >= f[key].n
<1> DEFINE Named(key) == IF key \in DOMAIN f THEN f[key].n ELSE 0
           a == Named(DailyBudget)
           b == Named(LifetimeBudget)
           c == Named(SpendCap)
           S == AmountsOf(f)
<1>1. Prices = {DailyBudget, LifetimeBudget, SpendCap} BY DEF Prices
<1>2. Prices \subseteq BudgetKeys BY <1>1, TheBudgetKeys
<1>3. \A key \in DOMAIN f \cap Prices : f[key].is = "amount" /\ f[key].n \in Nat
  BY <1>2 DEF Costed, Amount
<1>4. a \in Nat /\ b \in Nat /\ c \in Nat BY <1>1, <1>3
<1>5. \A key \in DOMAIN f \cap Prices : f[key].n \in S BY <1>2, <1>3 DEF AmountsOf
<1>6. S \subseteq {0, a, b, c}
  <2>1. ASSUME NEW key \in DOMAIN f \cap BudgetKeys PROVE f[key].n \in {0, a, b, c}
    <3>1. key \in Prices BY DEF Costed
    <3> QED BY <1>1, <3>1
  <2> HIDE DEF a, b, c
  <2> QED BY <2>1 DEF AmountsOf
<1>7. 0 \in S BY DEF AmountsOf
<1> HIDE DEF S, a, b, c
<1>8. Max(S) \in S /\ \A y \in S : Max(S) >= y BY <1>4, <1>6, <1>7, GreatestOfFew
<1> QED BY <1>4, <1>5, <1>6, <1>8 DEF BudgetCents, S

\* Each budget of a write is under its *_cents key among what the gateway is sent.
LEMMA AliasesReserve ==
  ASSUME NEW f, Costed(f), NEW key \in DOMAIN f \cap Prices
  PROVE  WithReserveAliases(f)[key \o Cents] = f[key]
<1> DEFINE missing == {k \in {DailyBudget, LifetimeBudget, SpendCap} :
                         k \in DOMAIN f /\ f[k].is = "amount" /\ k \o Cents \notin DOMAIN f}
           aliases == [c \in {k \o Cents : k \in missing} |-> f[Front(c)]]
<1>1. Prices = {DailyBudget, LifetimeBudget, SpendCap} BY DEF Prices
<1>2. key \in BudgetKeys BY <1>1, TheBudgetKeys
<1>3. f[key].is = "amount" BY <1>2 DEF Costed, Amount
<1>4. key \o Cents \in BudgetKeys /\ key \o Cents \notin Prices /\ Front(key \o Cents) = key
  <2>1. ASSUME NEW x, NEW y, key = <<x, y>>
        PROVE  key \o Cents = <<x, y, "cents">> /\ Front(key \o Cents) = key
    <3>1. key \o Cents = <<x, y, "cents">> BY <2>1, ShortConcat DEF Cents
    <3> DEFINE t == <<x, y, "cents">>
               u == <<x, y>>
    <3>2. /\ t \in Seq({x, y, "cents"}) /\ Len(t) = 3 /\ t[1] = x /\ t[2] = y
          /\ u \in Seq({x, y, "cents"}) /\ Len(u) = 2 /\ u[1] = x /\ u[2] = y
      OBVIOUS
    <3> HIDE DEF t, u
    <3>3. /\ SubSeq(t, 1, 2) \in Seq({x, y, "cents"}) /\ Len(SubSeq(t, 1, 2)) = 2
          /\ SubSeq(t, 1, 2)[1] = x /\ SubSeq(t, 1, 2)[2] = y
      BY <3>2
    <3>4. SubSeq(t, 1, 2) = u
      <4>1. \A i \in 1 .. 2 : SubSeq(t, 1, 2)[i] = u[i] BY <3>2, <3>3
      <4> QED BY <3>2, <3>3, <4>1, SeqEqual
    <3>5. Front(t) = SubSeq(t, 1, 2) BY <3>2 DEF Front
    <3> QED BY <2>1, <3>1, <3>4, <3>5 DEF t, u
  <2>2. CASE key = DailyBudget
    <3>1. key = <<"daily", "budget">> BY <2>2 DEF DailyBudget
    <3>2. key \o Cents = <<"daily", "budget", "cents">> /\ Front(key \o Cents) = key BY <2>1, <3>1
    <3>3. key \o Cents \notin Prices BY <3>2 DEF Prices, DailyBudget, LifetimeBudget, SpendCap
    <3> QED BY <3>2, <3>3, TheBudgetKeys
  <2>3. CASE key = LifetimeBudget
    <3>1. key = <<"lifetime", "budget">> BY <2>3 DEF LifetimeBudget
    <3>2. key \o Cents = <<"lifetime", "budget", "cents">> /\ Front(key \o Cents) = key BY <2>1, <3>1
    <3>3. key \o Cents \notin Prices BY <3>2 DEF Prices, DailyBudget, LifetimeBudget, SpendCap
    <3> QED BY <3>2, <3>3, TheBudgetKeys
  <2>4. CASE key = SpendCap
    <3>1. key = <<"spend", "cap">> BY <2>4 DEF SpendCap
    <3>2. key \o Cents = <<"spend", "cap", "cents">> /\ Front(key \o Cents) = key BY <2>1, <3>1
    <3>3. key \o Cents \notin Prices BY <3>2 DEF Prices, DailyBudget, LifetimeBudget, SpendCap
    <3> QED BY <3>2, <3>3, TheBudgetKeys
  <2> QED BY <1>1, <2>2, <2>3, <2>4
<1>5. key \o Cents \notin DOMAIN f BY <1>4 DEF Costed
<1>6. key \in missing BY <1>1, <1>3, <1>5
<1>7. key \o Cents \in DOMAIN aliases /\ aliases[key \o Cents] = f[Front(key \o Cents)]
  <2> HIDE DEF missing
  <2> QED BY <1>6
<1>8. WithReserveAliases(f) = Over(aliases, f) BY DEF WithReserveAliases
<1> HIDE DEF aliases
<1>9. Over(aliases, f)[key \o Cents] = aliases[key \o Cents] BY <1>7 DEF Over
<1> QED BY <1>4, <1>7, <1>8, <1>9

\* What ShownMoneyIsTyped says of what was sent for an ask.
Typed(ask, sent) ==
  /\ sent.to \in {"none", "refused", "/v1/act"}
  /\ sent.to = "/v1/act" =>
       \A key \in Priced(ask) :
         /\ sent.fields[key \o Cents] = ask.fields[key]
         /\ sent.action # "pause_campaign" => sent.cost >= ask.fields[key].n

LEMMA MappedIsTyped ==
  ASSUME NEW method, NEW path, NEW f
  PROVE  LET act == MapMoneyAction(method, path, f)
         IN \/ act = NoAction
            \/ /\ act.fields = WithReserveAliases(f)
               /\ act.action # "pause_campaign" => act.cost = BudgetCents(f)
<1> DEFINE act == MapMoneyAction(method, path, f)
           Act(action, cost) == [action |-> action, cost |-> cost, fields |-> WithReserveAliases(f)]
           cost == BudgetCents(f)
<1>1. \/ act = NoAction
      \/ act = Act("publish_campaign", cost)
      \/ act = Act("publish_adset", cost)
      \/ act = Act("set_spend_cap", cost)
      \/ act = Act("pause_campaign", 0)
      \/ act = Act("activate_campaign", cost)
      \/ act = Act("scale_budget", cost)
  BY DEF MapMoneyAction
<1> HIDE DEF act
<1>2. \/ act = NoAction
      \/ /\ act.fields = WithReserveAliases(f)
         /\ act.action # "pause_campaign" => act.cost = cost
  BY <1>1
<1> QED BY <1>2 DEF act

LEMMA RouteIsTyped ==
  ASSUME NEW ask, Askable(ask), Spends(ask), ~ HidesSpending(ask)
  PROVE  Typed(ask, Route(ask.method, ask.path, ask.fields))
<1> DEFINE f == ask.fields
           act == MapMoneyAction(ask.method, ask.path, f)
           sent == Route(ask.method, ask.path, f)
<1>1. CreatesSpender(ask.path) \/ HasMoneyField(f) BY SpendingShows
<1>2. \/ sent = [to |-> "refused", action |-> "none", cost |-> 0, fields |-> <<>>]
      \/ /\ act # NoAction
         /\ sent = [to |-> "/v1/act", action |-> act.action, cost |-> act.cost, fields |-> act.fields]
  BY <1>1 DEF Route
<1>3. \/ act = NoAction
      \/ /\ act.fields = WithReserveAliases(f)
         /\ act.action # "pause_campaign" => act.cost = BudgetCents(f)
  BY MappedIsTyped
<1>4. Costed(f) BY DEF Askable
<1> HIDE DEF act, sent
<1>5. ASSUME act # NoAction, NEW key \in Priced(ask)
      PROVE  /\ act.fields[key \o Cents] = f[key]
             /\ act.action # "pause_campaign" => act.cost >= f[key].n
  <2>1. key \in DOMAIN f \cap Prices BY <1>5 DEF Priced
  <2>2. WithReserveAliases(f)[key \o Cents] = f[key] BY <1>4, <2>1, AliasesReserve
  <2>3. BudgetCents(f) >= f[key].n BY <1>4, <2>1, HintCovers
  <2> QED BY <1>3, <1>5, <2>2, <2>3
<1>6. CASE sent = [to |-> "refused", action |-> "none", cost |-> 0, fields |-> <<>>]
  <2>1. sent.to = "refused" BY <1>6
  <2> QED BY <2>1 DEF Typed, sent
<1>7. CASE /\ act # NoAction
           /\ sent = [to |-> "/v1/act", action |-> act.action, cost |-> act.cost, fields |-> act.fields]
  <2>1. /\ sent.to = "/v1/act" /\ sent.action = act.action /\ sent.cost = act.cost
        /\ sent.fields = act.fields
    BY <1>7
  <2> QED BY <1>5, <1>7, <2>1 DEF Typed, sent
<1> QED BY <1>2, <1>6, <1>7

-----------------------------------------------------------------------------
LEMMA PostAskable ==
  ASSUME NEW tool, NEW path, NEW S, AllCosted(S), tool \in Spenders => CreatesSpender(path)
  PROVE  \A ask \in Post(tool, path, S) : Askable(ask)
BY DEF Post, Ask, Askable, AllCosted

LEMMA DeleteAskable ==
  ASSUME NEW tool, NEW path, NEW after, tool \notin Spenders
  PROVE  \A ask \in Delete(tool, path, after) : Askable(ask)
BY CostedNothing DEF Delete, Ask, Askable

LEMMA RefusalAskable ==
  ASSUME NEW tool, tool \notin Spenders PROVE Askable(Refusal(tool))
BY CostedNothing DEF Refusal, Ask, Askable

\* The fields the tools write.
LEMMA FieldsCosted ==
  /\ AllCosted(Plain) /\ AllCosted(NewStatus) /\ AllCosted(AnyStatus) /\ AllCosted(Deleted)
  /\ AllCosted(Budgets) /\ AllCosted(Strategy) /\ AllCosted(Maybe(BidAmount, Cost))
  /\ AllCosted(Some(SpendCap, Cost \cup {Amount(0)})) /\ AllCosted(Creative)
  /\ \A values : /\ AllCosted(Some(Targeting, values)) /\ AllCosted(Maybe(Targeting, values))
                 /\ AllCosted(Maybe(PromotedObject, values)) /\ AllCosted(Maybe(Status, values))
                 /\ AllCosted(Some(Status, values))
                 /\ AllCosted(Some(<<"budget", "value">>, values))
                 /\ AllCosted(Some(<<"lookalike", "spec">>, values))
                 /\ AllCosted(Some(<<"questions">>, values)) /\ AllCosted(Some(<<"cells">>, values))
                 /\ AllCosted(Some(<<"is", "hidden">>, values))
                 /\ AllCosted(Some(ExecutionSpec, values)) /\ AllCosted(Maybe(ExecutionSpec, values))
  /\ \A v : /\ Costed(Field(<<"object", "story", "spec">>, v)) /\ Costed(Field(<<"rule">>, v))
            /\ Costed(Field(<<"adaccounts">>, v))
<1> USE DEF Status, Targeting, PromotedObject, ExecutionSpec, BidAmount, BidStrategy
<1>1. \A key \in {<<"name">>, Status, BidAmount, BidStrategy, <<"creative">>, Targeting,
                  PromotedObject, <<"budget", "value">>, <<"lookalike", "spec">>, <<"questions">>,
                  <<"cells">>, <<"is", "hidden">>, ExecutionSpec, <<"object", "story", "spec">>,
                  <<"rule">>, <<"adaccounts">>} : key \notin BudgetKeys
  BY TheBudgetKeys DEF DailyBudget, LifetimeBudget, SpendCap
<1>2. \A v \in Cost \cup {Amount(0)} : \E n \in Nat : v = Amount(n) BY WriteAssumption DEF Cost
<1>3. {DailyBudget, LifetimeBudget, SpendCap} \subseteq Prices BY DEF Prices
<1>4. AllCosted(Budgets)
  <2>1. AllCosted(Maybe(DailyBudget, Cost)) /\ AllCosted(Maybe(LifetimeBudget, Cost))
    BY <1>2, <1>3, CostedSome
  <2> QED BY <2>1, CostedOver DEF Budgets
<1>5. AllCosted(Some(SpendCap, Cost \cup {Amount(0)})) BY <1>2, <1>3, CostedSome
<1>6. ASSUME NEW key, NEW values, key \notin BudgetKeys
      PROVE  AllCosted(Some(key, values)) /\ AllCosted(Maybe(key, values))
  BY <1>6, CostedSome
<1>7. \A key, v : key \notin BudgetKeys => Costed(Field(key, v)) BY CostedField
<1> HIDE DEF Status, Targeting, PromotedObject, ExecutionSpec, BidAmount, BidStrategy
<1> QED
  BY <1>1, <1>4, <1>5, <1>6, <1>7 DEF Plain, NewStatus, AnyStatus, Deleted, Strategy, Creative

\* Whatever a tool asks for, the routing can tell.
LEMMA AsksAskable == \A ask \in Asks : Askable(ask)
<1>1. /\ CreatesSpender(<<"act", "campaigns">>) /\ CreatesSpender(<<"act", "adsets">>)
      /\ CreatesSpender(<<"act", "ads">>)
  BY DEF CreatesSpender
<1>2. Spenders = {"create_campaign", "create_ad_set", "create_ad"} BY DEF Spenders
<1>3. AllCosted({<<>>}) /\ \A S : AllCosted(S) => AllCosted({<<>>} \cup S)
  BY CostedNothing DEF AllCosted
<1>4. \A ask \in CreateCampaign \cup UpdateCampaign \cup DeleteCampaign : Askable(ask)
  <2>1. AllCosted(Plain ++ NewStatus ++ Budgets ++ Strategy) BY FieldsCosted, CostedOver
  <2>2. AllCosted(AnyStatus ++ Budgets ++ Strategy) BY FieldsCosted, CostedOver
  <2>3. \A ask \in CreateCampaign : Askable(ask) BY <1>1, <2>1, PostAskable DEF CreateCampaign
  <2>4. \A ask \in UpdateCampaign : Askable(ask) BY <1>2, <2>2, PostAskable DEF UpdateCampaign
  <2>5. \A ask \in DeleteCampaign : Askable(ask) BY <1>2, FieldsCosted, PostAskable DEF DeleteCampaign
  <2> QED BY <2>3, <2>4, <2>5
<1>5. \A ask \in CreateAdSet \cup UpdateAdSet \cup DeleteAdSet : Askable(ask)
  <2>1. AllCosted(Plain ++ NewStatus ++ Budgets ++ Maybe(BidAmount, Cost) ++ Strategy
                  ++ Some(Targeting, {Json(<<>>)}) ++ Maybe(PromotedObject, Objects))
    BY FieldsCosted, CostedOver
  <2>2. AllCosted(AnyStatus ++ Budgets ++ Maybe(BidAmount, Cost) ++ Strategy
                  ++ Maybe(Targeting, {Json(<<>>)}))
    BY FieldsCosted, CostedOver
  <2>3. \A ask \in CreateAdSet : Askable(ask) BY <1>1, <2>1, PostAskable DEF CreateAdSet
  <2>4. \A ask \in UpdateAdSet : Askable(ask) BY <1>2, <2>2, PostAskable DEF UpdateAdSet
  <2>5. \A ask \in DeleteAdSet : Askable(ask) BY <1>2, FieldsCosted, PostAskable DEF DeleteAdSet
  <2> QED BY <2>3, <2>4, <2>5
<1>6. \A ask \in CreateAd \cup UpdateAd \cup DeleteAd : Askable(ask)
  <2>1. AllCosted(Plain ++ NewStatus ++ Creative) BY FieldsCosted, CostedOver
  <2>2. AllCosted(AnyStatus ++ ({<<>>} \cup Creative)) BY <1>3, FieldsCosted, CostedOver
  <2>3. \A ask \in CreateAd : Askable(ask) BY <1>1, <2>1, PostAskable DEF CreateAd
  <2>4. \A ask \in UpdateAd : Askable(ask) BY <1>2, <2>2, PostAskable DEF UpdateAd
  <2>5. \A ask \in DeleteAd : Askable(ask) BY <1>2, FieldsCosted, PostAskable DEF DeleteAd
  <2> QED BY <2>3, <2>4, <2>5
<1>7. \A ask \in UpdateEntity \cup ActivateEntity \cup CreateBudgetSchedule \cup UpdateSpendCap :
        Askable(ask)
  <2>1. AllCosted(Maybe(DailyBudget, Cost))
    <3>1. DailyBudget \in Prices /\ \A v \in Cost : \E n \in Nat : v = Amount(n)
      BY WriteAssumption DEF Prices, Cost
    <3> QED BY <3>1, CostedSome
  <2>2. AllCosted(Maybe(Status, Words({"ACTIVE", "UNPAUSED", "PAUSED", "DELETED"}))
                  ++ Maybe(DailyBudget, Cost) ++ Maybe(BidAmount, Cost)
                  ++ Maybe(PromotedObject, Objects \cup {Garbled}))
    BY <2>1, FieldsCosted, CostedOver
  <2>3. \A ask \in UpdateEntity : Askable(ask) BY <1>2, <2>2, PostAskable DEF UpdateEntity
  <2>4. \A ask \in ActivateEntity : Askable(ask)
    BY <1>2, FieldsCosted, PostAskable DEF ActivateEntity
  <2>5. \A ask \in CreateBudgetSchedule : Askable(ask)
    BY <1>2, FieldsCosted, PostAskable DEF CreateBudgetSchedule
  <2>6. \A ask \in UpdateSpendCap : Askable(ask) BY <1>2, FieldsCosted, PostAskable DEF UpdateSpendCap
  <2> QED BY <2>3, <2>4, <2>5, <2>6
<1>8. \A ask \in CreateCreative \cup UpdateCreative : Askable(ask)
  <2>1. ASSUME NEW i \in CreativeInputs
        PROVE  Askable(Ask("create_creative", "POST", <<"act", "adcreatives">>, CreativeFields(i), "read"))
    <3>1. Costed(CreativeFields(i)) BY FieldsCosted, CostedNothing DEF CreativeFields
    <3> QED BY <1>2, <3>1 DEF Ask, Askable
  <2>2. Askable(Refusal("create_creative")) BY <1>2, RefusalAskable
  <2>3. \A ask \in CreateCreative : Askable(ask) BY <2>1, <2>2 DEF CreateCreative
  <2>4. \A ask \in UpdateCreative : Askable(ask)
    BY <1>2, <1>3, FieldsCosted, PostAskable DEF UpdateCreative
  <2> QED BY <2>3, <2>4
<1>9. \A ask \in UploadImage \cup UploadVideo : Askable(ask)
  <2>1. Askable(Ask("upload_image", "MULTIPART", <<"act", "adimages">>, <<>>, "confirm"))
    BY <1>2, CostedNothing DEF Ask, Askable
  <2>2. Askable(Refusal("upload_image")) /\ Askable(Refusal("upload_video")) BY <1>2, RefusalAskable
  <2>3. \A ask \in Post("upload_video", <<"act", "advideos">>, Plain) : Askable(ask)
    BY <1>2, FieldsCosted, PostAskable
  <2> QED BY <2>1, <2>2, <2>3 DEF UploadImage, UploadVideo
<1>10. \A ask \in CreateAudience \cup CreateLookalike \cup ShareAudience \cup UnshareAudience
                    \cup DeleteAudience : Askable(ask)
  <2>1. Askable(Ask("create_audience", "POST", <<"act", "customaudiences">>,
                    Field(<<"rule">>, Word("TEXT")), "none"))
    BY <1>2, FieldsCosted DEF Ask, Askable
  <2>2. Askable(Refusal("create_audience")) BY <1>2, RefusalAskable
  <2>3. \A ask \in CreateAudience : Askable(ask) BY <2>1, <2>2 DEF CreateAudience
  <2>4. \A ask \in CreateLookalike : Askable(ask)
    BY <1>2, FieldsCosted, PostAskable DEF CreateLookalike
  <2>5. \A ask \in ShareAudience : Askable(ask)
    BY <1>2, FieldsCosted DEF ShareAudience, Ask, Askable
  <2>6. \A ask \in UnshareAudience \cup DeleteAudience : Askable(ask)
    BY <1>2, DeleteAskable DEF UnshareAudience, DeleteAudience
  <2> QED BY <2>3, <2>4, <2>5, <2>6
<1>11. \A ask \in CreateRule \cup UpdateRule \cup DeleteRule : Askable(ask)
  <2>1. AllCosted(Plain ++ Some(ExecutionSpec, RuleSpecs)) BY FieldsCosted, CostedOver
  <2>2. AllCosted(Maybe(Status, Words({"ENABLED", "DISABLED"})) ++ Maybe(ExecutionSpec, RuleSpecs))
    BY FieldsCosted, CostedOver
  <2>3. \A ask \in CreateRule : Askable(ask) BY <1>2, <2>1, PostAskable DEF CreateRule
  <2>4. \A ask \in UpdateRule : Askable(ask) BY <1>2, <2>2, PostAskable DEF UpdateRule
  <2>5. \A ask \in DeleteRule : Askable(ask) BY <1>2, DeleteAskable DEF DeleteRule
  <2> QED BY <2>3, <2>4, <2>5
<1>12. \A ask \in CreateLeadForm \cup CreateConversion \cup CreateStudy : Askable(ask)
  <2>1. /\ AllCosted(Plain ++ Some(<<"questions">>, {Json(<<>>)}))
        /\ AllCosted(Plain ++ Some(<<"cells">>, {Json(<<>>)}))
    BY FieldsCosted, CostedOver
  <2>2. \A ask \in CreateLeadForm : Askable(ask) BY <1>2, <2>1, PostAskable DEF CreateLeadForm
  <2>3. \A ask \in CreateConversion : Askable(ask)
    BY <1>2, FieldsCosted, PostAskable DEF CreateConversion
  <2>4. \A ask \in CreateStudy : Askable(ask) BY <1>2, <2>1, PostAskable DEF CreateStudy
  <2> QED BY <2>2, <2>3, <2>4
<1>13. \A ask \in HideComment \cup ReplyComment \cup DeleteComment : Askable(ask)
  <2>1. \A ask \in HideComment : Askable(ask) BY <1>2, FieldsCosted, PostAskable DEF HideComment
  <2>2. \A ask \in ReplyComment : Askable(ask) BY <1>2, FieldsCosted, PostAskable DEF ReplyComment
  <2>3. \A ask \in DeleteComment : Askable(ask) BY <1>2, DeleteAskable DEF DeleteComment
  <2> QED BY <2>1, <2>2, <2>3
<1> QED
  BY <1>4, <1>5, <1>6, <1>7, <1>8, <1>9, <1>10, <1>11, <1>12, <1>13 DEF Asks

-----------------------------------------------------------------------------
\* Where the writes go is no surprise to their tool.
Destinations == {"graph", "refused", "/v1/meta", "/v1/act"}

\* What was sent is what the ask is sent as, and a call only succeeds once something was.
WriteInv ==
  /\ write = [pc |-> write.pc, ask |-> write.ask, sent |-> write.sent, ok |-> write.ok]
  /\ write.pc \in {"idle", "asked", "sent", "reading", "over"}
  /\ write.ask \in Asks \cup {Refusal("none")}
  /\ write.sent \in {Unsent, Destination(write.ask)}
  /\ write.pc \in {"idle", "asked"} => write.sent = Unsent /\ ~ write.ok
  /\ write.ok \in BOOLEAN
  /\ write.pc \in {"sent", "reading"} \/ write.ok => write.sent.to \in Destinations \ {"refused"}

LEMMA EveryDestination ==
  ASSUME NEW ask PROVE Destination(ask).to \in Destinations
<1> DEFINE sent == Route(ask.method, ask.path, ask.fields)
<1>1. sent.to \in {"/v1/meta", "refused", "/v1/act"} BY DEF Route
<1> HIDE DEF sent
<1>2. \/ Destination(ask) = [Unsent EXCEPT !.to = "graph", !.fields = ask.fields]
      \/ Destination(ask) = [Unsent EXCEPT !.to = "refused"]
      \/ Destination(ask) = sent
  BY DEF Destination, sent
<1>3. /\ [Unsent EXCEPT !.to = "graph", !.fields = ask.fields].to = "graph"
      /\ [Unsent EXCEPT !.to = "refused"].to = "refused"
  BY DEF Unsent
<1> DEFINE there == Destination(ask)
<1> HIDE DEF there
<1>4. there.to \in Destinations
  <2>1. CASE there = [Unsent EXCEPT !.to = "graph", !.fields = ask.fields]
    <3>1. there.to = "graph" BY <1>3, <2>1
    <3> QED BY <3>1 DEF Destinations
  <2>2. CASE there = [Unsent EXCEPT !.to = "refused"]
    <3>1. there.to = "refused" BY <1>3, <2>2
    <3> QED BY <3>1 DEF Destinations
  <2>3. CASE there = sent BY <1>1, <2>3 DEF Destinations
  <2> QED BY <1>2, <2>1, <2>2, <2>3 DEF there
<1> QED BY <1>4 DEF there

LEMMA WriteBegins == WriteInit => WriteInv
<1> SUFFICES ASSUME WriteInit PROVE WriteInv OBVIOUS
<1> QED BY DEF WriteInit, WriteInv

LEMMA WriteGoesOn == WriteInv /\ WriteStep /\ UNCHANGED config => WriteInv'
<1> SUFFICES ASSUME WriteInv, WriteStep, config' = config PROVE WriteInv' OBVIOUS
<1>1. ASSUME NEW ask PROVE Destination(ask)' = Destination(ask) BY DEF Destination
<1>2. CASE UNCHANGED write
  <2>1. Destination(write.ask)' = Destination(write.ask) BY <1>2 DEF Destination
  <2> QED BY <1>2, <2>1 DEF WriteInv
<1>3. ASSUME NEW ask \in Asks, AskWrite(ask) PROVE WriteInv'
  <2> DEFINE next == IF ask.method = "none" THEN "over" ELSE "asked"
  <2>1. next \in {"asked", "over"} OBVIOUS
  <2>2. write.sent = Unsent /\ ~ write.ok BY <1>3 DEF AskWrite, WriteInv
  <2>3. write' = [pc |-> next, ask |-> ask, sent |-> Unsent, ok |-> write.ok]
    BY <1>3, <2>2 DEF AskWrite, WriteInv
  <2> HIDE DEF next
  <2>4. /\ write'.pc = next /\ write'.ask = ask /\ write'.sent = Unsent /\ write'.ok = write.ok
        /\ write' = [pc |-> write'.pc, ask |-> write'.ask, sent |-> write'.sent, ok |-> write'.ok]
    BY <2>3
  <2> QED BY <2>1, <2>2, <2>4 DEF WriteInv
<1>4. CASE Send
  <2> DEFINE sent == Destination(write.ask)
             next == IF sent.to = "refused" THEN "over" ELSE "sent"
  <2>1. next \in {"sent", "over"} /\ (next = "sent" => sent.to # "refused") OBVIOUS
  <2>2. sent.to \in Destinations BY EveryDestination
  <2>3. write.ok = FALSE BY <1>4 DEF Send, WriteInv
  <2>4. write' = [pc |-> next, ask |-> write.ask, sent |-> sent, ok |-> write.ok]
    BY <1>4 DEF Send, WriteInv
  <2> HIDE DEF next, sent
  <2>5. /\ write'.pc = next /\ write'.ask = write.ask /\ write'.sent = sent /\ write'.ok = write.ok
        /\ write' = [pc |-> write'.pc, ask |-> write'.ask, sent |-> write'.sent, ok |-> write'.ok]
    BY <2>4
  <2>6. Destination(write.ask)' = sent BY <2>5 DEF Destination, sent
  <2> QED BY <2>1, <2>2, <2>3, <2>5, <2>6 DEF WriteInv
<1>5. ASSUME NEW next \in {"reading", "over"}, NEW ok \in BOOLEAN,
             write.pc \in {"sent", "reading"}, write' = [write EXCEPT !.pc = next, !.ok = ok]
      PROVE  WriteInv'
  <2>1. /\ write'.pc = next /\ write'.ask = write.ask /\ write'.sent = write.sent /\ write'.ok = ok
        /\ write' = [pc |-> write'.pc, ask |-> write'.ask, sent |-> write'.sent, ok |-> write'.ok]
    BY <1>5 DEF WriteInv
  <2>2. Destination(write.ask)' = Destination(write.ask) BY <2>1 DEF Destination
  <2> QED BY <1>5, <2>1, <2>2 DEF WriteInv
<1>6. CASE Answered
  <2>1. write.pc = "sent" BY <1>6 DEF Answered
  <2>2. CASE End(FALSE) BY <1>5, <2>1, <2>2 DEF End
  <2>3. CASE End(TRUE) BY <1>5, <2>1, <2>3 DEF End
  <2>4. CASE write' = [write EXCEPT !.pc = "reading"]
    <3>1. write' = [write EXCEPT !.pc = "reading", !.ok = write.ok] /\ write.ok \in BOOLEAN
      BY <2>4 DEF WriteInv
    <3> QED BY <1>5, <2>1, <3>1
  <2> QED BY <1>6, <2>2, <2>3, <2>4 DEF Answered
<1>7. CASE ReadBack BY <1>5, <1>7 DEF ReadBack, End
<1> QED BY <1>2, <1>3, <1>4, <1>6, <1>7 DEF WriteStep, WriteOn

LEMMA AlwaysWrite == Spec => []WriteInv
<1>1. Init => WriteInv BY WriteBegins DEF Init
<1>2. WriteInv /\ [Next]_vars => WriteInv' BY WriteGoesOn, Parted
<1> QED BY <1>1, <1>2, PTL DEF Spec

\* In token-free mode, whatever a tool writes and whatever amounts it names: what spends, but
\* for budget schedules and rules, whose fields do not say so, reaches the gateway as an
\* action that is priced and reserved, or not at all (gateway-client.ts:7-16, 188-216).
THEOREM ShownMoneyTyped == Spec => []ShownMoneyIsTyped
<1>1. WriteInv => ShownMoneyIsTyped
  <2> SUFFICES ASSUME WriteInv, config.tokenFree, Spends(write.ask), ~ HidesSpending(write.ask)
               PROVE  Typed(write.ask, write.sent)
    BY DEF ShownMoneyIsTyped, Typed
  <2>1. Askable(write.ask)
    <3>1. Askable(Refusal("none")) BY RefusalAskable DEF Spenders
    <3> QED BY <3>1, AsksAskable DEF WriteInv
  <2>2. CASE write.sent = Unsent
    <3>1. write.sent.to = "none" BY <2>2 DEF Unsent
    <3> QED BY <3>1 DEF Typed
  <2>3. CASE write.sent = Destination(write.ask) /\ write.ask.method = "MULTIPART"
    <3>1. write.sent = [Unsent EXCEPT !.to = "refused"] BY <2>3 DEF Destination
    <3>2. write.sent.to = "refused" BY <3>1 DEF Unsent
    <3> QED BY <3>2 DEF Typed
  <2>4. CASE write.sent = Destination(write.ask) /\ write.ask.method # "MULTIPART"
    <3>1. write.sent = Route(write.ask.method, write.ask.path, write.ask.fields)
      BY <2>4 DEF Destination
    <3> QED BY <2>1, <3>1, RouteIsTyped
  <2> QED BY <2>2, <2>3, <2>4 DEF WriteInv
<1> QED BY <1>1, AlwaysWrite, PTL

-----------------------------------------------------------------------------
(* The doors.                                                              *)

\* What passed, of what was sent, in the window that began at a time.
WindowOf(sent, start) ==
  {r \in sent : r.passed /\ start <= r.at /\ r.at <= start + WindowLength}

\* What was sent by a time falls into windows that begin at S, apart from each other, each with
\* a request that opened it and no more than its quota; whoever was refused found it used up.
Windowed(sent, limit, S, time) ==
  /\ S \subseteq 1 .. time
  /\ \A r \in sent : r.at \in 1 .. time /\ r.passed \in BOOLEAN
  /\ \A s, u \in S : s < u => s + WindowLength < u
  /\ \A r \in sent : \E s \in S : s <= r.at /\ r.at <= s + WindowLength
  /\ \A s \in S : /\ Cardinality(WindowOf(sent, s)) <= limit
                  /\ \E r \in WindowOf(sent, s) : r.at = s
  /\ \A r \in sent, s \in S :
       ~ r.passed /\ s <= r.at /\ r.at <= s + WindowLength =>
         Cardinality({q \in WindowOf(sent, s) : q.at <= r.at}) >= limit

\* An entry counts the last window, until that is over.
Counts(entry, sent, limit, S, time) ==
  IF entry.resetAt < time THEN \A s \in S : s + WindowLength < time
  ELSE \E s \in S :
         /\ entry.resetAt = s + WindowLength
         /\ \A u \in S : u <= s
         /\ Cardinality(WindowOf(sent, s)) = IF entry.count <= limit THEN entry.count ELSE limit

Entries == [count : Nat, resetAt : Nat]

\* A quota is kept as long as what was sent falls into such windows.
LEMMA QuotaOfWindows ==
  ASSUME NEW sent, IsFiniteSet(sent), NEW limit \in Nat \ {0}, NEW time \in Nat, NEW S,
         Windowed(sent, limit, S, time), NEW t \in Nat
  PROVE  Cardinality({r \in sent : r.passed /\ r.at <= t /\ t <= r.at + WindowLength}) < 2 * limit
<1> DEFINE P == {r \in sent : r.passed /\ r.at <= t /\ t <= r.at + WindowLength}
           Older == {s \in S : s + WindowLength < t}
           Newer == {s \in S : t <= s + WindowLength /\ s <= t}
           Old == {r \in P : \E s \in Older : r \in WindowOf(sent, s)}
           New == {r \in P : \E s \in Newer : r \in WindowOf(sent, s)}
<1>1. S \subseteq Nat /\ WindowLength \in Nat BY LimiterAssumption DEF Windowed
<1>2. \A r \in sent : r.at \in Nat BY DEF Windowed
<1>3. P \subseteq Old \cup New
  <2> SUFFICES ASSUME NEW r \in P PROVE r \in Old \cup New OBVIOUS
  <2>1. PICK s \in S : s <= r.at /\ r.at <= s + WindowLength BY DEF Windowed
  <2>2. r \in WindowOf(sent, s) BY <2>1 DEF WindowOf
  <2>3. s <= t BY <1>1, <1>2, <2>1
  <2> QED BY <1>1, <2>2, <2>3
<1>4. \A s, u \in Newer : s = u BY <1>1 DEF Windowed
<1>5. \A s, u \in Older : Old # {} /\ (\E r \in P : r \in WindowOf(sent, s))
                          /\ (\E r \in P : r \in WindowOf(sent, u)) => s = u
  <2> SUFFICES ASSUME NEW s \in Older, NEW u \in Older, NEW r \in P, NEW q \in P,
                      r \in WindowOf(sent, s), q \in WindowOf(sent, u), s < u
               PROVE  FALSE
    BY <1>1
  <2>1. s + WindowLength < u BY <1>1 DEF Windowed
  <2>2. r.at <= s + WindowLength /\ t <= r.at + WindowLength BY DEF WindowOf
  <2> QED BY <1>1, <1>2, <2>1, <2>2
<1>6. IsFiniteSet(Old) /\ IsFiniteSet(New) /\ Cardinality(Old) \in Nat /\ Cardinality(New) \in Nat
  <2>1. Old \subseteq sent /\ New \subseteq sent OBVIOUS
  <2> HIDE DEF Old, New
  <2> QED BY <2>1, FS_Subset, FS_CardinalityType
<1>7. \A s \in S : IsFiniteSet(WindowOf(sent, s)) /\ Cardinality(WindowOf(sent, s)) \in Nat
  <2>1. \A s \in S : WindowOf(sent, s) \subseteq sent BY DEF WindowOf
  <2> QED BY <2>1, FS_Subset, FS_CardinalityType
<1>8. Cardinality(New) <= limit
  <2>1. CASE Newer = {}
    <3>1. New = {} BY <2>1
    <3> QED BY <3>1, FS_EmptySet
  <2>2. ASSUME NEW s \in Newer PROVE Cardinality(New) <= limit
    <3>1. New \subseteq WindowOf(sent, s) BY <1>4
    <3>2. s \in S OBVIOUS
    <3> HIDE DEF New
    <3>3. Cardinality(New) <= Cardinality(WindowOf(sent, s)) BY <1>7, <3>1, <3>2, FS_Subset
    <3>4. Cardinality(WindowOf(sent, s)) <= limit BY <3>2 DEF Windowed
    <3> QED BY <1>6, <1>7, <3>2, <3>3, <3>4
  <2> QED BY <2>1, <2>2
<1>9. Cardinality(Old) <= limit - 1
  <2>1. CASE Old = {}
    <3>1. Cardinality(Old) = 0 BY <2>1, FS_EmptySet
    <3> HIDE DEF Old
    <3> QED BY <3>1
  <2>2. CASE Old # {}
    <3>1. PICK r \in Old : TRUE BY <2>2
    <3>2. PICK s \in Older : r \in WindowOf(sent, s) BY <3>1
    <3>3. PICK first \in WindowOf(sent, s) : first.at = s BY DEF Windowed
    <3>4. first \notin Old BY <1>1, <3>3
    <3>5. Old \subseteq WindowOf(sent, s) \ {first} BY <1>5, <2>2, <3>2, <3>4
    <3>6. s \in S OBVIOUS
    <3> HIDE DEF Old
    <3> DEFINE W == WindowOf(sent, s)
    <3>7. IsFiniteSet(W) /\ Cardinality(W) \in Nat /\ Cardinality(W) <= limit
      BY <1>7, <3>6 DEF Windowed
    <3> HIDE DEF W
    <3>8. IsFiniteSet(W \ {first}) /\ Cardinality(W \ {first}) = Cardinality(W) - 1
      BY <3>3, <3>7, FS_RemoveElement DEF W
    <3>9. Cardinality(Old) <= Cardinality(W \ {first}) BY <3>5, <3>8, FS_Subset DEF W
    <3> QED BY <1>6, <3>7, <3>8, <3>9
  <2> QED BY <2>1, <2>2
<1> HIDE DEF Old, New, P
<1>10. /\ IsFiniteSet(Old \cup New)
       /\ Cardinality(Old \cup New) = Cardinality(Old) + Cardinality(New) - Cardinality(Old \cap New)
  BY <1>6, FS_Union
<1>11. Cardinality(P) <= Cardinality(Old \cup New) /\ IsFiniteSet(P) BY <1>3, <1>10, FS_Subset
<1>12. Cardinality(P) \in Nat /\ Cardinality(Old \cap New) \in Nat
  <2>1. IsFiniteSet(Old \cap New) BY <1>6, FS_Intersection
  <2> QED BY <1>11, <2>1, FS_CardinalityType
<1> QED BY <1>6, <1>8, <1>9, <1>10, <1>11, <1>12 DEF P

\* Whoever is refused was preceded, no longer than a window ago, by a whole quota.
LEMMA RefusedOfWindows ==
  ASSUME NEW sent, IsFiniteSet(sent), NEW limit \in Nat \ {0}, NEW time \in Nat, NEW S,
         Windowed(sent, limit, S, time), NEW r \in sent, ~ r.passed
  PROVE  Cardinality({q \in sent : q.passed /\ q.at <= r.at /\ r.at <= q.at + WindowLength}) >= limit
<1> DEFINE P == {q \in sent : q.passed /\ q.at <= r.at /\ r.at <= q.at + WindowLength}
<1>1. S \subseteq Nat /\ WindowLength \in Nat /\ \A q \in sent : q.at \in Nat
  BY LimiterAssumption DEF Windowed
<1>2. PICK s \in S : s <= r.at /\ r.at <= s + WindowLength BY DEF Windowed
<1> DEFINE Q == {q \in WindowOf(sent, s) : q.at <= r.at}
<1>3. Cardinality(Q) >= limit BY <1>2 DEF Windowed
<1>4. Q \subseteq P BY <1>1, <1>2 DEF WindowOf
<1>5. P \subseteq sent OBVIOUS
<1> HIDE DEF P, Q
<1>6. IsFiniteSet(P) /\ IsFiniteSet(Q) /\ Cardinality(Q) <= Cardinality(P)
  BY <1>4, <1>5, FS_Subset
<1>7. Cardinality(P) \in Nat /\ Cardinality(Q) \in Nat BY <1>6, FS_CardinalityType
<1> QED BY <1>3, <1>6, <1>7 DEF P

\* The first request of a window opens it.
LEMMA OpensWindow ==
  ASSUME NEW sent, NEW limit \in Nat \ {0}, NEW time \in Nat \ {0}, NEW S,
         Windowed(sent, limit, S, time), \A s \in S : s + WindowLength < time,
         NEW r, r.at = time, r.passed = TRUE
  PROVE  /\ Windowed(sent \cup {r}, limit, S \cup {time}, time)
         /\ Counts([count |-> 1, resetAt |-> time + WindowLength], sent \cup {r}, limit,
                   S \cup {time}, time)
<1> DEFINE sent2 == sent \cup {r}
           S2 == S \cup {time}
           entry == [count |-> 1, resetAt |-> time + WindowLength]
<1>1. S \subseteq Nat /\ WindowLength \in Nat /\ \A q \in sent : q.at \in Nat /\ q.at <= time
  BY LimiterAssumption DEF Windowed
<1>2. \A s \in S : WindowOf(sent2, s) = WindowOf(sent, s) BY <1>1 DEF WindowOf
<1>3. WindowOf(sent2, time) = {r}
  <2>1. \A q \in sent : q.at < time
    <3> SUFFICES ASSUME NEW q \in sent PROVE q.at < time OBVIOUS
    <3>1. PICK s \in S : q.at <= s + WindowLength BY DEF Windowed
    <3> QED BY <1>1, <3>1
  <2> QED BY <1>1, <2>1 DEF WindowOf
<1>4. Cardinality({r}) = 1 BY FS_Singleton
<1>5. Windowed(sent2, limit, S2, time)
  <2>1. S2 \subseteq 1 .. time BY DEF Windowed
  <2>2. \A q \in sent2 : q.at \in 1 .. time /\ q.passed \in BOOLEAN
    <3>1. r.passed \in BOOLEAN BY Zenon
    <3>2. r.at \in 1 .. time OBVIOUS
    <3> QED BY <3>1, <3>2, Zenon DEF Windowed
  <2>3. \A s, u \in S2 : s < u => s + WindowLength < u BY <1>1 DEF Windowed
  <2>4. \A q \in sent2 : \E s \in S2 : s <= q.at /\ q.at <= s + WindowLength BY <1>1 DEF Windowed
  <2>5. \A s \in S2 : /\ Cardinality(WindowOf(sent2, s)) <= limit
                      /\ \E q \in WindowOf(sent2, s) : q.at = s
    <3>1. \A s \in S : /\ Cardinality(WindowOf(sent2, s)) <= limit
                       /\ \E q \in WindowOf(sent2, s) : q.at = s
      BY <1>2 DEF Windowed
    <3>2. Cardinality(WindowOf(sent2, time)) <= limit BY <1>3, <1>4
    <3>3. \E q \in WindowOf(sent2, time) : q.at = time BY <1>3
    <3> QED BY <3>1, <3>2, <3>3
  <2>6. ASSUME NEW q \in sent2, NEW s \in S2, ~ q.passed, s <= q.at, q.at <= s + WindowLength
        PROVE  Cardinality({x \in WindowOf(sent2, s) : x.at <= q.at}) >= limit
    <3>1. q \in sent BY <2>6
    <3>2. PICK u \in S : u <= q.at /\ q.at <= u + WindowLength BY <3>1 DEF Windowed
    <3>3. s \in S BY <1>1, <2>6, <3>1, <3>2
    <3>4. {x \in WindowOf(sent2, s) : x.at <= q.at} = {x \in WindowOf(sent, s) : x.at <= q.at}
      BY <1>2, <3>3
    <3> QED BY <2>6, <3>1, <3>3, <3>4 DEF Windowed
  <2> HIDE DEF sent2, S2
  <2> QED BY <2>1, <2>2, <2>3, <2>4, <2>5, <2>6 DEF Windowed
<1>6. Counts(entry, sent2, limit, S2, time)
  <2>1. entry.resetAt = time + WindowLength /\ entry.count = 1 /\ ~ (entry.resetAt < time)
    BY <1>1
  <2>2. \A u \in S2 : u <= time BY <1>1
  <2>3. Cardinality(WindowOf(sent2, time)) = IF entry.count <= limit THEN entry.count ELSE limit
    BY <1>3, <1>4, <2>1
  <2>4. time \in S2 OBVIOUS
  <2> HIDE DEF sent2, S2, entry
  <2> QED BY <2>1, <2>2, <2>3, <2>4 DEF Counts
<1> QED BY <1>5, <1>6

\* The next ones join it, and pass while there is something left of its quota.
LEMMA JoinsWindow ==
  ASSUME NEW sent, IsFiniteSet(sent), NEW limit \in Nat \ {0}, NEW time \in Nat \ {0}, NEW S,
         NEW entry \in Entries, Windowed(sent, limit, S, time),
         Counts(entry, sent, limit, S, time), ~ (entry.resetAt < time),
         NEW r, r \notin sent, r.at = time, r.passed = (entry.count + 1 <= limit)
  PROVE  /\ Windowed(sent \cup {r}, limit, S, time)
         /\ Counts([entry EXCEPT !.count = @ + 1], sent \cup {r}, limit, S, time)
<1> DEFINE sent2 == sent \cup {r}
           entry2 == [entry EXCEPT !.count = @ + 1]
<1>1. S \subseteq Nat /\ WindowLength \in Nat /\ \A q \in sent : q.at \in Nat /\ q.at <= time
  BY LimiterAssumption DEF Windowed
<1>2. PICK s0 \in S :
        /\ entry.resetAt = s0 + WindowLength
        /\ \A u \in S : u <= s0
        /\ Cardinality(WindowOf(sent, s0)) = IF entry.count <= limit THEN entry.count ELSE limit
  BY DEF Counts
<1>3. /\ entry2.count = entry.count + 1 /\ entry2.resetAt = entry.resetAt /\ entry.count \in Nat
      /\ entry.resetAt \in Nat
  BY DEF Entries
<1>4. s0 <= time /\ time <= s0 + WindowLength BY <1>1, <1>2, <1>3 DEF Windowed
<1>5. \A s \in S : s # s0 => s + WindowLength < time
  <2>1. \A s \in S : s # s0 => s < s0 BY <1>1, <1>2
  <2> QED BY <1>1, <1>4, <2>1 DEF Windowed
<1>6. \A s \in S : s # s0 => WindowOf(sent2, s) = WindowOf(sent, s) BY <1>1, <1>5 DEF WindowOf
<1>7. WindowOf(sent2, s0) = WindowOf(sent, s0) \cup (IF r.passed THEN {r} ELSE {})
  BY <1>4 DEF WindowOf
<1>8. /\ WindowOf(sent, s0) \subseteq sent /\ IsFiniteSet(WindowOf(sent, s0))
  <2>1. WindowOf(sent, s0) \subseteq sent BY DEF WindowOf
  <2> QED BY <2>1, FS_Subset
<1>9. Cardinality(WindowOf(sent2, s0)) = IF entry2.count <= limit THEN entry2.count ELSE limit
  <2> DEFINE W == WindowOf(sent, s0)
             W2 == WindowOf(sent2, s0)
  <2>1. CASE entry.count + 1 <= limit
    <3>1. W2 = W \cup {r} BY <1>7, <2>1
    <3>2. r \notin W /\ IsFiniteSet(W) BY <1>8
    <3>3. Cardinality(W) = entry.count BY <1>2, <1>3, <2>1
    <3> HIDE DEF W, W2
    <3>4. Cardinality(W \cup {r}) = Cardinality(W) + 1 BY <3>2, FS_AddElement
    <3>5. Cardinality(W2) = entry2.count BY <1>3, <3>1, <3>3, <3>4
    <3> HIDE DEF entry2
    <3> QED BY <1>3, <2>1, <3>5 DEF W2
  <2>2. CASE ~ (entry.count + 1 <= limit)
    <3>1. W2 = W BY <1>7, <2>2
    <3>2. Cardinality(W) = limit BY <1>2, <1>3, <2>2
    <3> HIDE DEF W, W2
    <3>3. Cardinality(W2) = limit BY <3>1, <3>2
    <3> HIDE DEF entry2
    <3> QED BY <1>3, <2>2, <3>3 DEF W2
  <2> QED BY <2>1, <2>2
<1> HIDE DEF entry2
<1>10. Counts(entry2, sent2, limit, S, time)
  <2> HIDE DEF sent2
  <2> QED BY <1>2, <1>3, <1>9 DEF Counts
<1>11. Windowed(sent2, limit, S, time)
  <2>1. \A q \in sent2 : q.at \in 1 .. time /\ q.passed \in BOOLEAN
    <3>1. (entry.count + 1 <= limit) \in BOOLEAN OBVIOUS
    <3>2. r.passed \in BOOLEAN BY <3>1, Zenon
    <3>3. r.at \in 1 .. time OBVIOUS
    <3> QED BY <3>2, <3>3, Zenon DEF Windowed
  <2>2. \A q \in sent2 : \E s \in S : s <= q.at /\ q.at <= s + WindowLength BY <1>4 DEF Windowed
  <2>3. \A s \in S : /\ Cardinality(WindowOf(sent2, s)) <= limit
                     /\ \E q \in WindowOf(sent2, s) : q.at = s
    <3>1. \A s \in S : s # s0 => /\ Cardinality(WindowOf(sent2, s)) <= limit
                                 /\ \E q \in WindowOf(sent2, s) : q.at = s
      BY <1>6 DEF Windowed
    <3>2. Cardinality(WindowOf(sent2, s0)) <= limit BY <1>3, <1>9
    <3>3. \E q \in WindowOf(sent2, s0) : q.at = s0 BY <1>7 DEF Windowed
    <3> QED BY <3>1, <3>2, <3>3
  <2>4. ASSUME NEW q \in sent2, NEW s \in S, ~ q.passed, s <= q.at, q.at <= s + WindowLength
        PROVE  Cardinality({x \in WindowOf(sent2, s) : x.at <= q.at}) >= limit
    <3>1. CASE q \in sent
      <4> DEFINE A == {x \in WindowOf(sent, s) : x.at <= q.at}
                 B == {x \in WindowOf(sent2, s) : x.at <= q.at}
      <4>1. Cardinality(A) >= limit BY <2>4, <3>1 DEF Windowed
      <4>2. A \subseteq B /\ A \subseteq sent /\ B \subseteq sent2 BY DEF WindowOf
      <4>3. IsFiniteSet(sent2) BY FS_AddElement
      <4> HIDE DEF A, B, sent2
      <4>4. IsFiniteSet(A) /\ IsFiniteSet(B) /\ Cardinality(A) <= Cardinality(B)
        BY <4>2, <4>3, FS_Subset
      <4>5. Cardinality(A) \in Nat /\ Cardinality(B) \in Nat BY <4>4, FS_CardinalityType
      <4> QED BY <4>1, <4>4, <4>5 DEF B
    <3>2. CASE q = r
      <4>1. ~ (entry.count + 1 <= limit) BY <2>4, <3>2
      <4>2. s = s0 BY <1>1, <1>5, <2>4, <3>2
      <4>3. {x \in WindowOf(sent2, s0) : x.at <= q.at} = WindowOf(sent2, s0)
        BY <1>1, <3>2 DEF WindowOf
      <4>4. Cardinality(WindowOf(sent2, s0)) = limit BY <1>3, <1>9, <4>1
      <4>5. Cardinality({x \in WindowOf(sent2, s) : x.at <= q.at}) = limit
        BY <4>2, <4>3, <4>4, Zenon
      <4> QED BY <4>5
    <3> QED BY <2>4, <3>1, <3>2
  <2> HIDE DEF sent2
  <2> QED BY <2>1, <2>2, <2>3, <2>4 DEF Windowed
<1> QED BY <1>10, <1>11 DEF entry2

\* Time passes, and a window may be over.
LEMMA WindowsAge ==
  ASSUME NEW sent, NEW limit \in Nat \ {0}, NEW time \in Nat, NEW S, NEW entry \in Entries,
         Windowed(sent, limit, S, time), Counts(entry, sent, limit, S, time)
  PROVE  Windowed(sent, limit, S, time + 1) /\ Counts(entry, sent, limit, S, time + 1)
<1>1. S \subseteq Nat /\ WindowLength \in Nat BY LimiterAssumption DEF Windowed
<1>2. Windowed(sent, limit, S, time + 1)
  <2>1. S \subseteq 1 .. time + 1 BY DEF Windowed
  <2>2. \A r \in sent : r.at \in 1 .. time + 1 BY DEF Windowed
  <2> QED BY <2>1, <2>2 DEF Windowed
<1>3. entry.resetAt \in Nat BY DEF Entries
<1>4. Counts(entry, sent, limit, S, time + 1)
  <2>1. CASE entry.resetAt < time
    <3>1. entry.resetAt < time + 1 /\ \A s \in S : s + WindowLength < time + 1
      BY <1>1, <1>3, <2>1 DEF Counts
    <3> QED BY <3>1 DEF Counts
  <2>2. CASE ~ (entry.resetAt < time)
    <3>1. PICK s \in S :
            /\ entry.resetAt = s + WindowLength
            /\ \A u \in S : u <= s
            /\ Cardinality(WindowOf(sent, s)) = IF entry.count <= limit THEN entry.count ELSE limit
      BY <2>2 DEF Counts
    <3>2. CASE entry.resetAt < time + 1
      <4>1. \A u \in S : u + WindowLength < time + 1 BY <1>1, <1>3, <3>1, <3>2
      <4> QED BY <3>2, <4>1 DEF Counts
    <3>3. CASE ~ (entry.resetAt < time + 1) BY <3>1, <3>3 DEF Counts
    <3> QED BY <3>2, <3>3
  <2> QED BY <2>1, <2>2
<1> QED BY <1>2, <1>4

\* What one address sent to one door: numbered as it came, and in windows its entry counts.
Kept(sent, limit, entry, time) ==
  /\ \A r \in sent : r.n \in 0 .. Cardinality(sent) - 1
  /\ \E S : Windowed(sent, limit, S, time) /\ Counts(entry, sent, limit, S, time)

LimiterInv ==
  /\ now \in Nat \ {0}
  /\ requests \in [Doors -> [Addresses -> Entries]]
  /\ IsFiniteSet(log)
  /\ \A r \in log : /\ r.door \in Doors /\ r.from \in Addresses /\ r.passed \in BOOLEAN
                    /\ r.at \in Nat /\ r.n \in Nat
  /\ \A d \in Doors, a \in Addresses : Kept(Sent(d, a), Limit[d], requests[d][a], now)

LEMMA SentFinite ==
  ASSUME IsFiniteSet(log), NEW d, NEW a
  PROVE  IsFiniteSet(Sent(d, a)) /\ Cardinality(Sent(d, a)) \in Nat
<1>1. Sent(d, a) \subseteq log BY DEF Sent
<1> QED BY <1>1, FS_Subset, FS_CardinalityType

LEMMA LimiterBegins == ClockInit /\ LimiterInit => LimiterInv
<1> SUFFICES ASSUME ClockInit, LimiterInit PROVE LimiterInv OBVIOUS
<1>1. NoEntry \in Entries BY DEF NoEntry, Entries
<1>2. IsFiniteSet({}) BY FS_EmptySet
<1>3. ASSUME NEW d \in Doors, NEW a \in Addresses
      PROVE  Kept(Sent(d, a), Limit[d], requests[d][a], now)
  <2>1. Sent(d, a) = {} /\ requests[d][a] = NoEntry /\ now = 1
    BY DEF LimiterInit, ClockInit, Sent
  <2>2. Windowed({}, Limit[d], {}, 1) BY DEF Windowed
  <2>3. Counts(NoEntry, {}, Limit[d], {}, 1) BY DEF Counts, NoEntry
  <2> QED BY <2>1, <2>2, <2>3 DEF Kept
<1> QED BY <1>1, <1>2, <1>3 DEF LimiterInit, ClockInit, LimiterInv

\* What an address sends, counted.
LEMMA RequestIsKept ==
  ASSUME NEW sent, IsFiniteSet(sent), Cardinality(sent) \in Nat, NEW limit \in Nat \ {0},
         now \in Nat \ {0}, NEW entry \in Entries, Kept(sent, limit, entry, now),
         NEW r, r.at = now, r.n = Cardinality(sent), r.passed = (Counted(entry).count <= limit)
  PROVE  /\ Kept(sent \cup {r}, limit, Counted(entry), now)
         /\ Counted(entry) \in Entries
<1>1. PICK S : Windowed(sent, limit, S, now) /\ Counts(entry, sent, limit, S, now) BY DEF Kept
<1>2. r \notin sent
  <2>1. \A q \in sent : q.n # Cardinality(sent) BY DEF Kept
  <2> QED BY <2>1
<1>3. \A q \in sent \cup {r} : q.n \in 0 .. Cardinality(sent \cup {r}) - 1
  <2> DEFINE n == Cardinality(sent)
             m == Cardinality(sent \cup {r})
  <2>1. n \in Nat /\ m = n + 1 /\ r.n = n BY <1>2, FS_AddElement
  <2>2. \A q \in sent : q.n \in 0 .. n - 1 BY DEF Kept
  <2> HIDE DEF n, m
  <2> QED BY <2>1, <2>2 DEF m
<1>4. CASE entry.resetAt < now
  <2>1. Counted(entry) = [count |-> 1, resetAt |-> now + WindowLength] BY <1>4 DEF Counted, Elapsed
  <2>2. Counted(entry).count = 1 /\ r.passed = TRUE
    <3>1. Counted(entry).count = 1 BY <2>1
    <3>2. (Counted(entry).count <= limit) = TRUE BY <3>1
    <3> QED BY <3>1, <3>2, Zenon
  <2>3. \A s \in S : s + WindowLength < now BY <1>1, <1>4 DEF Counts
  <2>4. /\ Windowed(sent \cup {r}, limit, S \cup {now}, now)
        /\ Counts(Counted(entry), sent \cup {r}, limit, S \cup {now}, now)
    <3> DEFINE first == [count |-> 1, resetAt |-> now + WindowLength]
    <3>1. /\ Windowed(sent \cup {r}, limit, S \cup {now}, now)
          /\ Counts(first, sent \cup {r}, limit, S \cup {now}, now)
      BY <1>1, <2>2, <2>3, OpensWindow
    <3> QED BY <2>1, <3>1, Zenon
  <2>5. Counted(entry) \in Entries BY <2>1, LimiterAssumption DEF Entries
  <2> QED BY <1>3, <2>4, <2>5 DEF Kept
<1>5. CASE ~ (entry.resetAt < now)
  <2>1. Counted(entry) = [entry EXCEPT !.count = @ + 1] BY <1>5 DEF Counted, Elapsed
  <2>2. Counted(entry).count = entry.count + 1 /\ Counted(entry) \in Entries BY <2>1 DEF Entries
  <2>3. r.passed = (entry.count + 1 <= limit) BY <2>2
  <2>4. /\ Windowed(sent \cup {r}, limit, S, now)
        /\ Counts(Counted(entry), sent \cup {r}, limit, S, now)
    BY <1>1, <1>2, <1>5, <2>1, <2>3, JoinsWindow
  <2> QED BY <1>3, <2>2, <2>4 DEF Kept
<1> QED BY <1>4, <1>5

LEMMA RequestKeeps ==
  ASSUME LimiterInv, NEW d \in Doors, NEW a \in Addresses, Request(d, a), now' = now
  PROVE  LimiterInv'
<1> DEFINE sent == Sent(d, a)
           entry == requests[d][a]
           passed == requests'[d][a].count <= Limit[d]
           r == [door |-> d, from |-> a, at |-> now, n |-> Cardinality(sent), passed |-> passed]
<1>1. log' = log \cup {r} BY DEF Request
<1>2. entry \in Entries /\ Limit[d] \in Nat \ {0} BY LimiterAssumption DEF LimiterInv
<1>3. IsFiniteSet(sent) /\ Cardinality(sent) \in Nat BY SentFinite DEF LimiterInv
<1>4. /\ DOMAIN requests' = Doors /\ requests'[d][a] = Counted(entry)
      /\ \A e \in Doors : DOMAIN requests'[e] = Addresses
      /\ \A e \in Doors, b \in Addresses : e # d \/ b # a => requests'[e][b] = requests[e][b]
      /\ requests' \in [Doors -> [Addresses -> Entries \cup {Counted(entry)}]]
  BY DEF LimiterInv, Request
<1>5. passed \in BOOLEAN OBVIOUS
<1>6. /\ r.door = d /\ r.from = a /\ r.at = now /\ r.n = Cardinality(sent) /\ r.passed = passed
      /\ passed = (Counted(entry).count <= Limit[d])
  BY <1>4
<1> HIDE DEF r, passed, entry
<1>7. Kept(sent, Limit[d], entry, now) BY DEF LimiterInv, entry
<1> HIDE DEF sent
<1>8. Kept(sent \cup {r}, Limit[d], Counted(entry), now) /\ Counted(entry) \in Entries
  BY <1>2, <1>3, <1>6, <1>7, RequestIsKept DEF LimiterInv
<1>9. /\ Sent(d, a)' = sent \cup {r}
      /\ \A e \in Doors, b \in Addresses : e # d \/ b # a => Sent(e, b)' = Sent(e, b)
  BY <1>1, <1>6 DEF Sent, sent
<1>10. ASSUME NEW e \in Doors, NEW b \in Addresses
       PROVE  Kept(Sent(e, b), Limit[e], requests[e][b], now)'
  <2>1. CASE e = d /\ b = a
    <3>1. Sent(e, b)' = sent \cup {r} /\ requests'[e][b] = Counted(entry) BY <1>4, <1>9, <2>1
    <3> QED BY <1>8, <2>1, <3>1, Zenon
  <2>2. CASE e # d \/ b # a
    <3>1. Sent(e, b)' = Sent(e, b) /\ requests'[e][b] = requests[e][b] BY <1>4, <1>9, <2>2
    <3>2. Kept(Sent(e, b), Limit[e], requests[e][b], now) BY DEF LimiterInv
    <3> QED BY <3>1, <3>2, Zenon
  <2> QED BY <2>1, <2>2
<1>11. IsFiniteSet(log') BY <1>1, FS_AddElement DEF LimiterInv
<1>12. requests' \in [Doors -> [Addresses -> Entries]] BY <1>4, <1>8
<1>13. \A q \in log' : /\ q.door \in Doors /\ q.from \in Addresses /\ q.passed \in BOOLEAN
                       /\ q.at \in Nat /\ q.n \in Nat
  <2>1. r.passed \in BOOLEAN BY <1>5, <1>6, Zenon
  <2>2. r.door \in Doors /\ r.from \in Addresses /\ r.at \in Nat /\ r.n \in Nat
    BY <1>3, <1>6 DEF LimiterInv
  <2> QED BY <1>1, <2>1, <2>2, Zenon DEF LimiterInv
<1> QED BY <1>10, <1>11, <1>12, <1>13 DEF LimiterInv

LEMMA SweepKeeps ==
  ASSUME LimiterInv, NEW d \in Doors, Sweep(d), now' = now PROVE LimiterInv'
<1>1. /\ requests' \in [Doors -> [Addresses -> Entries]]
      /\ \A e \in Doors, b \in Addresses :
           requests'[e][b] = requests[e][b]
           \/ (requests[e][b].resetAt < now /\ requests'[e][b] = NoEntry)
  <2>1. NoEntry \in Entries BY DEF NoEntry, Entries
  <2>2. \A b \in Addresses : requests[d][b] \in Entries BY DEF LimiterInv
  <2>3. \A b \in Addresses : /\ Swept(requests[d][b]) \in Entries
                             /\ \/ Swept(requests[d][b]) = requests[d][b]
                                \/ requests[d][b].resetAt < now /\ Swept(requests[d][b]) = NoEntry
    BY <2>1, <2>2 DEF Swept, Elapsed
  <2> QED BY <2>3 DEF LimiterInv, Sweep
<1>2. \A e, b : Sent(e, b)' = Sent(e, b) BY DEF Sweep, Sent
<1>3. ASSUME NEW e \in Doors, NEW b \in Addresses
      PROVE  Kept(Sent(e, b), Limit[e], requests[e][b], now)'
  <2>1. Kept(Sent(e, b), Limit[e], requests[e][b], now) BY DEF LimiterInv
  <2>2. Kept(Sent(e, b), Limit[e], requests'[e][b], now)
    <3>1. CASE requests'[e][b] = requests[e][b] BY <2>1, <3>1
    <3>2. CASE requests[e][b].resetAt < now /\ requests'[e][b] = NoEntry
      <4>1. PICK S : /\ Windowed(Sent(e, b), Limit[e], S, now)
                     /\ Counts(requests[e][b], Sent(e, b), Limit[e], S, now)
        BY <2>1 DEF Kept
      <4>2. \A s \in S : s + WindowLength < now BY <3>2, <4>1 DEF Counts
      <4>3. NoEntry.resetAt < now BY DEF NoEntry, LimiterInv
      <4>4. Counts(NoEntry, Sent(e, b), Limit[e], S, now) BY <4>2, <4>3 DEF Counts
      <4> QED BY <2>1, <3>2, <4>1, <4>4 DEF Kept
    <3> QED BY <1>1, <3>1, <3>2
  <2> QED BY <1>2, <2>2, Zenon
<1> QED BY <1>1, <1>3 DEF LimiterInv, Sweep

LEMMA TickKeepsQuotas ==
  ASSUME LimiterInv, UNCHANGED doorVars, Tick PROVE LimiterInv'
<1>1. now' = now + 1 /\ now \in Nat BY DEF Tick, LimiterInv
<1>2. ASSUME NEW e \in Doors, NEW b \in Addresses
      PROVE  Kept(Sent(e, b), Limit[e], requests[e][b], now)'
  <2>1. PICK S : /\ Windowed(Sent(e, b), Limit[e], S, now)
                 /\ Counts(requests[e][b], Sent(e, b), Limit[e], S, now)
    BY DEF LimiterInv, Kept
  <2>2. requests[e][b] \in Entries /\ Limit[e] \in Nat \ {0} BY LimiterAssumption DEF LimiterInv
  <2>3. /\ Windowed(Sent(e, b), Limit[e], S, now + 1)
        /\ Counts(requests[e][b], Sent(e, b), Limit[e], S, now + 1)
    BY <1>1, <2>1, <2>2, WindowsAge
  <2>4. Kept(Sent(e, b), Limit[e], requests[e][b], now + 1) BY <2>3 DEF LimiterInv, Kept
  <2>5. Sent(e, b)' = Sent(e, b) /\ requests'[e][b] = requests[e][b] BY DEF doorVars, Sent
  <2> QED BY <1>1, <2>4, <2>5, Zenon
<1> QED BY <1>1, <1>2 DEF LimiterInv, doorVars

LEMMA LimiterGoesOn == LimiterInv /\ DoorStep => LimiterInv'
<1>1. LimiterInv /\ UNCHANGED <<doorVars, now>> => LimiterInv' BY DEF LimiterInv, doorVars, Sent
<1> QED BY <1>1, RequestKeeps, SweepKeeps, TickKeepsQuotas DEF DoorStep

LEMMA AlwaysLimiter == Spec => []LimiterInv
<1>1. Init => LimiterInv BY LimiterBegins DEF Init
<1>2. LimiterInv /\ [Next]_vars => LimiterInv' BY LimiterGoesOn, Parted
<1> QED BY <1>1, <1>2, PTL DEF Spec

\* However the requests of any number of addresses and the sweeps fall (http.ts:286-294), a
\* window's length sees no two quotas of one address pass, and who is refused has had a quota.
THEOREM QuotaKept == Spec => []QuotaIsKept
<1>1. LimiterInv => QuotaIsKept
  <2> SUFFICES ASSUME LimiterInv, NEW d \in Doors, NEW a \in Addresses
               PROVE  /\ \A t \in 1 .. now : Cardinality(PassedBefore(d, a, t)) < 2 * Limit[d]
                      /\ \A r \in Sent(d, a) :
                           ~ r.passed => Cardinality(PassedBefore(d, a, r.at)) >= Limit[d]
    BY DEF QuotaIsKept
  <2>1. Limit[d] \in Nat \ {0} /\ IsFiniteSet(Sent(d, a)) /\ now \in Nat
    BY LimiterAssumption, SentFinite DEF LimiterInv
  <2>2. PICK S : Windowed(Sent(d, a), Limit[d], S, now) BY DEF LimiterInv, Kept
  <2>3. \A t \in 1 .. now : Cardinality(PassedBefore(d, a, t)) < 2 * Limit[d]
    BY <2>1, <2>2, QuotaOfWindows DEF PassedBefore
  <2>4. \A r \in Sent(d, a) : ~ r.passed => Cardinality(PassedBefore(d, a, r.at)) >= Limit[d]
    BY <2>1, <2>2, RefusedOfWindows DEF PassedBefore
  <2> QED BY <2>3, <2>4
<1> QED BY <1>1, AlwaysLimiter, PTL

-----------------------------------------------------------------------------
(* The types of the whole.                                                 *)

GuardInv ==
  \/ query = [is |-> "none"]
  \/ \E q \in Queries : query = Judged(q)

LEMMA AdvisedIsQuery ==
  ASSUME NEW q \in Queries, NEW verdict
  PROVE  Advised(verdict, q) \subseteq Queries
<1>1. [q EXCEPT !.level = "ad"] \in Queries /\ [q EXCEPT !.async = TRUE] \in Queries
      /\ [q EXCEPT !.span = Month] \in Queries
  BY DEF Queries
<1>2. \A s \in {q.span, Month} :
        [q EXCEPT !.async = TRUE, !.widePreset = FALSE, !.span = s] \in Queries
  BY DEF Queries
<1> QED BY <1>1, <1>2 DEF Advised

LEMMA GuardGoesOn == GuardInv /\ QueryStep => GuardInv'
<1> SUFFICES ASSUME GuardInv, QueryStep PROVE GuardInv' OBVIOUS
<1>1. CASE FollowAdvice
  <2>1. query.is # "none" BY <1>1 DEF FollowAdvice
  <2>2. PICK q \in Queries : query = Judged(q) BY <2>1 DEF GuardInv
  <2>3. query.of = q BY <2>2 DEF Judged
  <2>4. PICK d \in Advised(query.is, q) : query' = Judged(d) BY <1>1, <2>3 DEF FollowAdvice
  <2>5. d \in Queries BY <2>4, AdvisedIsQuery
  <2> QED BY <2>4, <2>5 DEF GuardInv
<1>2. CASE \E q \in Queries : AskInsights(q) BY <1>2 DEF AskInsights, GuardInv
<1>3. CASE UNCHANGED query BY <1>3 DEF GuardInv
<1> QED BY <1>1, <1>2, <1>3 DEF QueryStep

LEMMA AlwaysGuard == Spec => []GuardInv
<1>1. Init => GuardInv BY DEF Init, GuardInit, GuardInv
<1>2. GuardInv /\ [Next]_vars => GuardInv' BY GuardGoesOn, Parted
<1> QED BY <1>1, <1>2, PTL DEF Spec

LEMMA AlwaysOneLoad == Spec => [](load \in Loads)
<1>1. Init => load \in Loads BY DEF Init
<1>2. load \in Loads /\ [Next]_vars => (load \in Loads)' BY Parted
<1> QED BY <1>1, <1>2, PTL DEF Spec

\* The type invariant of the server, over all its components at once.
THEOREM ServerTyped == Spec => []TypeOK
<1>1. AuthInv => AuthTypeOK
  <2> SUFFICES ASSUME AuthInv PROVE AuthTypeOK OBVIOUS
  <2>1. config \in Settlements /\ PoolTypeOK /\ saved \in [Users -> SUBSET Tokens]
    BY DEF AuthInv, AuthTypes, PoolTypeOK
  <2>2. ASSUME NEW r \in Requests
        PROVE  /\ request[r].pc \in {"idle", "resolving", "running", "validating", "over"}
               /\ {request[r].person, request[r].user} \subseteq Users \cup {None}
               /\ {request[r].header, request[r].token} \subseteq Tokens \cup {None}
               /\ request[r].used \subseteq Tokens
               /\ request[r].user # None => request[r].person = request[r].user /\ config.multiTenant
    BY RequestKnown DEF RequestType, Sound
  <2> QED BY <2>1, <2>2 DEF AuthTypeOK
<1>2. LimiterInv => LimiterTypeOK BY DEF LimiterInv, LimiterTypeOK, Entries
<1>3. WriteInv => WriteTypeOK
  <2> SUFFICES ASSUME WriteInv PROVE WriteTypeOK OBVIOUS
  <2>1. write.sent.to \in Destinations \cup {"none"}
    <3>1. Unsent.to = "none" BY DEF Unsent
    <3> QED BY <3>1, EveryDestination DEF WriteInv
  <2>2. write.ok => write.sent.to \notin {"none", "refused"} BY DEF WriteInv, Destinations
  <2> QED BY <2>1, <2>2 DEF WriteInv, WriteTypeOK, Destinations
<1>4. GuardInv => GuardTypeOK BY DEF GuardInv, GuardTypeOK, Judged
<1>5. ReportInv => ReportsTypeOK
  <2> SUFFICES ASSUME ReportInv PROVE ReportsTypeOK OBVIOUS
  <2>1. \A w \in Waits : wait[w] \in WaitType /\ WaitSound(w) BY DEF ReportInv
  <2>2. polls \subseteq PollType BY DEF ReportInv, PollsSound
  <2> QED BY <2>1, <2>2 DEF ReportInv, ReportsTypeOK, WaitType, WaitSound, PollType, Stages
<1>6. FetchInv => DownloadTypeOK
  BY DownloadAssumption DEF FetchInv, FetchType, DownloadTypeOK
<1>7. ReadInv => ReadTypeOK
  BY DEF ReadInv, Answering, OfItsQuestion, ReadTypeOK
<1>8. load \in Loads /\ AuthInv /\ LimiterInv /\ WriteInv /\ GuardInv /\ ReportInv /\ FetchInv
        /\ ReadInv => TypeOK
  BY <1>1, <1>2, <1>3, <1>4, <1>5, <1>6, <1>7 DEF TypeOK
<1> QED
  BY <1>8, AlwaysOneLoad, AlwaysAuth, AlwaysLimiter, AlwaysWrite, AlwaysGuard, AlwaysReport,
     AlwaysFetch, AlwaysRead, PTL

-----------------------------------------------------------------------------
(* How a call comes to its end: what TLC finds under fairness ends because *)
(* every step of it, wherever it falls, leaves fewer before it.            *)

\* What a rule objects to in a query.
TooFine(q) == q.level = "account" /\ q.breakdowns = "high"
TooHeavy(q) == ~ q.async /\ q.breakdowns # "none" /\ (q.widePreset \/ q.span > 90)
TooLong(q) == q.span > 37 * Month

LEMMA Judging ==
  ASSUME NEW q
  PROVE  Verdict(q) = IF TooFine(q) THEN "narrow" ELSE IF TooHeavy(q) THEN "report"
                      ELSE IF TooLong(q) THEN "trim" ELSE "accepted"
BY DEF Verdict, TooFine, TooHeavy, TooLong

\* What each way does to the objections.
LEMMA FollowedAdvice ==
  ASSUME NEW q \in Queries
  PROVE  /\ ~ TooFine([q EXCEPT !.level = "ad"])
         /\ LET d == [q EXCEPT !.async = TRUE]
            IN (TooFine(d) <=> TooFine(q)) /\ ~ TooHeavy(d)
         /\ LET d == [q EXCEPT !.span = Month]
            IN (TooFine(d) <=> TooFine(q)) /\ (TooHeavy(d) => TooHeavy(q)) /\ ~ TooLong(d)
BY DEF Queries, TooFine, TooHeavy, TooLong, Month

\* For any spans: every way that a refusal offers leads to a later rule, so that a caller is
\* accepted after at most three, but for the report that rule 1 offers, which it refuses again
\* at the level of the account (insights-guardrails.ts:47-75).
THEOREM Helped == Spec => AdviceHelps
<1>1. GuardInv /\ [Next]_vars =>
        [query.is # "none" /\ query' # query =>
           IF query.is = "narrow" /\ query'.of.level = "account" THEN query'.is = "narrow"
           ELSE Rule(query'.is) > Rule(query.is)]_query
  <2> SUFFICES ASSUME GuardInv, [Next]_vars, query.is # "none", query' # query
               PROVE  IF query.is = "narrow" /\ query'.of.level = "account"
                      THEN query'.is = "narrow" ELSE Rule(query'.is) > Rule(query.is)
    OBVIOUS
  <2>1. FollowAdvice BY Parted DEF QueryStep, AskInsights
  <2>2. PICK q \in Queries : query = Judged(q) BY DEF GuardInv
  <2>3. query.of = q /\ query.is = Verdict(q) BY <2>2 DEF Judged
  <2>4. PICK d \in Advised(Verdict(q), q) : query' = Judged(d) BY <2>1, <2>3 DEF FollowAdvice
  <2>5. query'.of = d /\ query'.is = Verdict(d) BY <2>4 DEF Judged
  <2>6. d \in Queries BY <2>4, AdvisedIsQuery
  <2>7. CASE Verdict(q) = "narrow"
    <3>1. TooFine(q) BY <2>7, Judging
    <3>2. CASE d = [q EXCEPT !.level = "ad"]
      <4>1. ~ TooFine(d) /\ d.level = "ad" BY <3>2, FollowedAdvice DEF Queries
      <4> QED BY <2>3, <2>5, <2>7, <4>1, Judging DEF Rule
    <3>3. CASE \E s \in {q.span, Month} :
                 d = [q EXCEPT !.async = TRUE, !.widePreset = FALSE, !.span = s]
      <4>1. TooFine(d)
        <5>1. PICK s \in {q.span, Month} :
                d = [q EXCEPT !.async = TRUE, !.widePreset = FALSE, !.span = s]
          BY <3>3
        <5>2. d.level = q.level /\ d.breakdowns = q.breakdowns BY <5>1 DEF Queries
        <5> QED BY <3>1, <5>2 DEF TooFine
      <4>2. d.level = "account" BY <4>1 DEF TooFine
      <4> QED BY <2>3, <2>5, <2>7, <4>1, <4>2, Judging
    <3> QED BY <2>4, <2>7, <3>2, <3>3 DEF Advised
  <2>8. CASE Verdict(q) = "report"
    <3>1. ~ TooFine(q) BY <2>8, Judging
    <3>2. d = [q EXCEPT !.async = TRUE] BY <2>4, <2>8 DEF Advised
    <3>3. ~ TooFine(d) /\ ~ TooHeavy(d) BY <3>1, <3>2, FollowedAdvice
    <3> QED BY <2>3, <2>5, <2>8, <3>3, Judging DEF Rule
  <2>9. CASE Verdict(q) = "trim"
    <3>1. ~ TooFine(q) /\ ~ TooHeavy(q) BY <2>9, Judging
    <3>2. d = [q EXCEPT !.span = Month] BY <2>4, <2>9 DEF Advised
    <3>3. ~ TooFine(d) /\ ~ TooHeavy(d) /\ ~ TooLong(d) BY <3>1, <3>2, FollowedAdvice
    <3> QED BY <2>3, <2>5, <2>9, <3>3, Judging DEF Rule
  <2> QED BY <2>1, <2>3, <2>7, <2>8, <2>9, Judging DEF FollowAdvice
<1> QED BY <1>1, AlwaysGuard, PTL DEF Spec, AdviceHelps

-----------------------------------------------------------------------------

\* A download's steps: to each URL a lookup, a connection and the head of an answer, and to
\* what is received a chunk for each byte at most.
StepsTo(pc) == CASE pc = "idle" -> 3 [] pc = "resolving" -> 2 [] pc = "connecting" -> 1 [] OTHER -> 0

FetchLeft(f) ==
  CASE f.pc = "over" -> 0
    [] f.pc = "receiving" -> 1 + (MaxBytes - f.held)
    [] OTHER -> MaxBytes + 2 + 3 * (MaxRedirects - f.redirects) + StepsTo(f.pc)

\* safe-download.ts:108-229: a server can neither redirect nor trickle a download for ever:
\* it has at most MaxBytes + 3 * MaxRedirects + 5 steps.
DownloadGetsOn ==
  [][fetch' # fetch => FetchLeft(fetch') \in Nat /\ FetchLeft(fetch') < FetchLeft(fetch)]_vars

LEMMA FetchLefts ==
  ASSUME NEW f \in FetchType
  PROVE  /\ FetchLeft(f) \in Nat /\ (f.pc # "over" => FetchLeft(f) > 0)
         /\ f.redirects \in 0 .. MaxRedirects /\ f.held \in 0 .. MaxBytes
         /\ MaxRedirects \in Nat /\ MaxBytes \in Nat
<1>1. /\ f.redirects \in 0 .. MaxRedirects /\ f.held \in 0 .. MaxBytes
      /\ MaxRedirects \in Nat /\ MaxBytes \in Nat
  BY DownloadAssumption DEF FetchType
<1>2. StepsTo(f.pc) \in Nat BY DEF StepsTo
<1> QED BY <1>1, <1>2 DEF FetchLeft

LEMMA FetchStepsOn ==
  ASSUME FetchInv, FetchInv', DownloadStep, fetch' # fetch
  PROVE  FetchLeft(fetch') < FetchLeft(fetch)
<1>0. fetch \in FetchType /\ fetch' \in FetchType BY DEF FetchInv
<1>1. ASSUME NEW ok, fetch' = FetchOver(ok), fetch.pc # "over" PROVE FetchLeft(fetch') < FetchLeft(fetch)
  <2>1. fetch'.pc = "over" BY <1>0, <1>1 DEF FetchOver, FetchType
  <2>2. FetchLeft(fetch') = 0 BY <2>1 DEF FetchLeft
  <2> QED BY <1>0, <1>1, <2>2, FetchLefts
<1>2. ASSUME NEW kind, NEW url, AskDownload(kind, url) PROVE FetchLeft(fetch') < FetchLeft(fetch)
  <2>1. fetch.pc = "idle" /\ fetch'.pc = "resolving" /\ fetch'.redirects = fetch.redirects
    BY <1>0, <1>2 DEF AskDownload, FetchType
  <2> QED BY <1>0, <2>1, FetchLefts DEF FetchLeft, StepsTo
<1>3. CASE ResolveHost
  <2>1. CASE \E ok : fetch' = FetchOver(ok)
    <3>1. fetch.pc # "over" BY <1>3 DEF ResolveHost
    <3> QED BY <1>1, <2>1, <3>1
  <2>2. CASE \E answer : fetch' = [fetch EXCEPT !.pc = "connecting", !.vetted = answer]
    <3>1. fetch.pc = "resolving" /\ fetch'.pc = "connecting" /\ fetch'.redirects = fetch.redirects
      BY <1>0, <1>3, <2>2 DEF ResolveHost, FetchType
    <3> QED BY <1>0, <3>1, FetchLefts DEF FetchLeft, StepsTo
  <2> QED BY <1>3, <2>1, <2>2 DEF ResolveHost
<1>4. CASE Connect
  <2>1. fetch.pc = "connecting" BY <1>4 DEF Connect
  <2>2. CASE \E a : fetch' = [fetch EXCEPT !.pc = "answering", !.reached = Append(@, a)]
    <3>1. fetch'.pc = "answering" /\ fetch'.redirects = fetch.redirects BY <1>0, <2>2 DEF FetchType
    <3> QED BY <1>0, <2>1, <3>1, FetchLefts DEF FetchLeft, StepsTo
  <2> QED BY <1>1, <1>4, <2>1, <2>2 DEF Connect
<1>5. ASSUME NEW url, Redirected(url) PROVE FetchLeft(fetch') < FetchLeft(fetch)
  <2>1. fetch.pc = "answering" BY <1>5 DEF Redirected
  <2>2. CASE fetch' = [fetch EXCEPT !.pc = "resolving", !.url = url, !.redirects = @ + 1]
    <3>1. fetch'.pc = "resolving" /\ fetch'.redirects = fetch.redirects + 1
      BY <1>0, <2>2 DEF FetchType
    <3> QED BY <1>0, <2>1, <3>1, FetchLefts DEF FetchLeft, StepsTo
  <2> QED BY <1>1, <1>5, <2>1, <2>2 DEF Redirected
<1>6. CASE Rejected BY <1>1, <1>6 DEF Rejected
<1>7. CASE Accepted
  <2>1. fetch.pc = "answering" /\ fetch'.pc = "receiving" BY <1>0, <1>7 DEF Accepted, FetchType
  <2> QED BY <1>0, <2>1, FetchLefts DEF FetchLeft, StepsTo
<1>8. ASSUME NEW n \in 1 .. MaxBytes + 1, Chunk(n) PROVE FetchLeft(fetch') < FetchLeft(fetch)
  <2>1. fetch.pc = "receiving" BY <1>8 DEF Chunk
  <2>2. /\ fetch'.pc = IF fetch.held + n > MaxBytes THEN "over" ELSE fetch.pc
        /\ fetch'.held = Held(n)
    BY <1>0, <1>8 DEF Chunk, FetchType
  <2>3. CASE fetch.held + n > MaxBytes BY <1>0, <2>1, <2>2, <2>3, FetchLefts DEF FetchLeft
  <2>4. CASE ~ (fetch.held + n > MaxBytes)
    <3>1. fetch'.pc = "receiving" /\ fetch'.held = fetch.held + n BY <2>1, <2>2, <2>4 DEF Held
    <3> QED BY <1>0, <2>1, <3>1, FetchLefts DEF FetchLeft
  <2> QED BY <2>3, <2>4
<1>9. CASE Complete BY <1>1, <1>9 DEF Complete
<1> QED BY <1>2, <1>3, <1>4, <1>5, <1>6, <1>7, <1>8, <1>9 DEF DownloadStep, DownloadOn

\* No redirect, chunk or failure sets a download back: each of its steps leaves fewer, for
\* any limits (safe-download.ts:108-229).
THEOREM Downloaded == Spec => DownloadGetsOn
<1>1. FetchInv /\ FetchInv' /\ [Next]_vars =>
        [fetch' # fetch => FetchLeft(fetch') \in Nat /\ FetchLeft(fetch') < FetchLeft(fetch)]_vars
  <2>1. FetchInv' => FetchLeft(fetch') \in Nat BY FetchLefts DEF FetchInv
  <2> QED BY <2>1, Parted, FetchStepsOn
<1> QED BY <1>1, AlwaysFetch, PTL DEF Spec, DownloadGetsOn

-----------------------------------------------------------------------------

\* A wait's steps: for each tick its sleeps may still last, a sleep, a poll and its answer;
\* and the fetch of the results.
WaitLeft(c) ==
  CASE c.pc = "sleeping" -> 3 * (c.deadline + MaxPollInterval - c.wake) + 3
    [] c.pc = "polling" -> 3 * (c.deadline + MaxPollInterval - c.wake) + 2
    [] c.pc = "fetching" -> 1
    [] OTHER -> 0

\* reports.ts:266-310: a wait for a report that never ends comes to its own end: whatever
\* Meta answers, each of its steps leaves fewer.
WaitsGetOn ==
  [][\A w \in Waits :
       wait[w].pc # "idle" /\ wait'[w] # wait[w] =>
         WaitLeft(wait'[w]) \in Nat /\ WaitLeft(wait'[w]) < WaitLeft(wait[w])]_vars

\* A poll is made once its sleep is over, and the sleep ended in time.
AfterSleep(c) == c.pc = "polling" => c.wake <= now /\ c.wake < c.deadline + MaxPollInterval

SleptInv == \A w \in Waits : AfterSleep(wait[w])

\* Where a step takes a call that waits.
TurnsTo(c, d) ==
  /\ d \in WaitType /\ AfterSleep(d)
  /\ WaitLeft(d) \in Nat /\ WaitLeft(d) < WaitLeft(c)

LEMMA AllStages == {"polling", "fetching", "answered", "failed"} \subseteq Stages
BY Zenon DEF Stages

LEMMA WaitLefts ==
  ASSUME NEW c \in WaitType,
         c.pc \in {"sleeping", "polling"} => c.wake < c.deadline + MaxPollInterval
  PROVE  /\ WaitLeft(c) \in Nat
         /\ c.pc \in {"sleeping", "polling"} => WaitLeft(c) > 1
         /\ c.wake \in Nat /\ c.deadline \in Nat /\ MaxPollInterval \in Nat
<1>1. c.wake \in Nat /\ c.deadline \in Nat /\ MaxPollInterval \in Nat
  BY ReportsAssumption DEF WaitType
<1> QED BY <1>1 DEF WaitLeft

\* A call that has come to its end, or has only the results to fetch.
LEMMA TurnsLast ==
  ASSUME ReportInv, SleptInv, NEW w \in Waits, NEW pc \in Stages, WaitLeft(wait[w]) \in Nat,
         pc \notin {"idle", "sleeping", "polling"},
         IF pc = "fetching" THEN WaitLeft(wait[w]) > 1 ELSE WaitLeft(wait[w]) > 0
  PROVE  TurnsTo(wait[w], [wait[w] EXCEPT !.pc = pc])
<1> DEFINE d == [wait[w] EXCEPT !.pc = pc]
<1>1. d \in WaitType /\ d.pc = pc BY Staged
<1> HIDE DEF d
<1>2. WaitLeft(d) = IF pc = "fetching" THEN 1 ELSE 0 BY <1>1 DEF WaitLeft
<1>3. AfterSleep(d) BY <1>1 DEF AfterSleep
<1>4. TurnsTo(wait[w], d) BY <1>1, <1>2, <1>3 DEF TurnsTo
<1> QED BY <1>4 DEF d

\* Another sleep ends later than the one before, or there is none.
LEMMA TurnsToSleep ==
  ASSUME ReportInv, SleptInv, NEW w \in Waits, wait[w].pc = "polling"
  PROVE  TurnsTo(wait[w], LoopHead(wait[w]))
<1> DEFINE c == wait[w]
           d == LoopHead(c)
<1>1. /\ c \in WaitType /\ c.report \in Reports /\ c.interval >= MinPollInterval
      /\ c.wake <= now /\ c.wake < c.deadline + MaxPollInterval
  BY DEF ReportInv, WaitSound, SleptInv, AfterSleep
<1>2. /\ WaitLeft(c) \in Nat /\ WaitLeft(c) > 1
      /\ c.wake \in Nat /\ c.deadline \in Nat /\ MaxPollInterval \in Nat
  BY <1>1, WaitLefts
<1>3. /\ d \in WaitType
      /\ d.pc = "sleeping" => d.wake < d.deadline + MaxPollInterval /\ d.wake >= now + MinPollInterval
  BY <1>1, Sleeping
<1>4. d.deadline = c.deadline
  <2>1. CASE now < c.deadline
    <3> DEFINE longer == Min({MaxPollInterval, (3 * c.interval + 1) \div 2})
               wake == now + c.interval
    <3>1. d = [c EXCEPT !.pc = "sleeping", !.wake = wake, !.interval = longer]
      BY <2>1 DEF LoopHead
    <3> HIDE DEF longer, wake, d
    <3> QED BY <1>1, <3>1 DEF WaitType
  <2>2. CASE ~ (now < c.deadline)
    <3>1. \E pc : d = [c EXCEPT !.pc = pc] BY <2>2 DEF LoopHead
    <3> HIDE DEF d
    <3> QED BY <1>1, <3>1 DEF WaitType
  <2> QED BY <2>1, <2>2
<1>8. d.pc = "sleeping" \/ d.pc \notin {"sleeping", "polling", "fetching"}
  <2>1. d.pc \in {"sleeping", "timed out"} BY <1>1, Sleeping
  <2> QED BY <2>1, Zenon
<1> HIDE DEF c, d
<1>5. AfterSleep(d) BY <1>8 DEF AfterSleep
<1>6. CASE d.pc = "sleeping"
  <2>1. /\ WaitLeft(c) = 3 * (c.deadline + MaxPollInterval - c.wake) + 2
        /\ WaitLeft(d) = 3 * (d.deadline + MaxPollInterval - d.wake) + 3
    BY <1>6 DEF WaitLeft, c
  <2>2. now \in Nat /\ d.wake \in Nat /\ MinPollInterval \in Nat /\ MinPollInterval >= 1
    <3>1. now \in Nat BY DEF ReportInv
    <3>2. d.wake \in Nat BY <1>3 DEF WaitType
    <3> QED BY <3>1, <3>2, ReportsAssumption
  <2>3. d.wake >= c.wake + 1 BY <1>1, <1>2, <1>3, <1>6, <2>2
  <2>4. WaitLeft(d) \in Nat /\ WaitLeft(d) < WaitLeft(c)
    BY <1>2, <1>3, <1>4, <1>6, <2>1, <2>2, <2>3
  <2> QED BY <1>3, <1>5, <2>4 DEF TurnsTo, c, d
<1>7. CASE d.pc \notin {"sleeping", "polling", "fetching"}
  <2>1. WaitLeft(d) = 0 BY <1>7 DEF WaitLeft
  <2> QED BY <1>2, <1>3, <1>5, <2>1 DEF TurnsTo, c, d
<1> QED BY <1>6, <1>7, <1>8

LEMMA WaitTurns ==
  ASSUME ReportInv, SleptInv, NEW w \in Waits, WaitOn(w), UNCHANGED now
  PROVE  wait[w].pc # "idle" /\ \E d : wait' = [wait EXCEPT ![w] = d] /\ TurnsTo(wait[w], d)
<1>0. wait[w] \in WaitType /\ DOMAIN wait = Waits BY DEF ReportInv
<1>1. ASSUME NEW pc, wait' = [wait EXCEPT ![w].pc = pc]
      PROVE  wait' = [wait EXCEPT ![w] = [wait[w] EXCEPT !.pc = pc]]
  BY <1>0, <1>1
<1>2. wait[w].pc = "sleeping" => wait[w].wake < wait[w].deadline + MaxPollInterval
  BY DEF ReportInv, WaitSound
<1>3. wait[w].pc = "polling" => wait[w].wake < wait[w].deadline + MaxPollInterval
  BY DEF SleptInv, AfterSleep
<1>4. /\ WaitLeft(wait[w]) \in Nat
      /\ wait[w].pc \in {"sleeping", "polling"} => WaitLeft(wait[w]) > 1
      /\ wait[w].wake \in Nat /\ wait[w].deadline \in Nat /\ MaxPollInterval \in Nat
  BY <1>0, <1>2, <1>3, WaitLefts
<1>8. ASSUME wait[w].pc \in {"sleeping", "polling"}, NEW pc \in {"fetching", "failed"}
      PROVE  TurnsTo(wait[w], [wait[w] EXCEPT !.pc = pc])
  <2>1. /\ pc \in Stages /\ pc \notin {"idle", "sleeping", "polling"}
        /\ WaitLeft(wait[w]) > 1 /\ WaitLeft(wait[w]) > 0
    BY <1>4, <1>8, AllStages
  <2> QED BY <1>4, <2>1, TurnsLast
<1>5. CASE PollReport(w)
  <2>1. wait[w].pc = "sleeping" /\ now >= wait[w].wake BY <1>5 DEF PollReport
  <2>2. CASE wait' = [wait EXCEPT ![w].pc = "failed"]
    BY <1>1, <2>2, <1>8, <2>1
  <2>3. CASE wait' = [wait EXCEPT ![w].pc = "polling"]
    <3> DEFINE d == [wait[w] EXCEPT !.pc = "polling"]
    <3>1. d \in WaitType /\ d.pc = "polling" BY Staged, AllStages
    <3>2. d.wake = wait[w].wake /\ d.deadline = wait[w].deadline BY <1>0 DEF WaitType
    <3>3. wait' = [wait EXCEPT ![w] = d] BY <1>1, <2>3
    <3> HIDE DEF d
    <3>4. now \in Nat BY DEF ReportInv
    <3>5. AfterSleep(d) BY <1>2, <2>1, <3>2, <1>4, <3>4 DEF AfterSleep
    <3>6. /\ WaitLeft(d) = 3 * (wait[w].deadline + MaxPollInterval - wait[w].wake) + 2
          /\ WaitLeft(wait[w]) = 3 * (wait[w].deadline + MaxPollInterval - wait[w].wake) + 3
      BY <2>1, <3>1, <3>2 DEF WaitLeft
    <3>7. WaitLeft(d) \in Nat /\ WaitLeft(d) < WaitLeft(wait[w]) BY <1>2, <1>4, <2>1, <3>6
    <3> QED BY <2>1, <3>1, <3>3, <3>5, <3>7 DEF TurnsTo
  <2> QED BY <1>5, <2>2, <2>3 DEF PollReport
<1>6. CASE AnswerPoll(w)
  <2>1. wait[w].pc = "polling" BY <1>6 DEF AnswerPoll
  <2>2. CASE wait' = [wait EXCEPT ![w] = LoopHead(wait[w])] BY <2>1, <2>2, TurnsToSleep
  <2>3. ASSUME NEW pc \in {"fetching", "failed"},
               wait' = [wait EXCEPT ![w] = [wait[w] EXCEPT !.pc = pc]]
        PROVE  \E d : wait' = [wait EXCEPT ![w] = d] /\ TurnsTo(wait[w], d)
    BY <1>8, <2>1, <2>3
  <2>4. CASE wait' = [wait EXCEPT ![w].pc = "failed"] BY <1>1, <2>1, <2>3, <2>4
  <2>5. CASE wait' = [wait EXCEPT ![w] = AfterPoll(wait[w], report[wait[w].report])]
    BY <2>1, <2>2, <2>3, <2>5 DEF AfterPoll
  <2> QED BY <1>6, <2>4, <2>5 DEF AnswerPoll
<1>7. CASE FetchResults(w)
  <2>1. wait[w].pc = "fetching" BY <1>7 DEF FetchResults
  <2>2. WaitLeft(wait[w]) = 1 BY <2>1 DEF WaitLeft
  <2>3. PICK end \in {"answered", "failed"} : wait' = [wait EXCEPT ![w].pc = end]
    BY <1>7 DEF FetchResults
  <2>4. wait' = [wait EXCEPT ![w] = [wait[w] EXCEPT !.pc = end]] BY <1>1, <2>3
  <2>5. TurnsTo(wait[w], [wait[w] EXCEPT !.pc = end]) BY <2>2, AllStages, TurnsLast
  <2> QED BY <2>1, <2>4, <2>5
<1> QED BY <1>5, <1>6, <1>7 DEF WaitOn

\* A new call begins with a sleep, or with its time over.
LEMMA BegunIsNoPoll ==
  ASSUME ReportInv, NEW w \in Waits, NEW p, NEW maxWait, NEW interval,
         RunAndWait(w, p, maxWait, interval)
  PROVE  /\ wait[w].pc = "idle"
         /\ \E d : wait' = [wait EXCEPT ![w] = d] /\ d.pc # "polling"
<1> DEFINE record == [pc |-> "head", report |-> p, deadline |-> now + maxWait, wake |-> 0,
                      interval |-> Max({MinPollInterval, interval})]
<1>1. wait[w].pc = "idle" /\ wait' = [wait EXCEPT ![w] = LoopHead(record)] BY DEF RunAndWait
<1>2. LoopHead(record).pc # "polling"
  <2>1. CASE now < record.deadline
    <3> DEFINE longer == Min({MaxPollInterval, (3 * record.interval + 1) \div 2})
               wake == now + record.interval
    <3>1. LoopHead(record) = [record EXCEPT !.pc = "sleeping", !.wake = wake, !.interval = longer]
      BY <2>1 DEF LoopHead
    <3> HIDE DEF longer, wake
    <3>2. [record EXCEPT !.pc = "sleeping", !.wake = wake, !.interval = longer].pc = "sleeping"
      OBVIOUS
    <3> QED BY <3>1, <3>2
  <2>2. CASE ~ (now < record.deadline)
    <3>1. LoopHead(record) = [record EXCEPT !.pc = "timed out"] BY <2>2 DEF LoopHead
    <3>2. \A pc : [record EXCEPT !.pc = pc].pc = pc OBVIOUS
    <3>3. LoopHead(record).pc = "timed out" BY <3>1, <3>2, Zenon
    <3> QED BY <3>3, Zenon
  <2> QED BY <2>1, <2>2
<1> QED BY <1>1, <1>2

LEMMA SleptBegins == ReportsInit => SleptInv
BY DEF ReportsInit, NotWaiting, SleptInv, AfterSleep

\* Each of the steps of a call that waits leaves fewer, and is nobody else's.
LEMMA WaitStepsOn ==
  ASSUME ReportInv, SleptInv, ReportStep
  PROVE  /\ SleptInv'
         /\ \A w \in Waits :
              wait[w].pc # "idle" /\ wait'[w] # wait[w] =>
                WaitLeft(wait'[w]) \in Nat /\ WaitLeft(wait'[w]) < WaitLeft(wait[w])
<1> DEFINE On == \A w \in Waits :
                   wait[w].pc # "idle" /\ wait'[w] # wait[w] =>
                     WaitLeft(wait'[w]) \in Nat /\ WaitLeft(wait'[w]) < WaitLeft(wait[w])
<1>0. DOMAIN wait = Waits /\ \A w \in Waits : wait[w] \in WaitType BY DEF ReportInv
<1>n. now \in Nat /\ now' \in Nat /\ now' >= now BY DEF ReportInv, ReportStep, Tick
<1>a. ASSUME NEW c \in WaitType, AfterSleep(c) PROVE AfterSleep(c)'
  <2>1. c.wake \in Nat BY DEF WaitType
  <2> QED BY <1>n, <1>a, <2>1 DEF AfterSleep
<1>1. CASE UNCHANGED wait
  <2>1. SleptInv' BY <1>0, <1>1, <1>a DEF SleptInv, AfterSleep
  <2> QED BY <1>1, <2>1
<1>2. ASSUME NEW w \in Waits, WaitOn(w), UNCHANGED now PROVE SleptInv' /\ On
  <2>1. PICK d : wait' = [wait EXCEPT ![w] = d] /\ TurnsTo(wait[w], d) BY <1>2, WaitTurns
  <2>2. \A v \in Waits : wait'[v] = IF v = w THEN d ELSE wait[v] BY <1>0, <2>1
  <2>3. SleptInv' BY <1>2, <2>1, <2>2 DEF SleptInv, AfterSleep, TurnsTo
  <2>4. On BY <2>1, <2>2 DEF TurnsTo
  <2> QED BY <2>3, <2>4
<1>3. ASSUME NEW w \in Waits, NEW p, NEW m, NEW i, RunAndWait(w, p, m, i), UNCHANGED now
      PROVE  SleptInv' /\ On
  <2>1. wait[w].pc = "idle" BY <1>3, BegunIsNoPoll
  <2>2. PICK d : wait' = [wait EXCEPT ![w] = d] /\ d.pc # "polling" BY <1>3, BegunIsNoPoll
  <2>3. \A v \in Waits : wait'[v] = IF v = w THEN d ELSE wait[v] BY <1>0, <2>2
  <2>4. SleptInv' BY <1>3, <2>2, <2>3 DEF SleptInv, AfterSleep
  <2>5. On BY <2>1, <2>3
  <2> QED BY <2>4, <2>5
<1>4. ASSUME NEW p, CreateReport(p) \/ EndReport(p) \/ PollStatus(p) PROVE UNCHANGED wait
  BY <1>4 DEF CreateReport, EndReport, PollStatus
<1> QED BY <1>1, <1>2, <1>3, <1>4 DEF ReportStep, reportVars

\* No answer, however late, and no other call sets a wait back: each of its steps leaves
\* fewer, so that it ends though its report never does (reports.ts:266-310).
THEOREM WaitedOut == Spec => WaitsGetOn
<1>1. Init => SleptInv BY SleptBegins DEF Init
<1>2. ReportInv /\ SleptInv /\ [Next]_vars => SleptInv' BY Parted, WaitStepsOn
<1>3. ReportInv /\ SleptInv /\ [Next]_vars =>
        [\A w \in Waits :
           wait[w].pc # "idle" /\ wait'[w] # wait[w] =>
             WaitLeft(wait'[w]) \in Nat /\ WaitLeft(wait'[w]) < WaitLeft(wait[w])]_vars
  BY Parted, WaitStepsOn
<1> QED BY <1>1, <1>2, <1>3, AlwaysReport, PTL DEF Spec, WaitsGetOn

=============================================================================
