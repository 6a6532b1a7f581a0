----------------------------- MODULE TokenPool -----------------------------
(***************************************************************************)
(* The tokens of the process: the pool of auth/token-manager.ts, which     *)
(* every caller without a user of its own shares, and getAccessToken of    *)
(* auth/token-store.ts, which picks the token of a call to the Graph API.  *)
(* The pool is read from the environment at its first use; the environment *)
(* does not change, so it stands here from the start.                      *)
(***************************************************************************)
EXTENDS SecurityConfig

CONSTANTS
  MetaToken,      \* META_ACCESS_TOKEN
  FirstToken,     \* the usable token of META_TOKENS
  OtherTokens     \* tokens that are not in the environment

Tokens == {MetaToken, FirstToken} \cup OtherTokens

ASSUME PoolAssumption == None \notin Tokens

Names == {"first", "second", "default"}

VARIABLES
  pool,       \* name -> token, None for none
  active,     \* activeTokenName
  given       \* every token the process was ever given for its pool (to observe)

poolVars == <<pool, active, given>>

EnvToken == IF config.metaToken THEN MetaToken ELSE None

Loaded ==
  [n \in Names |->
     CASE n = config.metaTokens -> FirstToken
       [] n = "default" /\ config.metaTokens # n /\ config.metaToken -> MetaToken
       [] OTHER -> None]

PoolInit ==
  /\ pool = Loaded
  /\ active = IF config.metaTokens = "first" THEN "first"
              ELSE IF config.metaTokens # "default" /\ config.metaToken THEN "default"
              ELSE None
  /\ given = ({pool[n] : n \in Names} \cup {EnvToken}) \ {None}

ActiveToken == IF active = None THEN None ELSE pool[active]

\* getAccessToken as a bug would have it: the pool goes before the request's own token.
MutAccessToken(context) ==
  IF ActiveToken # None THEN ActiveToken
  ELSE IF context # None THEN context
  ELSE EnvToken

\* getAccessToken, None when it throws.
AccessToken(context) ==
  IF context # None THEN context
  ELSE IF ActiveToken # None THEN ActiveToken
  ELSE EnvToken

RegisterToken(name, token) ==
  /\ pool' = [pool EXCEPT ![name] = token]
  /\ active' = IF active = None THEN name ELSE active
  /\ given' = given \cup {token}

\* setActiveToken as a bug would have it: any name will do.
MutSetActiveToken(name) == active' = name /\ UNCHANGED <<pool, given>>

SetActiveToken(name) ==
  /\ active' = IF pool[name] # None THEN name ELSE active
  /\ UNCHANGED <<pool, given>>

PoolTypeOK ==
  /\ pool \in [Names -> Tokens \cup {None}]
  /\ active \in Names \cup {None}
  /\ given \subseteq Tokens
  /\ active # None => pool[active] # None
=============================================================================
