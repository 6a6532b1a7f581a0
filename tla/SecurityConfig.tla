--------------------------- MODULE SecurityConfig ---------------------------
(***************************************************************************)
(* What start-up makes of the environment: the transport, the mode of the  *)
(* writes, the secrets (transport/security-config.ts), the public URL and  *)
(* the stores (transport/http.ts).  A process whose environment is refused *)
(* exits; the others run under what was settled, their config.             *)
(***************************************************************************)
EXTENDS Naturals

CONSTANT None

VARIABLE config

Secrets == {"unset", "short", "long"}     \* a placeholder looks unset

\* META_TOKENS: absent or not JSON; its first name usable; its first token empty, with
\* another name, or with the name "default", after it.
NamedTokens == {"none", "first", "second", "default"}

Environments ==
  [transport : {"http", "stdio"}, mode : {"direct", "token-free", "unknown"},
   production : BOOLEAN, metaApp : BOOLEAN, encryptionKey : {"unset", "malformed", "hex"},
   sessionSecret : Secrets, oauthSecret : Secrets, allowlist : BOOLEAN, firestore : BOOLEAN,
   url : {"unset", "malformed", "plain", "local", "private", "public"},
   apiKey : BOOLEAN, metaToken : BOOLEAN, metaTokens : NamedTokens]

TokenFree(env) == env.mode = "token-free"

MultiTenant(env) == env.metaApp /\ ~ TokenFree(env)

RequireSecret(secret) == secret = "long"

ConfigAccepted(env) ==
  /\ MultiTenant(env) => /\ env.encryptionKey = "hex"
                         /\ RequireSecret(env.sessionSecret)
                         /\ env.allowlist
  /\ env.production => RequireSecret(env.oauthSecret)

UrlAccepted(env) ==
  IF env.production THEN env.url = "public" ELSE env.url # "malformed"

StoresAccepted(env) == MultiTenant(env) /\ env.production => env.firestore

Leaks(env) == TokenFree(env) /\ (env.metaToken \/ env.metaTokens # "none")

\* An unknown mode throws wherever the mode is read; over stdio nothing else is checked.
Starts(env) ==
  /\ env.mode # "unknown"
  /\ env.transport = "http" =>
       ~ Leaks(env) /\ ConfigAccepted(env) /\ UrlAccepted(env) /\ StoresAccepted(env)

Settled(env) ==
  LET http == env.transport = "http" IN
  [http |-> http, tokenFree |-> TokenFree(env), multiTenant |-> http /\ MultiTenant(env),
   apiKey |-> http /\ env.apiKey, metaToken |-> env.metaToken, metaTokens |-> env.metaTokens]

Settlements == {Settled(env) : env \in {e \in Environments : Starts(e)}}

ConfigInit == config \in Settlements
=============================================================================
