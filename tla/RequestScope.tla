---------------------------- MODULE RequestScope ----------------------------
(***************************************************************************)
(* What a Graph API request is accounted to: RequestContext                *)
(* (src/meta/rate-limiter.ts) and CircuitContext (circuit-breaker.ts).     *)
(* The token is its hash; the account is what extractAccountId finds in    *)
(* the path - an ad account, or the id of the addressed object - or the    *)
(* scope the tool passes; "_" when there is none.                          *)
(***************************************************************************)
EXTENDS Clock

CONSTANTS
  Tokens,     \* token hashes
  Accounts,   \* account and object ids
  Types,      \* the use cases guessBucType tells apart
  Calls       \* calls of MetaApiClient.execute

Contexts == [token : Tokens, account : Accounts \cup {"_"}, type : Types]
=============================================================================
