---------------------------- MODULE MCOAuthServer ----------------------------
EXTENDS OAuthServer, TLC

\* Handlers, browsers, clients and the ids of each kind are interchangeable.
IdSymmetry ==
  UNION {Permutations(S) : S \in {Handlers, Browsers, Clients, Nonces, Codes, Refreshes}}
=============================================================================
