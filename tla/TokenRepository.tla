--------------------------- MODULE TokenRepository ---------------------------
(***************************************************************************)
(* FirestoreMetaTokenRepo (src/store/meta-token-repo.ts), the tokens of    *)
(* one user, and the handlers that call it: the sign-in callback, the      *)
(* token forms, the token tools, POST /authorize, and the middleware that  *)
(* fetches the token of every request.  Every call of Firestore is an      *)
(* await: another handler may run, in this process or another, and the     *)
(* call may throw, with or without effect.                                 *)
(***************************************************************************)
EXTENDS Clock, Integers

CONSTANTS
  Names,              \* token names
  Personal,           \* "personal", the name under which a sign-in saves its token
  Handlers,           \* one call each
  OAuthConfigured,    \* whether META_APP_ID and META_APP_SECRET are set
  RefreshThreshold,   \* REFRESH_THRESHOLD_SECONDS
  Lifetime,           \* of a token that Meta has just issued
  NoName

ASSUME RepositoryAssumption ==
  /\ Personal \in Names /\ NoName \notin Names
  /\ OAuthConfigured \in BOOLEAN
  /\ RefreshThreshold \in Nat \ {0}
  /\ Lifetime \in Nat

VARIABLES
  tokens,    \* name -> its document
  handler    \* handler -> where it stands in its call, and what it has read

vars == <<now, tokens, handler>>

\* expiresAt is 0 for null.
Doc == [kind : {"absent", "user", "system_user"}, expiresAt : Nat, isDefault : BOOLEAN]

NoDoc == [kind |-> "absent", expiresAt |-> 0, isDefault |-> FALSE]

Present == {n \in Names : tokens[n].kind # "absent"}

Defaults == {n \in Present : tokens[n].isDefault}

OneDefault == Present = {} \/ \E n \in Names : Defaults = {n}

Busy(r) == handler[r].pc \notin {"idle", "ended"}

NotCalled ==
  [pc |-> "idle", op |-> "none", name |-> NoName, default |-> FALSE, seen |-> {},
   expiresAt |-> 0, expired |-> FALSE, alone |-> TRUE, outcome |-> "none"]

\* Calls made one after another leave one default, or no token at all.
Init ==
  /\ ClockInit
  /\ tokens \in [Names -> {NoDoc}
                   \cup [kind : {"user"}, expiresAt : 1..Lifetime, isDefault : BOOLEAN]
                   \cup [kind : {"system_user"}, expiresAt : {0}, isDefault : BOOLEAN]]
  /\ \A n \in Names \ {Personal} : tokens[n].kind # "user"
  /\ OneDefault
  /\ handler = [r \in Handlers |-> NotCalled]

\* A call begins; alone is kept while no other call runs beside it.
Begin(r, call) ==
  /\ handler[r].pc = "idle"
  /\ handler' = [q \in Handlers |->
                   IF q = r THEN [call EXCEPT !.alone = ~ \E p \in Handlers : Busy(p)]
                   ELSE [handler[q] EXCEPT !.alone = @ /\ ~ Busy(q)]]
  /\ UNCHANGED <<now, tokens>>

Call(op, name, stage) == [NotCalled EXCEPT !.op = op, !.name = name, !.pc = stage]

NotFound(op, name) == [Call(op, name, "ended") EXCEPT !.outcome = "not found"]

Goto(r, stage) == handler' = [handler EXCEPT ![r].pc = stage]

End(r, outcome) == handler' = [handler EXCEPT ![r].pc = "ended", ![r].outcome = outcome]

-----------------------------------------------------------------------------

\* The callback asks whether there is a default, and calls saveToken accordingly.
SignIn(r) ==
  Begin(r, [Call("signIn", Personal, IF Defaults = {} THEN "clearing" ELSE "looking")
              EXCEPT !.expiresAt = now + Lifetime, !.default = (Defaults = {})])

\* saveToken without setAsDefault asks again: without a default, this token is it.
Look(r) ==
  /\ handler[r].pc = "looking"
  /\ handler' = [handler EXCEPT ![r].pc = "saving", ![r].default = (Defaults = {})]
  /\ UNCHANGED <<now, tokens>>

Register(r, name) ==
  Begin(r, [Call("register", name, "saving") EXCEPT !.default = (Defaults = {})])

\* set replaces the document whatever it was, a default among others.
Save(r) ==
  LET name == handler[r].name IN
  /\ handler[r].pc = "saving"
  /\ tokens' = [tokens EXCEPT ![name] =
                  [kind |-> IF handler[r].op = "signIn" THEN "user" ELSE "system_user",
                   expiresAt |-> handler[r].expiresAt, isDefault |-> handler[r].default]]
  /\ \/ End(r, IF tokens[name].isDefault THEN "default resaved" ELSE "done")
     \/ End(r, "failed")
  /\ UNCHANGED now

\* setDefaultToken as a bug would have it: the other tokens are left as they are.
MutActivate(r, name) ==
  Begin(r, IF name \in Present THEN Call("activate", name, "flagging")
           ELSE NotFound("activate", name))

Activate(r, name) ==
  Begin(r, IF name \in Present THEN Call("activate", name, "clearing")
           ELSE NotFound("activate", name))

\* After clearDefaults.
Cleared(r) == IF handler[r].op = "signIn" THEN "saving" ELSE "flagging"

ReadAll(r) ==
  /\ handler[r].pc = "clearing"
  /\ handler' = [handler EXCEPT ![r].seen = Present,
                                ![r].pc = IF Present = {} THEN Cleared(r) ELSE "batching"]
  /\ UNCHANGED <<now, tokens>>

\* The batch updates every document that was read, or throws when one is gone.
Commit(r) ==
  /\ handler[r].pc = "batching"
  /\ IF handler[r].seen \subseteq Present
     THEN /\ tokens' = [n \in Names |->
                          IF n \in handler[r].seen THEN [tokens[n] EXCEPT !.isDefault = FALSE]
                          ELSE tokens[n]]
          /\ Goto(r, Cleared(r))
     ELSE End(r, "failed") /\ UNCHANGED tokens
  /\ UNCHANGED now

\* update({isDefault: true}), which throws when the document is gone.
Flag(r) ==
  LET name == handler[r].name IN
  /\ handler[r].pc = "flagging"
  /\ IF name \in Present
     THEN /\ tokens' = [tokens EXCEPT ![name].isDefault = TRUE]
          /\ End(r, "done") \/ End(r, "failed")
     ELSE End(r, "failed") /\ UNCHANGED tokens
  /\ UNCHANGED now

Delete(r, name) ==
  Begin(r, IF name \in Present
           THEN [Call("delete", name, "deleting") EXCEPT !.default = tokens[name].isDefault]
           ELSE NotFound("delete", name))

\* deleteToken as a bug would have it: nothing is promoted.
MutRemove(r) ==
  /\ handler[r].pc = "deleting"
  /\ tokens' = [tokens EXCEPT ![handler[r].name] = NoDoc]
  /\ End(r, "done")
  /\ UNCHANGED now

Remove(r) ==
  /\ handler[r].pc = "deleting"
  /\ tokens' = [tokens EXCEPT ![handler[r].name] = NoDoc]
  /\ IF handler[r].default THEN Goto(r, "promoting") ELSE End(r, "done") \/ End(r, "failed")
  /\ UNCHANGED now

\* The deleted default is followed by whichever token Firestore returns first.
Promote(r) ==
  /\ handler[r].pc = "promoting"
  /\ IF Present = {} THEN End(r, "done")
     ELSE \E n \in Present :
            handler' = [handler EXCEPT ![r].name = n, ![r].pc = "flagging"]
  /\ UNCHANGED <<now, tokens>>

-----------------------------------------------------------------------------

\* getDecryptedToken as a bug would have it: no look at what was not found.
MutUse(r) ==
  \E n \in (IF Defaults = {} THEN {NoName} ELSE Defaults) : Begin(r, Call("use", n, "fetching"))

\* getDecryptedToken of the default, for a request of the user.
Use(r) ==
  \/ Defaults = {} /\ Begin(r, NotFound("use", NoName))
  \/ \E n \in Defaults : Begin(r, Call("use", n, "fetching"))

\* Returned as it is, or due for a refresh.
Fetch(r) ==
  LET doc == tokens[handler[r].name]
      due == doc.kind = "user" /\ doc.expiresAt - now < RefreshThreshold
  IN  /\ handler[r].pc = "fetching"
      /\ handler[r].name \in Names
      /\ IF doc.kind = "absent" THEN End(r, "failed")
         ELSE handler' = [handler EXCEPT
                ![r].expired = doc.kind = "user" /\ doc.expiresAt <= now,
                ![r].pc = IF due /\ OAuthConfigured THEN "exchanging" ELSE "ended",
                ![r].outcome = IF due /\ OAuthConfigured THEN "none" ELSE "used"]
      /\ UNCHANGED <<now, tokens>>

\* A failed refresh as a bug would have it: the old token is used, come what may.
MutFallBack(r) == End(r, "used")

\* The refresh failed: the old token is used if it was still good when it was read.
FallBack(r) == End(r, IF handler[r].expired THEN "failed" ELSE "used")

\* Meta exchanges the token for one with a new lifetime, or does not.
Exchange(r) ==
  /\ handler[r].pc = "exchanging"
  /\ \/ handler' = [handler EXCEPT ![r].pc = "persisting", ![r].expiresAt = now + Lifetime]
     \/ FallBack(r)
  /\ UNCHANGED <<now, tokens>>

Refreshed(r) ==
  [tokens EXCEPT ![handler[r].name].expiresAt = handler[r].expiresAt]

\* persist as a bug would have it: a set that makes the document anew.
MutPersist(r) ==
  /\ handler[r].pc = "persisting"
  /\ tokens' = [Refreshed(r) EXCEPT ![handler[r].name].kind = "user"]
  /\ handler' = [handler EXCEPT ![r].pc = "ended", ![r].outcome = "used", ![r].expired = FALSE]
  /\ UNCHANGED now

\* update with the new token and its expiry; it throws when the document is gone, and
\* what it throws is one more failed refresh.
Persist(r) ==
  /\ handler[r].pc = "persisting"
  /\ \/ /\ handler[r].name \in Present
        /\ tokens' = Refreshed(r)
        /\ \/ handler' = [handler EXCEPT ![r].pc = "ended", ![r].outcome = "used",
                                         ![r].expired = FALSE]
           \/ FallBack(r)
     \/ FallBack(r) /\ UNCHANGED tokens
  /\ UNCHANGED now

\* The store throws without effect, or the process dies.
StoreFails(r) ==
  /\ Busy(r)
  /\ End(r, "failed")
  /\ UNCHANGED <<now, tokens>>

TimePasses == Tick /\ UNCHANGED <<tokens, handler>>

Next ==
  \/ TimePasses
  \/ \E r \in Handlers :
       \/ SignIn(r) \/ Look(r) \/ Save(r) \/ ReadAll(r) \/ Commit(r) \/ Flag(r)
       \/ Remove(r) \/ Promote(r)
       \/ Use(r) \/ Fetch(r) \/ Exchange(r) \/ Persist(r) \/ StoreFails(r)
       \/ \E n \in Names : Register(r, n) \/ Activate(r, n) \/ Delete(r, n)

Spec == Init /\ [][Next]_vars

-----------------------------------------------------------------------------

Stages == {"idle", "ended", "looking", "saving", "clearing", "batching", "flagging",
           "deleting", "promoting", "fetching", "exchanging", "persisting"}

Outcomes == {"none", "done", "default resaved", "not found", "failed", "used"}

\* The types of the documents (meta-token-repo.ts:55-67) and of the calls; a call at
\* work is about a token.
TypeOK ==
  /\ now \in Nat
  /\ tokens \in [Names -> Doc]
  /\ handler \in [Handlers ->
       [pc : Stages, op : {"none", "signIn", "register", "activate", "delete", "use"},
        name : Names \cup {NoName}, default : BOOLEAN, seen : SUBSET Names,
        expiresAt : Nat, expired : BOOLEAN, alone : BOOLEAN, outcome : Outcomes]]
  /\ \A r \in Handlers : Busy(r) => handler[r].name \in Names

\* tokens.ts:238: a token that is not there appears by a save of that name and by
\* nothing else - no refresh, promotion or change of default that was under way when
\* it was deleted brings it back.
DeletedStaysDeleted ==
  [][\A n \in Names :
       n \notin Present /\ n \in Present' =>
         \E r \in Handlers : handler[r].name = n /\ handler[r].pc = "saving"
                               /\ handler'[r].pc = "ended"]_vars

Quiet == \A r \in Handlers : ~ Busy(r)

OneAtATime == \A r \in Handlers : handler[r].alone /\ handler[r].outcome # "failed"

\* meta-token-repo.test.ts:68-99: calls made one after another, none of which fails or
\* saves the default token again, leave one default as long as there is a token.
QuietHasOneDefault ==
  Quiet /\ OneAtATime /\ (\A r \in Handlers : handler[r].outcome # "default resaved")
    => OneDefault

\* tokens.ts:95: after a switch of the active token that nothing ran beside, that token
\* is the default and no other is, whatever overlapping or failed calls left before.
SwitchIsExact ==
  [][\A r \in Handlers :
       handler[r].op = "activate" /\ Busy(r) /\ handler[r].alone /\ handler'[r].outcome = "done"
         => Defaults' = {handler[r].name}]_vars

\* meta-token-repo.ts:174-201: where a refresh is possible, no request is given a token
\* that had expired when it was read.
ExpiredIsNotUsed ==
  OAuthConfigured => \A r \in Handlers : handler[r].outcome = "used" => ~ handler[r].expired

\* meta-token-repo.ts:334, "No Meta token registered for user": calls made one after
\* another, none failing, come to that only when the user has no token.
NoTokenMeansNone ==
  Quiet /\ OneAtATime => (Present = {} <=> Defaults = {})
=============================================================================
