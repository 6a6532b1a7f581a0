----------------------------- MODULE TokenProofs -----------------------------
(***************************************************************************)
(* What the run of TokenRepository shows, for any number of names and      *)
(* handlers, any lifetime and any refresh threshold.                       *)
(***************************************************************************)
EXTENDS TokenRepository, TLAPS

Ops == {"none", "signIn", "register", "activate", "delete", "use"}

Calls ==
  [pc : Stages, op : Ops, name : Names \cup {NoName}, default : BOOLEAN,
   seen : SUBSET Names, expiresAt : Nat, expired : BOOLEAN, alone : BOOLEAN, outcome : Outcomes]

AtWork(call) == call.pc \notin {"idle", "ended"}

\* A call at work is about a token and has come to no outcome.
Proper == {c \in Calls : AtWork(c) => c.name \in Names /\ c.outcome = "none"}

Types ==
  /\ now \in Nat
  /\ tokens \in [Names -> Doc]
  /\ handler \in [Handlers -> Proper]

\* What a handler does once it has begun.
Continue(r) ==
  \/ Look(r) \/ Save(r) \/ ReadAll(r) \/ Commit(r) \/ Flag(r) \/ Remove(r) \/ Promote(r)
  \/ Fetch(r) \/ Exchange(r) \/ Persist(r) \/ StoreFails(r)

-----------------------------------------------------------------------------

LEMMA CallIsProper ==
  ASSUME NEW op \in Ops, NEW name \in Names, NEW stage \in Stages
  PROVE  /\ Call(op, name, stage) \in Proper
         /\ Call(op, name, stage).op = op /\ Call(op, name, stage).pc = stage
BY DEF Call, NotCalled, Proper, Calls, AtWork, Stages, Outcomes, Ops

LEMMA NotFoundIsProper ==
  ASSUME NEW op \in Ops, NEW name \in Names \cup {NoName}
  PROVE  NotFound(op, name) \in Proper /\ NotFound(op, name).pc = "ended"
BY DEF NotFound, Call, NotCalled, Proper, Calls, AtWork, Stages, Outcomes, Ops

LEMMA BeginTyped ==
  ASSUME Types, NEW r \in Handlers, NEW call \in Proper, Begin(r, call)
  PROVE  Types'
<1>1. ASSUME NEW q \in Handlers
      PROVE  handler'[q] \in Proper
  BY DEF Begin, Proper, Calls, AtWork, Busy, Types
<1> QED BY <1>1 DEF Begin, Types

LEMMA DocUpdates ==
  ASSUME NEW doc \in Doc, NEW b \in BOOLEAN, NEW e \in Nat
  PROVE  /\ [doc EXCEPT !.isDefault = b] \in Doc
         /\ [doc EXCEPT !.expiresAt = e] \in Doc
         /\ [doc EXCEPT !.isDefault = b].kind = doc.kind
         /\ [doc EXCEPT !.isDefault = b].isDefault = b
         /\ [doc EXCEPT !.expiresAt = e].kind = doc.kind
BY DEF Doc

LEMMA HandlerUpdate ==
  ASSUME Types, NEW r \in Handlers, NEW call \in Proper,
         handler' = [handler EXCEPT ![r] = call],
         call.op = handler[r].op, call.alone = handler[r].alone
  PROVE  /\ handler' \in [Handlers -> Proper]
         /\ \A q \in Handlers \ {r} : handler'[q] = handler[q]
         /\ handler'[r].op = handler[r].op
         /\ handler'[r].alone = handler[r].alone
BY DEF Types

\* What a handler at work does not change of its call.
Follows(d, c) == d \in Proper /\ d.pc # "idle" /\ d.op = c.op /\ d.alone = c.alone

LEMMA CallWorksOn ==
  ASSUME NEW c \in Proper, AtWork(c), NEW stage \in Stages \ {"idle", "ended"}
  PROVE  /\ Follows([c EXCEPT !.pc = stage], c)
         /\ \A b \in BOOLEAN : Follows([c EXCEPT !.pc = stage, !.default = b], c)
         /\ \A set \in SUBSET Names : Follows([c EXCEPT !.seen = set, !.pc = stage], c)
         /\ \A name \in Names : Follows([c EXCEPT !.name = name, !.pc = stage], c)
         /\ \A e \in Nat : Follows([c EXCEPT !.pc = stage, !.expiresAt = e], c)
         /\ \A b \in BOOLEAN : Follows([c EXCEPT !.expired = b, !.pc = stage, !.outcome = "none"], c)
<1> USE DEF Follows, Proper, Calls, AtWork, Stages
<1>1. Follows([c EXCEPT !.pc = stage], c) OBVIOUS
<1>2. \A b \in BOOLEAN : Follows([c EXCEPT !.pc = stage, !.default = b], c) OBVIOUS
<1>3. \A set \in SUBSET Names : Follows([c EXCEPT !.seen = set, !.pc = stage], c) OBVIOUS
<1>4. \A name \in Names : Follows([c EXCEPT !.name = name, !.pc = stage], c) OBVIOUS
<1>5. \A e \in Nat : Follows([c EXCEPT !.pc = stage, !.expiresAt = e], c) OBVIOUS
<1>6. \A b \in BOOLEAN : Follows([c EXCEPT !.expired = b, !.pc = stage, !.outcome = "none"], c) OBVIOUS
<1> QED BY <1>1, <1>2, <1>3, <1>4, <1>5, <1>6

LEMMA CallEnds ==
  ASSUME NEW c \in Proper, NEW out \in Outcomes, NEW b \in BOOLEAN
  PROVE  /\ Follows([c EXCEPT !.pc = "ended", !.outcome = out], c)
         /\ Follows([c EXCEPT !.expired = b, !.pc = "ended", !.outcome = out], c)
         /\ Follows([c EXCEPT !.pc = "ended", !.outcome = out, !.expired = b], c)
<1> USE DEF Follows, Proper, Calls, AtWork, Stages
<1>1. Follows([c EXCEPT !.pc = "ended", !.outcome = out], c) OBVIOUS
<1>2. Follows([c EXCEPT !.expired = b, !.pc = "ended", !.outcome = out], c) OBVIOUS
<1>3. Follows([c EXCEPT !.pc = "ended", !.outcome = out, !.expired = b], c) OBVIOUS
<1> QED BY <1>1, <1>2, <1>3

LEMMA EndFollows ==
  ASSUME Types, NEW r \in Handlers, NEW out \in Outcomes, End(r, out)
  PROVE  \E d \in Proper : Follows(d, handler[r]) /\ handler' = [handler EXCEPT ![r] = d]
<1> DEFINE d == [handler[r] EXCEPT !.pc = "ended", !.outcome = out]
<1>1. Follows(d, handler[r])
  BY CallEnds DEF Types
<1>2. handler' = [handler EXCEPT ![r] = d]
  BY DEF End, Types
<1> QED BY <1>1, <1>2 DEF Follows

\* A handler at work moves itself only.
LEMMA ContinueMoves ==
  ASSUME Types, NEW r \in Handlers, Continue(r)
  PROVE  /\ AtWork(handler[r])
         /\ \E d \in Proper : Follows(d, handler[r]) /\ handler' = [handler EXCEPT ![r] = d]
         /\ now' = now
<1> DEFINE c == handler[r]
<1>0. AtWork(c) /\ c \in Proper /\ now' = now
  BY DEF Continue, Look, Save, ReadAll, Commit, Flag, Remove, Promote, Fetch, Exchange, Persist,
         StoreFails, Busy, AtWork, Types
<1>e. \A out \in Outcomes : End(r, out) => 
        \E d \in Proper : Follows(d, c) /\ handler' = [handler EXCEPT ![r] = d]
  BY EndFollows
<1>g. \A stage \in Stages \ {"idle", "ended"} : Goto(r, stage) =>
        \E d \in Proper : Follows(d, c) /\ handler' = [handler EXCEPT ![r] = d]
  <2> SUFFICES ASSUME NEW stage \in Stages \ {"idle", "ended"}, Goto(r, stage)
               PROVE  \E d \in Proper : Follows(d, c) /\ handler' = [handler EXCEPT ![r] = d]
    OBVIOUS
  <2>1. handler' = [handler EXCEPT ![r] = [c EXCEPT !.pc = stage]]
    BY DEF Goto, Types
  <2>2. Follows([c EXCEPT !.pc = stage], c)
    BY <1>0, CallWorksOn
  <2> QED BY <2>1, <2>2 DEF Follows
<1>1. CASE Look(r)
  <2>1. handler' = [handler EXCEPT ![r] = [c EXCEPT !.pc = "saving", !.default = (Defaults = {})]]
    BY <1>1 DEF Look, Types
  <2>2. \A b \in BOOLEAN : Follows([c EXCEPT !.pc = "saving", !.default = b], c)
    BY <1>0, CallWorksOn DEF Stages
  <2>3. (Defaults = {}) \in BOOLEAN
    OBVIOUS
  <2> QED BY <1>0, <2>1, <2>2, <2>3 DEF Follows
<1>2. CASE Save(r)
  BY <1>0, <1>2, <1>e DEF Save, Outcomes
<1>3. CASE ReadAll(r)
  <2> DEFINE stage == IF Present = {} THEN Cleared(r) ELSE "batching"
  <2>1. handler' = [handler EXCEPT ![r] = [c EXCEPT !.seen = Present, !.pc = stage]]
    BY <1>3 DEF ReadAll, Types
  <2>2. stage \in Stages \ {"idle", "ended"} /\ Present \in SUBSET Names
    BY DEF Stages, Cleared, Present
  <2>3. Follows([c EXCEPT !.seen = Present, !.pc = stage], c)
    BY <1>0, <2>2, CallWorksOn
  <2> QED BY <1>0, <2>1, <2>3 DEF Follows
<1>4. CASE Commit(r)
  <2>1. Cleared(r) \in Stages /\ Cleared(r) \notin {"idle", "ended"}
    BY DEF Stages, Cleared
  <2>2. CASE End(r, "failed")
    BY <1>0, <1>e, <2>2 DEF Outcomes
  <2>3. CASE Goto(r, Cleared(r))
    BY <1>0, <1>g, <2>1, <2>3
  <2> QED BY <1>4, <2>2, <2>3 DEF Commit
<1>5. CASE Flag(r)
  BY <1>0, <1>5, <1>e DEF Flag, Outcomes
<1>6. CASE Remove(r)
  BY <1>0, <1>6, <1>e, <1>g DEF Remove, Outcomes, Stages
<1>7. CASE Promote(r)
  <2>1. CASE End(r, "done")
    BY <1>0, <1>e, <2>1 DEF Outcomes
  <2>2. ASSUME NEW n \in Present,
               handler' = [handler EXCEPT ![r].name = n, ![r].pc = "flagging"]
        PROVE  \E d \in Proper : Follows(d, c) /\ handler' = [handler EXCEPT ![r] = d]
    <3>1. handler' = [handler EXCEPT ![r] = [c EXCEPT !.name = n, !.pc = "flagging"]]
      BY <2>2 DEF Types
    <3>2. Follows([c EXCEPT !.name = n, !.pc = "flagging"], c)
      BY <1>0, CallWorksOn DEF Stages, Present
    <3> QED BY <3>1, <3>2 DEF Follows
  <2> QED BY <1>0, <1>7, <2>1, <2>2 DEF Promote
<1>8. CASE Fetch(r)
  <2> DEFINE doc == tokens[c.name]
             due == doc.kind = "user" /\ doc.expiresAt - now < RefreshThreshold
             late == doc.kind = "user" /\ doc.expiresAt <= now
             d == IF due /\ OAuthConfigured
                  THEN [c EXCEPT !.expired = late, !.pc = "exchanging", !.outcome = "none"]
                  ELSE [c EXCEPT !.expired = late, !.pc = "ended", !.outcome = "used"]
  <2>1. CASE End(r, "failed")
    BY <1>0, <1>e, <2>1 DEF Outcomes
  <2>2. CASE handler' = [handler EXCEPT
                ![r].expired = late,
                ![r].pc = IF due /\ OAuthConfigured THEN "exchanging" ELSE "ended",
                ![r].outcome = IF due /\ OAuthConfigured THEN "none" ELSE "used"]
    <3>1. handler' = [handler EXCEPT ![r] = d]
      BY <2>2 DEF Types
    <3>2. late \in BOOLEAN
      OBVIOUS
    <3>3. \A b \in BOOLEAN :
            Follows([c EXCEPT !.expired = b, !.pc = "exchanging", !.outcome = "none"], c)
      BY <1>0, CallWorksOn DEF Stages
    <3>4. \A b \in BOOLEAN :
            Follows([c EXCEPT !.expired = b, !.pc = "ended", !.outcome = "used"], c)
      BY <1>0, CallEnds DEF Outcomes
    <3>5. Follows(d, c)
      BY <3>2, <3>3, <3>4
    <3> QED BY <1>0, <3>1, <3>5 DEF Follows
  <2> QED BY <1>8, <2>1, <2>2 DEF Fetch
<1>9. CASE Exchange(r)
  <2>1. CASE handler' = [handler EXCEPT ![r].pc = "persisting", ![r].expiresAt = now + Lifetime]
    <3>1. handler' = [handler EXCEPT ![r] = [c EXCEPT !.pc = "persisting",
                                                      !.expiresAt = now + Lifetime]]
      BY <2>1 DEF Types
    <3>2. now + Lifetime \in Nat
      BY RepositoryAssumption DEF Types
    <3>3. Follows([c EXCEPT !.pc = "persisting", !.expiresAt = now + Lifetime], c)
      BY <1>0, <3>2, CallWorksOn DEF Stages
    <3> QED BY <1>0, <3>1, <3>3 DEF Follows
  <2>2. CASE FallBack(r)
    BY <1>0, <1>e, <2>2 DEF FallBack, Outcomes
  <2> QED BY <1>9, <2>1, <2>2 DEF Exchange
<1>10. CASE Persist(r)
  <2>1. CASE handler' = [handler EXCEPT ![r].pc = "ended", ![r].outcome = "used",
                                        ![r].expired = FALSE]
    <3>1. handler' = [handler EXCEPT ![r] = [c EXCEPT !.pc = "ended", !.outcome = "used",
                                                      !.expired = FALSE]]
      BY <2>1 DEF Types
    <3>2. Follows([c EXCEPT !.pc = "ended", !.outcome = "used", !.expired = FALSE], c)
      BY <1>0, CallEnds DEF Outcomes
    <3> QED BY <1>0, <3>1, <3>2 DEF Follows
  <2>2. CASE FallBack(r)
    BY <1>0, <1>e, <2>2 DEF FallBack, Outcomes
  <2> QED BY <1>10, <2>1, <2>2 DEF Persist
<1>11. CASE StoreFails(r)
  BY <1>0, <1>11, <1>e DEF StoreFails, Outcomes
<1> QED BY <1>1, <1>2, <1>3, <1>4, <1>5, <1>6, <1>7, <1>8, <1>9, <1>10, <1>11 DEF Continue

-----------------------------------------------------------------------------

\* The documents stay documents, and one appears only by a save of its name.
LEMMA ContinueWrites ==
  ASSUME Types, NEW r \in Handlers, Continue(r)
  PROVE  /\ tokens' \in [Names -> Doc]
         /\ \A n \in Names :
              n \notin Present /\ n \in Present' =>
                handler[r].name = n /\ handler[r].pc = "saving" /\ handler'[r].pc = "ended"
<1> DEFINE name == handler[r].name
<1>0. handler[r] \in Proper /\ (AtWork(handler[r]) => name \in Names)
  BY DEF Types, Proper
<1>1. CASE Save(r)
  <2>1. name \in Names /\ handler[r].expiresAt \in Nat /\ handler[r].default \in BOOLEAN
    BY <1>0, <1>1 DEF Save, AtWork, Proper, Calls
  <2>2. /\ tokens' \in [Names -> Doc]
        /\ \A n \in Names \ {name} : tokens'[n] = tokens[n]
    BY <1>1, <2>1 DEF Save, Types, Doc
  <2>3. handler[r].pc = "saving" /\ handler'[r].pc = "ended"
    <3>1. PICK out \in Outcomes : End(r, out)
      BY <1>1 DEF Save, Outcomes
    <3>2. handler' = [handler EXCEPT ![r] = [handler[r] EXCEPT !.pc = "ended", !.outcome = out]]
      BY <3>1 DEF End, Types
    <3> QED BY <1>0, <1>1, <3>2 DEF Save, Types, Proper, Calls
  <2> QED BY <2>2, <2>3 DEF Present
<1>2. CASE Commit(r)
  <2>1. CASE UNCHANGED tokens
    BY <2>1 DEF Present, Types
  <2>2. CASE tokens' = [n \in Names |->
                          IF n \in handler[r].seen THEN [tokens[n] EXCEPT !.isDefault = FALSE]
                          ELSE tokens[n]]
    <3>1. \A n \in Names : tokens'[n] \in Doc /\ tokens'[n].kind = tokens[n].kind
      BY <2>2, DocUpdates DEF Types
    <3>2. tokens' \in [Names -> Doc]
      BY <2>2, <3>1
    <3> QED BY <3>1, <3>2 DEF Present
  <2> QED BY <1>2, <2>1, <2>2 DEF Commit
<1>3. CASE Flag(r)
  <2>1. CASE UNCHANGED tokens
    BY <2>1 DEF Present, Types
  <2>2. CASE name \in Present /\ tokens' = [tokens EXCEPT ![name].isDefault = TRUE]
    <3>1. tokens' = [tokens EXCEPT ![name] = [tokens[name] EXCEPT !.isDefault = TRUE]]
      BY <2>2 DEF Types
    <3>2. /\ [tokens[name] EXCEPT !.isDefault = TRUE] \in Doc
          /\ [tokens[name] EXCEPT !.isDefault = TRUE].kind = tokens[name].kind
      BY <2>2, DocUpdates DEF Types, Present
    <3> QED BY <2>2, <3>1, <3>2 DEF Present, Types
  <2> QED BY <1>3, <2>1, <2>2 DEF Flag
<1>4. CASE Remove(r)
  <2>1. name \in Names /\ tokens' = [tokens EXCEPT ![name] = NoDoc]
    BY <1>0, <1>4 DEF Remove, AtWork
  <2>2. NoDoc \in Doc /\ NoDoc.kind = "absent"
    BY DEF NoDoc, Doc
  <2> QED BY <2>1, <2>2 DEF Present, Types
<1>5. CASE Persist(r)
  <2>1. CASE UNCHANGED tokens
    BY <2>1 DEF Present, Types
  <2>2. CASE name \in Present /\ tokens' = Refreshed(r)
    <3>1. handler[r].expiresAt \in Nat
      BY <1>0 DEF Proper, Calls
    <3>2. tokens' = [tokens EXCEPT ![name] = [tokens[name] EXCEPT !.expiresAt = handler[r].expiresAt]]
      BY <2>2 DEF Refreshed, Types
    <3>3. /\ [tokens[name] EXCEPT !.expiresAt = handler[r].expiresAt] \in Doc
          /\ [tokens[name] EXCEPT !.expiresAt = handler[r].expiresAt].kind = tokens[name].kind
      BY <2>2, <3>1, DocUpdates DEF Types, Present
    <3> QED BY <2>2, <3>2, <3>3 DEF Present, Types
  <2> QED BY <1>5, <2>1, <2>2 DEF Persist
<1>6. CASE UNCHANGED tokens
  BY <1>6 DEF Present, Types
<1> QED BY <1>1, <1>2, <1>3, <1>4, <1>5, <1>6
       DEF Continue, Look, ReadAll, Promote, Fetch, Exchange, StoreFails

\* Every way to begin a call.
Begins(r) ==
  \/ SignIn(r) \/ Use(r)
  \/ \E n \in Names : Register(r, n) \/ Activate(r, n) \/ Delete(r, n)

LEMMA CallBegins ==
  ASSUME Types, NEW r \in Handlers, Begins(r)
  PROVE  \E call \in Proper :
           Begin(r, call) /\ (call.op = "activate" => call.pc \in {"clearing", "ended"})
<1>1. CASE SignIn(r)
  <2> DEFINE call == [Call("signIn", Personal, IF Defaults = {} THEN "clearing" ELSE "looking")
                        EXCEPT !.expiresAt = now + Lifetime, !.default = (Defaults = {})]
  <2>1. Personal \in Names /\ now + Lifetime \in Nat
    BY RepositoryAssumption DEF Types
  <2>2. \A b \in BOOLEAN : \A stage \in {"clearing", "looking"} :
          LET d == [Call("signIn", Personal, stage) EXCEPT !.expiresAt = now + Lifetime, !.default = b]
          IN  d \in Proper /\ d.op = "signIn"
    BY <2>1 DEF Call, NotCalled, Proper, Calls, Ops, AtWork, Stages, Outcomes
  <2>3. call \in Proper /\ call.op = "signIn"
    BY <2>2
  <2> QED BY <1>1, <2>3 DEF SignIn
<1>2. CASE Use(r)
  <2>1. CASE Begin(r, NotFound("use", NoName))
    BY <2>1, NotFoundIsProper DEF Ops
  <2>2. ASSUME NEW n \in Defaults, Begin(r, Call("use", n, "fetching"))
        PROVE  \E call \in Proper :
                 Begin(r, call) /\ (call.op = "activate" => call.pc \in {"clearing", "ended"})
    <3>1. Call("use", n, "fetching") \in Proper /\ Call("use", n, "fetching").op = "use"
      BY CallIsProper DEF Defaults, Present, Ops, Stages
    <3> QED BY <2>2, <3>1
  <2> QED BY <1>2, <2>1, <2>2 DEF Use
<1>3. ASSUME NEW n \in Names, Register(r, n)
      PROVE  \E call \in Proper :
               Begin(r, call) /\ (call.op = "activate" => call.pc \in {"clearing", "ended"})
  <2>1. \A b \in BOOLEAN :
          LET d == [Call("register", n, "saving") EXCEPT !.default = b]
          IN  d \in Proper /\ d.op = "register"
    BY DEF Call, NotCalled, Proper, Calls, Ops, AtWork, Stages, Outcomes
  <2> QED BY <1>3, <2>1 DEF Register
<1>4. ASSUME NEW n \in Names, Activate(r, n)
      PROVE  \E call \in Proper :
               Begin(r, call) /\ (call.op = "activate" => call.pc \in {"clearing", "ended"})
  <2>1. /\ Call("activate", n, "clearing") \in Proper
        /\ Call("activate", n, "clearing").pc = "clearing"
    BY CallIsProper DEF Ops, Stages
  <2>2. NotFound("activate", n) \in Proper /\ NotFound("activate", n).pc = "ended"
    BY NotFoundIsProper DEF Ops
  <2> QED BY <1>4, <2>1, <2>2 DEF Activate
<1>5. ASSUME NEW n \in Names, Delete(r, n)
      PROVE  \E call \in Proper :
               Begin(r, call) /\ (call.op = "activate" => call.pc \in {"clearing", "ended"})
  <2>1. \A b \in BOOLEAN :
          LET d == [Call("delete", n, "deleting") EXCEPT !.default = b]
          IN  d \in Proper /\ d.op = "delete"
    BY DEF Call, NotCalled, Proper, Calls, Ops, AtWork, Stages, Outcomes
  <2>2. CASE Begin(r, NotFound("delete", n))
    BY <2>2, NotFoundIsProper DEF Ops
  <2>3. CASE n \in Present /\ Begin(r, [Call("delete", n, "deleting")
                                          EXCEPT !.default = tokens[n].isDefault])
    <3>1. tokens[n].isDefault \in BOOLEAN
      BY DEF Types, Doc
    <3> QED BY <2>1, <2>3, <3>1
  <2> QED BY <1>5, <2>2, <2>3 DEF Delete
<1> QED BY <1>1, <1>2, <1>3, <1>4, <1>5 DEF Begins

-----------------------------------------------------------------------------

LEMMA InitTyped == Init => Types
<1> SUFFICES ASSUME Init PROVE Types
  OBVIOUS
<1>1. now \in Nat
  BY DEF Init, ClockInit
<1>2. tokens \in [Names -> Doc]
  <2>1. NoDoc \in Doc /\ 1..Lifetime \subseteq Nat
    BY RepositoryAssumption DEF NoDoc, Doc
  <2>2. /\ [kind : {"user"}, expiresAt : 1..Lifetime, isDefault : BOOLEAN] \subseteq Doc
        /\ [kind : {"system_user"}, expiresAt : {0}, isDefault : BOOLEAN] \subseteq Doc
    BY <2>1 DEF Doc
  <2> QED BY <2>1, <2>2 DEF Init
<1>3. NotCalled \in Proper
  BY DEF NotCalled, Proper, Calls, Ops, AtWork, Stages, Outcomes
<1> QED BY <1>1, <1>2, <1>3 DEF Init, Types

LEMMA NextCases ==
  Next => TimePasses \/ \E r \in Handlers : Begins(r) \/ Continue(r)
BY DEF Next, Begins, Continue

LEMMA StepTyped == Types /\ [Next]_vars => Types'
<1> SUFFICES ASSUME Types, [Next]_vars PROVE Types'
  OBVIOUS
<1>1. CASE UNCHANGED vars
  BY <1>1 DEF vars, Types
<1>2. CASE TimePasses
  BY <1>2 DEF TimePasses, Tick, Types
<1>3. ASSUME NEW r \in Handlers, Begins(r) PROVE Types'
  BY <1>3, CallBegins, BeginTyped
<1>4. ASSUME NEW r \in Handlers, Continue(r) PROVE Types'
  BY <1>4, ContinueMoves, ContinueWrites DEF Types
<1> QED BY <1>1, <1>2, <1>3, <1>4, NextCases

\* The documents and the calls keep their types, and a call at work is about a token
\* (meta-token-repo.ts:55-67), for any number of names and handlers.
THEOREM RepositoryTyped == Spec => []TypeOK
<1>1. Types => TypeOK
  BY DEF Types, TypeOK, Proper, Calls, Ops, AtWork, Busy
<1> QED BY <1>1, InitTyped, StepTyped, PTL DEF Spec

\* A token that is not there appears by a save of that name and by nothing else
\* (tokens.ts:238), whatever was under way when it was deleted.
THEOREM Deleted == Spec => DeletedStaysDeleted
<1> DEFINE Appears == \A n \in Names :
                        n \notin Present /\ n \in Present' =>
                          \E r \in Handlers : handler[r].name = n /\ handler[r].pc = "saving"
                                                /\ handler'[r].pc = "ended"
<1>1. Types /\ [Next]_vars => [Appears]_vars
  <2> SUFFICES ASSUME Types, [Next]_vars PROVE Appears
    OBVIOUS
  <2>1. CASE UNCHANGED tokens
    BY <2>1 DEF Present
  <2>2. ASSUME NEW r \in Handlers, Continue(r) PROVE Appears
    BY <2>2, ContinueWrites
  <2>3. ASSUME NEW r \in Handlers, Begins(r) PROVE UNCHANGED tokens
    BY <2>3, CallBegins DEF Begin
  <2> QED BY <2>1, <2>2, <2>3, NextCases DEF TimePasses, vars
<1> QED BY <1>1, InitTyped, StepTyped, PTL DEF Spec, DeletedStaysDeleted

-----------------------------------------------------------------------------

\* A switch of the active token that runs alone has read every document there is when
\* it clears them, and left no default when it sets its own.
SwitchStage(r) ==
  /\ handler[r].pc \in {"clearing", "batching", "flagging"}
  /\ handler[r].pc = "batching" => handler[r].seen = Present
  /\ handler[r].pc = "flagging" => Defaults = {}

Alone(r) == AtWork(handler[r]) /\ handler[r].alone

SwitchInv ==
  /\ Types
  /\ \A r, q \in Handlers : r # q /\ Alone(r) => ~ AtWork(handler[q])
  /\ \A r \in Handlers : Alone(r) /\ handler[r].op = "activate" => SwitchStage(r)

\* One step of a switch that runs alone.
LEMMA SwitchSteps ==
  ASSUME SwitchInv, NEW r \in Handlers, Alone(r), handler[r].op = "activate", Continue(r)
  PROVE  /\ AtWork(handler'[r]) => SwitchStage(r)'
         /\ handler'[r].outcome = "done" => Defaults' = {handler[r].name}
<1> DEFINE c == handler[r]
<1>0. Types /\ SwitchStage(r) /\ c \in Proper /\ c \in Calls
  BY DEF SwitchInv, Types, Proper
<1>f. End(r, "failed") => handler'[r].pc = "ended" /\ handler'[r].outcome = "failed"
  <2>1. End(r, "failed") => handler'[r] = [c EXCEPT !.pc = "ended", !.outcome = "failed"]
    BY <1>0 DEF End, Types
  <2> QED BY <1>0, <2>1 DEF Calls
<1>1. CASE ReadAll(r)
  <2>1. handler'[r] = [c EXCEPT !.seen = Present,
                                !.pc = IF Present = {} THEN Cleared(r) ELSE "batching"]
    BY <1>0, <1>1 DEF ReadAll, Types
  <2>2. Cleared(r) = "flagging"
    BY DEF Cleared
  <2>3. Present' = Present /\ Defaults' = Defaults /\ (Present = {} => Defaults = {})
    BY <1>1 DEF ReadAll, Present, Defaults
  <2>4. handler'[r].outcome = "none"
    BY <1>0, <1>1, <2>1 DEF ReadAll, Calls, Proper, AtWork
  <2>5. CASE Present = {}
    <3>1. handler'[r].pc = "flagging"
      BY <1>0, <2>1, <2>2, <2>5 DEF Calls
    <3> QED BY <2>3, <2>4, <2>5, <3>1 DEF SwitchStage
  <2>6. CASE Present # {}
    <3>1. handler'[r].pc = "batching" /\ handler'[r].seen = Present
      BY <1>0, <2>1, <2>6 DEF Calls
    <3> QED BY <2>3, <2>4, <3>1 DEF SwitchStage
  <2> QED BY <2>5, <2>6
<1>2. CASE Commit(r)
  <2>1. c.seen = Present /\ c.pc = "batching"
    BY <1>0, <1>2 DEF Commit, SwitchStage
  <2>2. /\ Goto(r, "flagging")
        /\ tokens' = [n \in Names |->
                        IF n \in Present THEN [tokens[n] EXCEPT !.isDefault = FALSE]
                        ELSE tokens[n]]
    BY <1>2, <2>1 DEF Commit, Cleared
  <2>3. \A n \in Present : tokens'[n].isDefault = FALSE
    BY <1>0, <2>2, DocUpdates DEF Types, Present
  <2>4. \A n \in Names \ Present : tokens'[n].kind = "absent"
    BY <2>2 DEF Present
  <2>5. Defaults' = {}
    BY <2>3, <2>4 DEF Defaults, Present
  <2>6. handler'[r] = [c EXCEPT !.pc = "flagging"]
    BY <1>0, <2>2 DEF Goto, Types
  <2> QED BY <1>0, <2>1, <2>5, <2>6 DEF SwitchStage, Calls, Proper, AtWork
<1>3. CASE Flag(r)
  <2>0. c.name \in Names /\ Defaults = {}
    BY <1>0, <1>3 DEF Flag, SwitchStage, Proper, AtWork
  <2>1. CASE c.name \in Present /\ tokens' = [tokens EXCEPT ![c.name].isDefault = TRUE]
    <3>1. tokens' = [tokens EXCEPT ![c.name] = [tokens[c.name] EXCEPT !.isDefault = TRUE]]
      BY <1>0, <2>1 DEF Types
    <3>2. /\ [tokens[c.name] EXCEPT !.isDefault = TRUE].isDefault
          /\ [tokens[c.name] EXCEPT !.isDefault = TRUE].kind = tokens[c.name].kind
      BY <1>0, <2>0, DocUpdates DEF Types
    <3>3. \A n \in Names \ {c.name} : tokens'[n] = tokens[n]
      BY <1>0, <3>1 DEF Types
    <3>4. Defaults' = {c.name}
      BY <1>0, <2>0, <2>1, <3>1, <3>2, <3>3 DEF Defaults, Present, Types
    <3>5. handler'[r].pc = "ended"
      <4>1. PICK out \in Outcomes : End(r, out)
        BY <1>3 DEF Flag, Outcomes
      <4>2. handler'[r] = [c EXCEPT !.pc = "ended", !.outcome = out]
        BY <1>0, <4>1 DEF End, Types
      <4> QED BY <1>0, <4>2 DEF Calls
    <3> QED BY <3>4, <3>5 DEF AtWork
  <2>2. CASE End(r, "failed")
    BY <1>f, <2>2 DEF AtWork
  <2> QED BY <1>3, <2>1, <2>2 DEF Flag
<1>4. CASE StoreFails(r)
  BY <1>f, <1>4 DEF StoreFails, AtWork
<1> QED BY <1>0, <1>1, <1>2, <1>3, <1>4 
       DEF Continue, SwitchStage, Look, Save, Remove, Promote, Fetch, Exchange, Persist

\* A call that begins leaves no handler at work that runs alone, but itself perhaps.
LEMMA BeginAlone ==
  ASSUME Types, NEW r \in Handlers, NEW call \in Proper, Begin(r, call)
  PROVE  /\ \A q \in Handlers \ {r} :
              /\ handler'[q].pc = handler[q].pc /\ handler'[q].outcome = handler[q].outcome
              /\ ~ Alone(q)'
         /\ handler'[r].pc = call.pc /\ handler'[r].op = call.op
         /\ handler'[r].alone => \A q \in Handlers : ~ AtWork(handler[q])
BY DEF Begin, Types, Proper, Calls, Alone, AtWork, Busy

LEMMA StepSwitch == SwitchInv /\ [Next]_vars => SwitchInv'
<1> SUFFICES ASSUME SwitchInv, [Next]_vars PROVE SwitchInv'
  OBVIOUS
<1>0. Types /\ Types'
  BY StepTyped DEF SwitchInv
<1>1. CASE UNCHANGED <<tokens, handler>>
  BY <1>0, <1>1 DEF SwitchInv, Alone, AtWork, SwitchStage, Present, Defaults
<1>2. ASSUME NEW r \in Handlers, Begins(r) PROVE SwitchInv'
  <2>1. PICK call \in Proper :
          Begin(r, call) /\ (call.op = "activate" => call.pc \in {"clearing", "ended"})
    BY <1>0, <1>2, CallBegins
  <2>2. \A q \in Handlers \ {r} : ~ Alone(q)' /\ (AtWork(handler[q]) <=> AtWork(handler'[q]))
    BY <1>0, <2>1, BeginAlone DEF AtWork
  <2>3. Alone(r)' => \A q \in Handlers \ {r} : ~ AtWork(handler'[q])
    BY <1>0, <2>1, <2>2, BeginAlone DEF Alone
  <2>4. Alone(r)' /\ handler'[r].op = "activate" => SwitchStage(r)'
    BY <1>0, <2>1, BeginAlone DEF Alone, AtWork, SwitchStage
  <2> QED BY <1>0, <2>2, <2>3, <2>4 DEF SwitchInv
<1>3. ASSUME NEW r \in Handlers, Continue(r) PROVE SwitchInv'
  <2>1. PICK d \in Proper : Follows(d, handler[r]) /\ handler' = [handler EXCEPT ![r] = d]
    BY <1>0, <1>3, ContinueMoves
  <2>2. /\ AtWork(handler[r])
        /\ \A q \in Handlers \ {r} : handler'[q] = handler[q]
        /\ handler'[r].op = handler[r].op /\ handler'[r].alone = handler[r].alone
    BY <1>0, <1>3, <2>1, ContinueMoves, HandlerUpdate DEF Follows
  <2>3. \A q \in Handlers \ {r} : ~ Alone(q)'
    BY <2>2 DEF SwitchInv, Alone
  <2>4. Alone(r)' => Alone(r) /\ \A q \in Handlers \ {r} : ~ AtWork(handler'[q])
    BY <2>2 DEF SwitchInv, Alone
  <2>5. Alone(r)' /\ handler'[r].op = "activate" => SwitchStage(r)'
    BY <1>3, <2>2, <2>4, SwitchSteps DEF Alone
  <2> QED BY <1>0, <2>3, <2>4, <2>5 DEF SwitchInv
<1> QED BY <1>1, <1>2, <1>3, NextCases DEF TimePasses, vars

\* A switch of the active token that nothing ran beside leaves that token the default
\* and no other (tokens.ts:95), for any number of tokens and whatever overlapping or
\* failed calls left before it.
THEOREM Switch == Spec => SwitchIsExact
<1> DEFINE Exact == \A r \in Handlers :
                      handler[r].op = "activate" /\ Busy(r) /\ handler[r].alone
                        /\ handler'[r].outcome = "done"
                        => Defaults' = {handler[r].name}
<1>1. Init => SwitchInv
  BY InitTyped DEF Init, SwitchInv, Alone, AtWork, NotCalled
<1>2. SwitchInv /\ [Next]_vars => [Exact]_vars
  <2> SUFFICES ASSUME SwitchInv, [Next]_vars, NEW r \in Handlers,
                      handler[r].op = "activate", Alone(r), handler'[r].outcome = "done"
               PROVE  Defaults' = {handler[r].name}
    BY DEF Alone, AtWork, Busy
  <2>0. Types /\ handler[r].outcome = "none"
    BY DEF SwitchInv, Types, Proper, Alone
  <2>1. CASE UNCHANGED handler
    BY <2>0, <2>1
  <2>2. ASSUME NEW q \in Handlers, Begins(q) PROVE FALSE
    <3>1. PICK call \in Proper : Begin(q, call)
      BY <2>0, <2>2, CallBegins
    <3>2. q # r
      BY <3>1 DEF Begin, Alone, AtWork
    <3> QED BY <2>0, <3>1, <3>2, BeginAlone
  <2>3. ASSUME NEW q \in Handlers, Continue(q) PROVE q = r
    BY <2>0, <2>3, ContinueMoves DEF SwitchInv
  <2>4. CASE Continue(r)
    BY <2>4, SwitchSteps
  <2> QED BY <2>1, <2>2, <2>3, <2>4, NextCases DEF TimePasses, vars
<1> QED BY <1>1, <1>2, StepSwitch, PTL DEF Spec, SwitchIsExact

-----------------------------------------------------------------------------

\* What has been used had not expired when it was read.
GoodToUse(c) == OAuthConfigured /\ c.outcome = "used" => ~ c.expired

\* A call that begins has used nothing, and changes nothing of the others but that they
\* are no longer alone.
LEMMA BeginsAfresh ==
  ASSUME Types, NEW r \in Handlers, Begins(r)
  PROVE  /\ handler[r].pc = "idle" /\ UNCHANGED tokens
         /\ handler'[r].outcome \in {"none", "not found"}
         /\ handler'[r].alone = ~ \E p \in Handlers : Busy(p)
         /\ \A q \in Handlers \ {r} :
              /\ handler'[q].pc = handler[q].pc /\ handler'[q].outcome = handler[q].outcome
              /\ handler'[q].expired = handler[q].expired
              /\ handler'[q].alone = (handler[q].alone /\ ~ Busy(q))
<1>1. \E call \in Calls : Begin(r, call) /\ call.outcome \in {"none", "not found"}
  <2>1. PICK call \in Proper : Begin(r, call) BY CallBegins
  <2>2. handler'[r].outcome \in {"none", "not found"}
    <3>1. CASE SignIn(r) BY <3>1 DEF SignIn, Begin, Call, NotCalled
    <3>2. CASE Use(r) BY <3>2 DEF Use, Begin, NotFound, Call, NotCalled
    <3>3. ASSUME NEW n \in Names, Register(r, n) PROVE handler'[r].outcome \in {"none", "not found"}
      BY <3>3 DEF Register, Begin, Call, NotCalled
    <3>4. ASSUME NEW n \in Names, Activate(r, n) PROVE handler'[r].outcome \in {"none", "not found"}
      BY <3>4 DEF Activate, Begin, NotFound, Call, NotCalled
    <3>5. ASSUME NEW n \in Names, Delete(r, n) PROVE handler'[r].outcome \in {"none", "not found"}
      BY <3>5 DEF Delete, Begin, NotFound, Call, NotCalled
    <3> QED BY <3>1, <3>2, <3>3, <3>4, <3>5 DEF Begins
  <2>3. handler'[r].outcome = call.outcome BY <2>1 DEF Begin, Proper, Calls
  <2> QED BY <2>1, <2>2, <2>3 DEF Proper
<1>2. PICK call \in Calls : Begin(r, call) /\ call.outcome \in {"none", "not found"} BY <1>1
<1>3. \A q \in Handlers : handler[q] \in Calls BY DEF Types, Proper
<1>4. handler'[r] = [call EXCEPT !.alone = ~ \E p \in Handlers : Busy(p)] BY <1>2 DEF Begin
<1>5. \A q \in Handlers \ {r} : handler'[q] = [handler[q] EXCEPT !.alone = @ /\ ~ Busy(q)]
  BY <1>2 DEF Begin
<1> QED BY <1>2, <1>3, <1>4, <1>5 DEF Begin, Calls

\* However a call goes on, it uses no token that had expired.
LEMMA UsesGood ==
  ASSUME Types, NEW r \in Handlers, Continue(r)
  PROVE  GoodToUse(handler'[r])
<1> DEFINE c == handler[r]
<1>0. c \in Calls /\ (\E out \in Outcomes : c.outcome = out) BY DEF Types, Proper, Calls
<1>e. \A out \in Outcomes : End(r, out) =>
        handler'[r].outcome = out /\ handler'[r].expired = c.expired
  <2>1. \A out \in Outcomes : End(r, out) =>
          handler'[r] = [c EXCEPT !.pc = "ended", !.outcome = out] BY DEF End, Types
  <2> QED BY <1>0, <2>1 DEF Calls
<1>f. FallBack(r) => GoodToUse(handler'[r]) BY <1>e DEF FallBack, GoodToUse, Outcomes
<1>1. CASE Fetch(r)
  <2> DEFINE doc == tokens[c.name]
             due == doc.kind = "user" /\ doc.expiresAt - now < RefreshThreshold
             late == doc.kind = "user" /\ doc.expiresAt <= now
  <2>1. c.name \in Names /\ doc \in Doc /\ now \in Nat BY <1>1 DEF Fetch, Types
  <2>2. late => due BY <2>1, RepositoryAssumption DEF Doc
  <2>3. CASE doc.kind = "absent"
    BY <1>1, <1>e, <2>3 DEF Fetch, GoodToUse, Outcomes
  <2>4. CASE doc.kind # "absent"
    <3>1. handler'[r] = [c EXCEPT !.expired = late,
                                  !.pc = IF due /\ OAuthConfigured THEN "exchanging" ELSE "ended",
                                  !.outcome = IF due /\ OAuthConfigured THEN "none" ELSE "used"]
      BY <1>1, <2>4 DEF Fetch, Types
    <3> HIDE DEF due, late
    <3>2. /\ handler'[r].expired = late
          /\ handler'[r].outcome = IF due /\ OAuthConfigured THEN "none" ELSE "used"
      BY <1>0, <3>1 DEF Calls
    <3> QED BY <2>2, <3>2 DEF GoodToUse
  <2> QED BY <2>3, <2>4
<1>2. CASE Persist(r)
  <2>1. CASE handler' = [handler EXCEPT ![r].pc = "ended", ![r].outcome = "used", ![r].expired = FALSE]
    <3>1. handler'[r] = [c EXCEPT !.pc = "ended", !.outcome = "used", !.expired = FALSE]
      BY <2>1 DEF Types
    <3> QED BY <1>0, <3>1 DEF Calls, GoodToUse
  <2> QED BY <1>2, <1>f, <2>1 DEF Persist
<1>3. CASE Exchange(r)
  <2>1. CASE handler' = [handler EXCEPT ![r].pc = "persisting", ![r].expiresAt = now + Lifetime]
    <3>1. handler'[r] = [c EXCEPT !.pc = "persisting", !.expiresAt = now + Lifetime]
      BY <2>1 DEF Types
    <3>2. c.outcome = "none" BY <1>3 DEF Exchange, Types, Proper, AtWork
    <3> QED BY <1>0, <3>1, <3>2 DEF Calls, GoodToUse
  <2> QED BY <1>3, <1>f, <2>1 DEF Exchange
<1>4. CASE AtWork(handler'[r])
  <2>1. handler'[r].outcome = "none"
    BY <1>4, ContinueMoves DEF Types, Proper
  <2> QED BY <2>1 DEF GoodToUse
<1>5. CASE \E out \in {"done", "default resaved", "failed"} : End(r, out)
  BY <1>e, <1>5 DEF GoodToUse, Outcomes
<1>6. CASE Look(r) \/ ReadAll(r)
  <2>1. handler'[r].outcome = "none"
    <3>1. c.outcome = "none" BY <1>6 DEF Look, ReadAll, Types, Proper, AtWork
    <3>2. handler'[r].outcome = c.outcome BY <1>0, <1>6 DEF Look, ReadAll, Types, Calls
    <3> QED BY <3>1, <3>2
  <2> QED BY <2>1 DEF GoodToUse
<1>7. CASE Promote(r) \/ Commit(r) \/ Remove(r) \/ Save(r) \/ Flag(r) \/ StoreFails(r)
  <2>1. c.outcome = "none" BY <1>7 DEF Promote, Commit, Remove, Save, Flag, StoreFails, Busy, Types, Proper, AtWork
  <2>2. (\E stage \in Stages : Goto(r, stage)) => handler'[r].outcome = "none"
    BY <1>0, <2>1 DEF Goto, Types, Calls
  <2>3. (\E n \in Present : handler' = [handler EXCEPT ![r].name = n, ![r].pc = "flagging"])
          => handler'[r].outcome = "none"
    BY <1>0, <2>1 DEF Types, Calls
  <2>4. \/ \E out \in {"done", "default resaved", "failed"} : End(r, out)
        \/ \E stage \in Stages : Goto(r, stage)
        \/ \E n \in Present : handler' = [handler EXCEPT ![r].name = n, ![r].pc = "flagging"]
    BY <1>7 DEF Promote, Commit, Remove, Save, Flag, StoreFails, Cleared, Stages
  <2> QED BY <1>5, <2>2, <2>3, <2>4 DEF GoodToUse
<1> QED BY <1>1, <1>2, <1>3, <1>6, <1>7 DEF Continue

\* Where a refresh is possible, no request is given a token that had expired when it was
\* read (meta-token-repo.ts:174-201), whatever the lifetimes and the threshold.
THEOREM NoneExpired == Spec => []ExpiredIsNotUsed
<1> DEFINE AllGood == Types /\ \A r \in Handlers : GoodToUse(handler[r])
<1>1. Init => AllGood BY InitTyped DEF Init, NotCalled, GoodToUse
<1>2. AllGood /\ [Next]_vars => AllGood'
  <2> SUFFICES ASSUME AllGood, [Next]_vars PROVE AllGood' OBVIOUS
  <2>0. Types' BY StepTyped
  <2>1. CASE UNCHANGED handler BY <2>0, <2>1
  <2>2. ASSUME NEW r \in Handlers, Begins(r) PROVE AllGood'
    BY <2>0, <2>2, BeginsAfresh DEF GoodToUse
  <2>3. ASSUME NEW r \in Handlers, Continue(r) PROVE AllGood'
    <3>1. \A q \in Handlers \ {r} : handler'[q] = handler[q] BY <2>3, ContinueMoves DEF Types
    <3> QED BY <2>0, <2>3, <3>1, UsesGood
  <2> QED BY <2>1, <2>2, <2>3, NextCases DEF TimePasses, vars
<1>3. AllGood => ExpiredIsNotUsed BY DEF GoodToUse, ExpiredIsNotUsed
<1> QED BY <1>1, <1>2, <1>3, PTL DEF Spec

-----------------------------------------------------------------------------

\* The calls so far came one after another, and none failed or saved the default again.
Smooth == \A r \in Handlers : handler[r].alone /\ handler[r].outcome \notin {"failed", "default resaved"}

AtMostOne == Defaults = {} \/ \E n \in Names : Defaults = {n}

\* What such a call relies on, at each of its stages.
Relies(r) ==
  LET c == handler[r] IN
  /\ c.pc \notin {"saving", "flagging", "promoting"} => OneDefault
  /\ c.pc = "saving" => AtMostOne /\ (c.default <=> Defaults = {})
  /\ c.pc \in {"flagging", "promoting"} => Defaults = {}
  /\ c.pc \in {"clearing", "batching"} /\ c.op = "signIn" => c.default
  /\ c.pc = "batching" => c.seen = Present
  /\ c.pc = "deleting" => c.name \in Present /\ (c.default <=> tokens[c.name].isDefault)

DefaultInv ==
  /\ SwitchInv
  /\ \A r \in Handlers : handler[r].pc = "idle" => handler[r].alone /\ handler[r].outcome = "none"
  /\ Smooth => /\ Quiet => OneDefault
               /\ \A r \in Handlers : AtWork(handler[r]) => Relies(r)

LEMMA SameDefaults ==
  UNCHANGED tokens => /\ Present' = Present /\ Defaults' = Defaults
                      /\ OneDefault' = OneDefault /\ AtMostOne' = AtMostOne
BY DEF Present, Defaults, OneDefault, AtMostOne

\* Where no call is under way there is one default, and a call that begins relies on it.
LEMMA BeginsRelying ==
  ASSUME Types, NEW r \in Handlers, Begins(r), OneDefault, AtWork(handler'[r])
  PROVE  Relies(r)'
<1> USE DEF Call, NotFound, NotCalled, AtWork
<1>0. /\ Present' = Present /\ Defaults' = Defaults /\ OneDefault' = OneDefault
      /\ UNCHANGED tokens
  BY BeginsAfresh, SameDefaults
<1>1. CASE SignIn(r)
  <2>1. /\ handler'[r].pc = (IF Defaults = {} THEN "clearing" ELSE "looking")
        /\ handler'[r].default = (Defaults = {})
    BY <1>1 DEF SignIn, Begin
  <2> QED BY <1>0, <2>1 DEF Relies
<1>2. CASE Use(r)
  <2>1. handler'[r].pc = "fetching" BY <1>2 DEF Use, Begin
  <2> QED BY <1>0, <2>1 DEF Relies
<1>3. ASSUME NEW n \in Names, Register(r, n) PROVE Relies(r)'
  <2>1. handler'[r].pc = "saving" /\ handler'[r].default = (Defaults = {})
    BY <1>3 DEF Register, Begin
  <2>2. AtMostOne'
    BY <1>0 DEF OneDefault, AtMostOne, Defaults
  <2> QED BY <1>0, <2>1, <2>2 DEF Relies
<1>4. ASSUME NEW n \in Names, Activate(r, n) PROVE Relies(r)'
  <2>1. handler'[r].pc = "clearing" /\ handler'[r].op = "activate"
    BY <1>4 DEF Activate, Begin
  <2> QED BY <1>0, <2>1 DEF Relies
<1>5. ASSUME NEW n \in Names, Delete(r, n) PROVE Relies(r)'
  <2>1. /\ handler'[r].pc = "deleting" /\ n \in Present
        /\ handler'[r].default = tokens[n].isDefault /\ handler'[r].name = n
    BY <1>5 DEF Delete, Begin
  <2> QED BY <1>0, <2>1 DEF Relies
<1> QED BY <1>1, <1>2, <1>3, <1>4, <1>5 DEF Begins

LEMMA EndEnds ==
  ASSUME Types, NEW r \in Handlers, NEW out \in Outcomes, End(r, out)
  PROVE  ~ AtWork(handler'[r]) /\ handler'[r].outcome = out
<1>1. handler'[r] = [handler[r] EXCEPT !.pc = "ended", !.outcome = out] BY DEF End, Types
<1> QED BY <1>1 DEF Types, Proper, Calls, AtWork

LEMMA GotoGoes ==
  ASSUME Types, NEW r \in Handlers, NEW stage \in Stages, Goto(r, stage)
  PROVE  /\ handler'[r].pc = stage
         /\ handler'[r].op = handler[r].op /\ handler'[r].default = handler[r].default
<1>1. handler'[r] = [handler[r] EXCEPT !.pc = stage] BY DEF Goto, Types
<1> QED BY <1>1 DEF Types, Proper, Calls

\* A call on which nothing else intrudes and that does not fail keeps what its next
\* stage relies on, and leaves one default when it ends.
LEMMA ContinueRelying ==
  ASSUME Types, NEW r \in Handlers, Continue(r), Relies(r),
         handler'[r].outcome \notin {"failed", "default resaved"}
  PROVE  IF AtWork(handler'[r]) THEN Relies(r)' ELSE OneDefault'
<1> DEFINE c == handler[r]
           Kept == IF AtWork(handler'[r]) THEN Relies(r)' ELSE OneDefault'
<1>0. c \in Calls /\ AtWork(c) /\ c.name \in Names
  BY ContinueMoves DEF Types, Proper
<1>d. \A n \in Names : tokens[n] \in Doc
  BY DEF Types
<1>f. ~ End(r, "failed") /\ ~ End(r, "default resaved")
  BY EndEnds DEF Outcomes
<1>1. CASE Look(r)
  <2>1. handler'[r] = [c EXCEPT !.pc = "saving", !.default = (Defaults = {})]
    BY <1>1 DEF Look, Types
  <2>2. handler'[r].pc = "saving" /\ handler'[r].default = (Defaults = {})
    BY <1>0, <2>1 DEF Calls
  <2>3. Defaults' = Defaults /\ AtMostOne'
    BY <1>1, SameDefaults DEF Look, Relies, OneDefault, AtMostOne, Defaults
  <2> QED BY <2>2, <2>3 DEF AtWork, Relies
<1>2. CASE Save(r)
  <2>0. AtMostOne /\ (c.default <=> Defaults = {}) /\ c.default \in BOOLEAN
    BY <1>0, <1>2 DEF Save, Relies, Calls
  <2>1. PICK kind \in {"user", "system_user"} :
          tokens' = [tokens EXCEPT ![c.name] =
                      [kind |-> kind, expiresAt |-> c.expiresAt, isDefault |-> c.default]]
    BY <1>2 DEF Save
  <2>2. ~ tokens[c.name].isDefault /\ End(r, "done")
    BY <1>2, <1>f DEF Save
  <2>3. /\ \A n \in Names \ {c.name} : tokens'[n] = tokens[n]
        /\ tokens'[c.name].kind # "absent" /\ tokens'[c.name].isDefault = c.default
    BY <1>0, <2>1 DEF Types
  <2>4. c.name \notin Defaults
    BY <2>2 DEF Defaults
  <2>5. Defaults' = IF c.default THEN {c.name} ELSE Defaults
    BY <1>0, <2>0, <2>3, <2>4 DEF Defaults, Present
  <2>6. OneDefault'
    BY <1>0, <2>0, <2>5 DEF AtMostOne, OneDefault
  <2>7. ~ AtWork(handler'[r])
    BY <2>2, EndEnds DEF Outcomes
  <2> QED BY <2>6, <2>7
<1>3. CASE ReadAll(r)
  <2>1. handler'[r] = [c EXCEPT !.seen = Present,
                                !.pc = IF Present = {} THEN Cleared(r) ELSE "batching"]
    BY <1>3 DEF ReadAll, Types
  <2>2. /\ handler'[r].seen = Present
        /\ handler'[r].pc = (IF Present = {} THEN Cleared(r) ELSE "batching")
        /\ handler'[r].op = c.op /\ handler'[r].default = c.default
    BY <1>0, <2>1 DEF Calls
  <2>3. /\ OneDefault /\ (c.op = "signIn" => c.default)
        /\ Present' = Present /\ Defaults' = Defaults /\ OneDefault' = OneDefault
    BY <1>3, SameDefaults DEF ReadAll, Relies
  <2>4. Present = {} => Defaults = {}
    BY DEF Defaults
  <2>5. CASE Present = {}
    <3>1. CASE c.op = "signIn"
      <4>1. handler'[r].pc = "saving" /\ handler'[r].default /\ Defaults' = {}
        BY <2>2, <2>3, <2>4, <2>5, <3>1 DEF Cleared
      <4> QED BY <4>1 DEF AtWork, Relies, AtMostOne
    <3>2. CASE c.op # "signIn"
      <4>1. handler'[r].pc = "flagging" /\ Defaults' = {}
        BY <2>2, <2>3, <2>4, <2>5, <3>2 DEF Cleared
      <4> QED BY <4>1 DEF AtWork, Relies
    <3> QED BY <3>1, <3>2
  <2>6. CASE Present # {}
    <3>1. handler'[r].pc = "batching"
      BY <2>2, <2>6
    <3> QED BY <2>2, <2>3, <3>1 DEF AtWork, Relies
  <2> QED BY <2>5, <2>6
<1>4. CASE Commit(r)
  <2>1. c.seen = Present /\ (c.op = "signIn" => c.default)
    BY <1>4 DEF Commit, Relies
  <2>2. /\ Goto(r, Cleared(r))
        /\ tokens' = [n \in Names |->
                        IF n \in Present THEN [tokens[n] EXCEPT !.isDefault = FALSE]
                        ELSE tokens[n]]
    BY <1>4, <2>1 DEF Commit
  <2>3. \A n \in Present : tokens'[n].isDefault = FALSE
    BY <2>2, DocUpdates DEF Types, Present
  <2>4. \A n \in Names \ Present : tokens'[n].kind = "absent"
    BY <2>2 DEF Present
  <2>5. Defaults' = {}
    BY <2>3, <2>4 DEF Defaults, Present
  <2>6. Cleared(r) \in Stages
    BY DEF Cleared, Stages
  <2>7. /\ handler'[r].pc = Cleared(r)
        /\ handler'[r].op = c.op /\ handler'[r].default = c.default
    BY <2>2, <2>6, GotoGoes
  <2>8. CASE c.op = "signIn"
    BY <2>1, <2>5, <2>7, <2>8 DEF Cleared, AtWork, Relies, AtMostOne
  <2>9. CASE c.op # "signIn"
    BY <2>5, <2>7, <2>9 DEF Cleared, AtWork, Relies
  <2> QED BY <2>8, <2>9
<1>5. CASE Flag(r)
  <2>1. Defaults = {} /\ c.name \in Present
    BY <1>5, <1>f DEF Flag, Relies
  <2>2. tokens' = [tokens EXCEPT ![c.name] = [tokens[c.name] EXCEPT !.isDefault = TRUE]]
    BY <1>5, <2>1 DEF Flag, Types
  <2>3. /\ [tokens[c.name] EXCEPT !.isDefault = TRUE].isDefault
        /\ [tokens[c.name] EXCEPT !.isDefault = TRUE].kind = tokens[c.name].kind
    BY <1>0, <1>d, DocUpdates
  <2>4. \A n \in Names \ {c.name} : tokens'[n] = tokens[n]
    BY <1>0, <2>2 DEF Types
  <2>5. Defaults' = {c.name}
    BY <1>0, <2>1, <2>2, <2>3, <2>4 DEF Defaults, Present, Types
  <2>6. ~ AtWork(handler'[r])
    BY <1>5, <1>f, <2>1, EndEnds DEF Flag, Outcomes
  <2> QED BY <1>0, <2>5, <2>6 DEF OneDefault
<1>6. CASE Remove(r)
  <2>1. OneDefault /\ c.name \in Present /\ (c.default <=> tokens[c.name].isDefault)
    BY <1>6 DEF Remove, Relies
  <2>2. /\ tokens'[c.name] = NoDoc /\ \A n \in Names \ {c.name} : tokens'[n] = tokens[n]
    BY <1>0, <1>6 DEF Remove, Types
  <2>3. Defaults' = Defaults \ {c.name} /\ Present' = Present \ {c.name}
    <3>0. NoDoc.kind = "absent"
      BY DEF NoDoc
    <3>1. tokens'[c.name].kind = "absent"
      BY <2>2, <3>0
    <3>2. Present' = Present \ {c.name}
      BY <1>0, <2>2, <3>1 DEF Present
    <3> QED BY <1>0, <2>2, <3>2 DEF Defaults, Present
  <2>4. PICK n \in Names : Defaults = {n}
    BY <2>1 DEF OneDefault
  <2>5. CASE c.default
    <3>1. c.name \in Defaults
      BY <2>1, <2>5 DEF Defaults
    <3>2. Defaults' = {}
      BY <2>3, <2>4, <3>1
    <3>3. handler'[r].pc = "promoting"
      BY <1>6, <2>5, GotoGoes DEF Remove, Stages
    <3> QED BY <3>2, <3>3 DEF AtWork, Relies
  <2>6. CASE ~ c.default
    <3>1. c.name \notin Defaults
      BY <2>1, <2>6 DEF Defaults
    <3>2. Defaults' = {n}
      BY <2>3, <2>4, <3>1
    <3>3. ~ AtWork(handler'[r])
      BY <1>6, <1>f, <2>6, EndEnds DEF Remove, Outcomes
    <3> QED BY <3>2, <3>3 DEF OneDefault
  <2> QED BY <2>5, <2>6
<1>7. CASE Promote(r)
  <2>1. /\ Defaults' = {} /\ Present' = Present
    BY <1>7, SameDefaults DEF Promote, Relies
  <2>2. CASE Present = {} /\ End(r, "done")
    <3>1. ~ AtWork(handler'[r])
      BY <2>2, EndEnds DEF Outcomes
    <3> QED BY <2>1, <2>2, <3>1 DEF OneDefault
  <2>3. ASSUME NEW n \in Present,
               handler' = [handler EXCEPT ![r].name = n, ![r].pc = "flagging"]
        PROVE  Kept
    <3>1. handler'[r] = [c EXCEPT !.name = n, !.pc = "flagging"]
      BY <2>3 DEF Types
    <3>2. handler'[r].pc = "flagging"
      BY <1>0, <3>1 DEF Calls
    <3> QED BY <2>1, <3>2 DEF AtWork, Relies
  <2> QED BY <1>7, <2>2, <2>3 DEF Promote
<1>8. CASE Persist(r)
  <2>1. OneDefault
    BY <1>8 DEF Persist, Relies
  <2>2. OneDefault'
    <3>1. CASE UNCHANGED tokens
      BY <2>1, <3>1, SameDefaults
    <3>2. CASE tokens' = Refreshed(r)
      <4>1. tokens' = [tokens EXCEPT ![c.name] = [tokens[c.name] EXCEPT !.expiresAt = c.expiresAt]]
        BY <3>2 DEF Refreshed, Types
      <4>2. /\ [tokens[c.name] EXCEPT !.expiresAt = c.expiresAt].kind = tokens[c.name].kind
            /\ [tokens[c.name] EXCEPT !.expiresAt = c.expiresAt].isDefault
                 = tokens[c.name].isDefault
        BY <1>0, <1>d DEF Doc
      <4>3. \A n \in Names : /\ tokens'[n].kind = tokens[n].kind
                             /\ tokens'[n].isDefault = tokens[n].isDefault
        BY <1>0, <4>1, <4>2 DEF Types
      <4>4. Present' = Present
        BY <4>3 DEF Present
      <4>5. Defaults' = Defaults
        BY <4>3, <4>4 DEF Defaults, Present
      <4> QED BY <2>1, <4>4, <4>5 DEF OneDefault
    <3> QED BY <1>8, <3>1, <3>2 DEF Persist
  <2>3. ~ AtWork(handler'[r])
    <3>1. CASE handler' = [handler EXCEPT ![r].pc = "ended", ![r].outcome = "used",
                                          ![r].expired = FALSE]
      <4>1. handler'[r] = [c EXCEPT !.pc = "ended", !.outcome = "used", !.expired = FALSE]
        BY <3>1 DEF Types
      <4> QED BY <1>0, <4>1 DEF Calls, AtWork
    <3>2. CASE FallBack(r)
      BY <3>2, EndEnds DEF FallBack, Outcomes
    <3> QED BY <1>8, <3>1, <3>2 DEF Persist
  <2> QED BY <2>2, <2>3
<1>9. CASE Fetch(r)
  <2>1. OneDefault' /\ UNCHANGED tokens
    BY <1>9, SameDefaults DEF Fetch, Relies
  <2>2. ASSUME NEW b \in BOOLEAN, NEW stage \in {"exchanging", "ended"},
               NEW out \in {"none", "used"},
               handler' = [handler EXCEPT ![r].expired = b, ![r].pc = stage, ![r].outcome = out]
        PROVE  Kept
    <3>1. handler'[r] = [c EXCEPT !.expired = b, !.pc = stage, !.outcome = out]
      BY <2>2 DEF Types
    <3>2. handler'[r].pc = stage
      BY <1>0, <3>1 DEF Calls
    <3> QED BY <2>1, <3>2 DEF AtWork, Relies
  <2> DEFINE doc == tokens[c.name]
             due == (doc.kind = "user" /\ doc.expiresAt - now < RefreshThreshold) /\ OAuthConfigured
             late == doc.kind = "user" /\ doc.expiresAt <= now
  <2>3. handler' = [handler EXCEPT ![r].expired = late,
                                   ![r].pc = IF due THEN "exchanging" ELSE "ended",
                                   ![r].outcome = IF due THEN "none" ELSE "used"]
    BY <1>9, <1>f DEF Fetch
  <2>4. late \in BOOLEAN /\ due \in BOOLEAN
    BY RepositoryAssumption
  <2> HIDE DEF late, due
  <2> QED BY <2>2, <2>3, <2>4
<1>10. CASE Exchange(r)
  <2>1. OneDefault' /\ UNCHANGED tokens
    BY <1>10, SameDefaults DEF Exchange, Relies
  <2>2. CASE handler' = [handler EXCEPT ![r].pc = "persisting", ![r].expiresAt = now + Lifetime]
    <3>1. handler'[r] = [c EXCEPT !.pc = "persisting", !.expiresAt = now + Lifetime]
      BY <2>2 DEF Types
    <3>2. handler'[r].pc = "persisting"
      BY <1>0, <3>1 DEF Calls
    <3> QED BY <2>1, <3>2 DEF AtWork, Relies
  <2>3. CASE FallBack(r)
    <3>1. ~ AtWork(handler'[r])
      BY <2>3, EndEnds DEF FallBack, Outcomes
    <3> QED BY <2>1, <3>1
  <2> QED BY <1>10, <2>2, <2>3 DEF Exchange
<1>11. CASE StoreFails(r)
  BY <1>11, <1>f DEF StoreFails
<1> QED BY <1>1, <1>2, <1>3, <1>4, <1>5, <1>6, <1>7, <1>8, <1>9, <1>10, <1>11 DEF Continue

\* Calls made one after another, none of which fails or saves the default token again,
\* leave one default as long as there is a token (meta-token-repo.test.ts:68-99), for any
\* number of tokens and calls.
THEOREM OneAfterAnother == Spec => []QuietHasOneDefault
<1>1. Init => DefaultInv
  <2>1. Init => SwitchInv
    BY InitTyped DEF Init, SwitchInv, Alone, AtWork, NotCalled
  <2> QED BY <2>1 DEF Init, DefaultInv, AtWork, NotCalled
<1>2. DefaultInv /\ [Next]_vars => DefaultInv'
  <2> SUFFICES ASSUME DefaultInv, [Next]_vars PROVE DefaultInv'
    OBVIOUS
  <2>0. SwitchInv' /\ SwitchInv /\ Types
    BY StepSwitch DEF DefaultInv, SwitchInv
  <2>1. CASE UNCHANGED <<tokens, handler>>
    BY <2>0, <2>1 DEF DefaultInv, Smooth, Quiet, Busy, OneDefault, AtMostOne, Relies, AtWork,
                      Present, Defaults
  <2>2. ASSUME NEW r \in Handlers, Begins(r) PROVE DefaultInv'
    <3>1. /\ handler[r].pc = "idle" /\ UNCHANGED tokens
          /\ handler'[r].alone = ~ \E p \in Handlers : Busy(p)
          /\ \A q \in Handlers \ {r} :
               /\ handler'[q].pc = handler[q].pc /\ handler'[q].outcome = handler[q].outcome
               /\ handler'[q].alone = (handler[q].alone /\ ~ Busy(q))
      BY <2>0, <2>2, BeginsAfresh
    <3>2. handler'[r].pc # "idle"
      <4>1. handler'[r].pc \in Stages \ {"idle"}
        BY <2>2 DEF Begins, SignIn, Use, Register, Activate, Delete, Begin, Call, NotFound,
                    NotCalled, Stages
      <4> QED BY <4>1
    <3>3. \A q \in Handlers : handler'[q].pc = "idle" =>
            handler'[q].alone /\ handler'[q].outcome = "none"
      BY <3>1, <3>2 DEF DefaultInv, Busy
    <3>4. ASSUME Smooth' PROVE Smooth /\ Quiet
      BY <3>1, <3>4 DEF DefaultInv, Smooth, Quiet
    <3>5. Smooth' => OneDefault /\ OneDefault'
      BY <3>1, <3>4, SameDefaults DEF DefaultInv
    <3>6. Smooth' => \A q \in Handlers \ {r} : ~ AtWork(handler'[q])
      BY <3>1, <3>4 DEF Quiet, Busy, AtWork
    <3>7. Smooth' /\ AtWork(handler'[r]) => Relies(r)'
      BY <2>0, <2>2, <3>5, BeginsRelying
    <3> QED BY <2>0, <3>3, <3>5, <3>6, <3>7 DEF DefaultInv
  <2>3. ASSUME NEW r \in Handlers, Continue(r) PROVE DefaultInv'
    <3>1. PICK d \in Proper : Follows(d, handler[r]) /\ handler' = [handler EXCEPT ![r] = d]
      BY <2>0, <2>3, ContinueMoves
    <3>2. /\ AtWork(handler[r])
          /\ \A q \in Handlers \ {r} : handler'[q] = handler[q]
          /\ handler'[r].alone = handler[r].alone
      BY <2>0, <2>3, <3>1, ContinueMoves, HandlerUpdate DEF Follows
    <3>3. handler[r].outcome = "none"
      BY <2>0, <3>2 DEF Types, Proper
    <3>4. handler'[r].pc # "idle"
      BY <2>0, <3>1 DEF Follows, Types
    <3>5. \A q \in Handlers : handler'[q].pc = "idle" =>
            handler'[q].alone /\ handler'[q].outcome = "none"
      BY <3>2, <3>4 DEF DefaultInv
    <3>6. ASSUME Smooth'
          PROVE  /\ Quiet' => OneDefault'
                 /\ \A q \in Handlers : AtWork(handler'[q]) => Relies(q)'
      <4>1. Smooth
        BY <3>2, <3>3, <3>6 DEF Smooth
      <4>2. Relies(r)
        BY <3>2, <4>1 DEF DefaultInv
      <4>3. \A q \in Handlers \ {r} : ~ AtWork(handler'[q])
        BY <2>0, <3>2, <4>1 DEF SwitchInv, Alone, Smooth
      <4>4. handler'[r].outcome \notin {"failed", "default resaved"}
        BY <3>6 DEF Smooth
      <4>5. IF AtWork(handler'[r]) THEN Relies(r)' ELSE OneDefault'
        BY <2>0, <2>3, <4>2, <4>4, ContinueRelying
      <4>6. Quiet' => ~ AtWork(handler'[r])
        BY DEF Quiet, Busy, AtWork
      <4> QED BY <4>3, <4>5, <4>6
    <3> QED BY <2>0, <3>5, <3>6 DEF DefaultInv
  <2> QED BY <2>1, <2>2, <2>3, NextCases DEF TimePasses, vars
<1>3. DefaultInv => QuietHasOneDefault
  BY DEF DefaultInv, Smooth, QuietHasOneDefault, OneAtATime
<1> QED BY <1>1, <1>2, <1>3, PTL DEF Spec
=============================================================================
