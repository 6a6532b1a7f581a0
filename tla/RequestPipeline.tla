--------------------------- MODULE RequestPipeline ---------------------------
(***************************************************************************)
(* MetaApiClient.execute (src/meta/client.ts), many calls at once on one   *)
(* event loop: what runs between two awaits is one step, and at each await *)
(* any other call may run.  It composes the circuit breaker, the write     *)
(* pacer, the rate limiter and the classification of Meta's errors.        *)
(*                                                                         *)
(* Meta is external: it answers anything at any time, and it may carry out *)
(* a request whose answer never arrives.                                   *)
(***************************************************************************)
EXTENDS CircuitBreaker, RateLimiter, WritePacer

CONSTANTS
  Ctx,           \* call -> the context execute computes for it
  Writes,        \* the calls that POST or DELETE
  Creating,      \* those that make a new resource each time Meta carries them out
  CreatingPath,  \* those that POST to /act_<id>/<collection> or to /<id>/copies
  MaxRetries,    \* this.maxRetries
  BackoffTicks,  \* RETRY_BASE_DELAY less the jitter, in ticks
  Errors,        \* the Graph API errors Meta may answer with
  HeaderSets,    \* the sets of usage headers an answer may carry
  LastStart      \* bound: no call begins after this tick

HeaderNames ==
  {"x-app-usage", "x-business-use-case-usage", "x-fb-ads-insights-throttle",
   "x-ad-account-usage", "x-fb-ads-insights-reach-throttle"}

ASSUME PipelineAssumption ==
  /\ Ctx \in [Calls -> Contexts]
  /\ Writes \subseteq Calls
  /\ Creating \subseteq Writes /\ CreatingPath \subseteq Writes
  /\ MaxRetries \in Nat
  /\ BackoffTicks \in Nat
  /\ LastStart \in Nat
  /\ IsFiniteSet(BucketKeys)
  /\ \A h \in UNION HeaderSets :
       /\ h.name \in HeaderNames
       /\ {h.usage, h.accUsage} \subseteq 0..100 /\ h.regain \in Nat
       /\ h.business \in Businesses /\ h.type \in Types

VARIABLES
  req,        \* call -> where it stands in execute
  applied,    \* creating call -> how often Meta has carried it out
  promised    \* circuit key -> the latest end of a silence Meta asked for

vars == <<now, circuits, throttleEvents, buckets, pacer, req, applied, promised>>

Settled == {"done", "failed", "refused"}

Stages == Settled \cup
  {"idle", "pacing", "gate", "limiting", "inflight", "body", "backoff"}

Key(r) == circuitKey(Ctx[r])

PacerKey(r) == [token |-> Ctx[r].token, account |-> Ctx[r].account]

\* The pacer is asked when execute finds an account id in the path.
Paced(r) == r \in Writes /\ Ctx[r].account # "_"

(***************************************************************************)
(* isCreatingRequest goes by the path.  POSTs that create elsewhere -      *)
(* /<page>/leadgen_forms (leads.ts:199), /<comment>/comments               *)
(* (comments.ts:135), /<campaign>/budget_schedules (budget.ts:28) - are    *)
(* taken to be idempotent, as updates are.                                 *)
(***************************************************************************)
CanRetry(r) == r \notin CreatingPath

NotBegun ==
  [pc |-> "idle", wake |-> 0, attempt |-> 0, gatedAt |-> 0, throttled |-> FALSE]

Init ==
  /\ ClockInit
  /\ BreakerInit
  /\ LimiterInit
  /\ PacerInit
  /\ req = [r \in Calls |-> NotBegun]
  /\ applied = [r \in Creating |-> 0]
  /\ promised = [k \in CircuitKeys |-> 0]

\* The next stage; a timer that has fired is forgotten.
Goto(r, stage) == req' = [req EXCEPT ![r].pc = stage, ![r].wake = 0, ![r].gatedAt = 0]

GotoAfter(r, stage, ticks) ==
  req' = [req EXCEPT ![r].pc = stage, ![r].wake = now + ticks]

\* execute returns or throws: its locals are gone.
Settle(r, outcome, throttled) ==
  req' = [req EXCEPT ![r] = [NotBegun EXCEPT !.pc = outcome, !.throttled = throttled]]

-----------------------------------------------------------------------------

\* assertClosed throws.
Refused(r) ==
  /\ req[r].pc = "idle" /\ now <= LastStart
  /\ Blocked(Ctx[r])
  /\ Settle(r, "refused", FALSE)
  /\ UNCHANGED <<now, circuits, throttleEvents, buckets, pacer, applied, promised>>

\* waitIfNeeded: one look at the buckets, one sleep, no second look.
StartWaiting(r) ==
  req' = [req EXCEPT ![r].pc = "limiting", ![r].gatedAt = now,
                     ![r].wake = now + ThrottleDelay(Ctx[r])]

\* assertClosed returns; in the same breath a paced write asks the pacer, and any
\* other call the limiter.
Begin(r) ==
  /\ req[r].pc = "idle" /\ now <= LastStart
  /\ AssertClosed(Ctx[r])
  /\ \/ ~ Paced(r) /\ StartWaiting(r) /\ UNCHANGED pacer
     \/ Paced(r) /\ AcquireNow(PacerKey(r)) /\ Goto(r, "gate")
     \/ Paced(r) /\ AcquireMustWait(PacerKey(r))
                 /\ GotoAfter(r, "pacing", AccrualTime(PacerKey(r)))
  /\ UNCHANGED <<now, buckets, applied, promised>>

PacingEnds(r) ==
  /\ req[r].pc = "pacing" /\ now >= req[r].wake
  /\ AcquireAfterWait(PacerKey(r))
  /\ Goto(r, "gate")
  /\ UNCHANGED <<now, circuits, throttleEvents, buckets, applied, promised>>

WaitIfNeeded(r) ==
  /\ req[r].pc = "gate"
  /\ StartWaiting(r)
  /\ UNCHANGED <<now, circuits, throttleEvents, buckets, pacer, applied, promised>>

\* fetch is called, at first or after a backoff; nothing is asked again.
Send(r) ==
  /\ req[r].pc \in {"limiting", "backoff"} /\ now >= req[r].wake
  /\ Goto(r, "inflight")
  /\ UNCHANGED <<now, circuits, throttleEvents, buckets, pacer, applied, promised>>

\* The headers that report a tier; of the two, the account's is read last.
TierReports(headers) ==
  {h \in headers : /\ h.name \in {"x-fb-ads-insights-throttle", "x-ad-account-usage"}
                   /\ h.tier # "none"}

LastReport(headers) ==
  CHOOSE h \in TierReports(headers) :
    h.name = "x-ad-account-usage" \/ Cardinality(TierReports(headers)) = 1

\* The headers of an answer arrive: buckets and tier follow them, whatever it says.
HeadersArrive(r, headers) ==
  /\ req[r].pc = "inflight"
  /\ UpdateFromHeaders(headers, Ctx[r])
  /\ IF Ctx[r].account # "_" /\ TierReports(headers) # {}
     THEN TierSeen(PacerKey(r), LastReport(headers).tier)
     ELSE UNCHANGED pacer
  /\ Goto(r, "body")
  /\ UNCHANGED <<now, circuits, throttleEvents, applied, promised>>

-----------------------------------------------------------------------------

MetaMayApply(r) ==
  \/ UNCHANGED applied
  \/ r \in Creating /\ applied' = [applied EXCEPT ![r] = @ + 1]

\* The backoff as a bug would have it: the attempt is not counted.
MutBackoff(r) ==
  req' = [req EXCEPT ![r].pc = "backoff", ![r].gatedAt = 0,
                     ![r].wake = now + BackoffTicks * 2 ^ req[r].attempt]

Backoff(r) ==
  req' = [req EXCEPT ![r].pc = "backoff", ![r].attempt = @ + 1, ![r].gatedAt = 0,
                     ![r].wake = now + BackoffTicks * 2 ^ req[r].attempt]

\* Retrying as a bug would have it: every request is taken to be idempotent.
MutRetryOrFail(r) ==
  IF req[r].attempt < MaxRetries THEN Backoff(r) ELSE Settle(r, "failed", FALSE)

\* The attempts as a bug would count them: one more than maxRetries.
MutOneMoreTry(r) ==
  IF CanRetry(r) /\ req[r].attempt <= MaxRetries THEN Backoff(r) ELSE Settle(r, "failed", FALSE)

RetryOrFail(r) ==
  IF CanRetry(r) /\ req[r].attempt < MaxRetries THEN Backoff(r) ELSE Settle(r, "failed", FALSE)

(***************************************************************************)
(* No usable answer: the 30 s abort, a network error, an unreadable body,  *)
(* or a status that is not ok without a Graph API error in its body (the   *)
(* branches for 5xx and for the rest end in the same retry, because the    *)
(* error they throw is caught as a network error is).                      *)
(***************************************************************************)
NoAnswer(r) ==
  /\ req[r].pc \in {"inflight", "body"}
  /\ MetaMayApply(r)
  /\ RetryOrFail(r)
  /\ UNCHANGED <<now, circuits, throttleEvents, buckets, pacer, promised>>

Succeed(r) ==
  /\ req[r].pc = "body"
  /\ applied' = IF r \in Creating THEN [applied EXCEPT ![r] = @ + 1] ELSE applied
  /\ Settle(r, "done", FALSE)
  /\ UNCHANGED <<now, circuits, throttleEvents, buckets, pacer, promised>>

Extend(key, class) ==
  LET until == now + CoolDownOf(class) IN
  IF CoolDownOf(class) > 0 /\ promised[key] < until
  THEN [promised EXCEPT ![key] = until] ELSE promised

\* A throttled call as a bug would have it: retried like a transient error.
MutThrottled(r, class) ==
  /\ Trip(Ctx[r], class, r)
  /\ promised' = Extend(Key(r), class)
  /\ req' = [req EXCEPT ![r].pc = "backoff", ![r].throttled = TRUE]
  /\ UNCHANGED <<now, buckets, pacer, applied>>

\* The limiter learns the hint, the breaker trips, and the call is over.
Throttled(r, class) ==
  /\ IF class.hint > 0
     THEN MarkRetryAfter(Ctx[r], Ctx[r].type, class.hint) ELSE UNCHANGED buckets
  /\ Trip(Ctx[r], class, r)
  /\ promised' = Extend(Key(r), class)
  /\ Settle(r, "failed", TRUE)
  /\ UNCHANGED <<now, pacer, applied>>

MetaError(r, e) ==
  LET class == ClassifyMetaError(e) IN
  /\ req[r].pc = "body"
  /\ \/ class.throttled /\ Throttled(r, class)
     \/ /\ ~ class.throttled
        /\ IF class.retryable THEN RetryOrFail(r) ELSE Settle(r, "failed", FALSE)
        /\ UNCHANGED <<now, circuits, throttleEvents, buckets, pacer, applied, promised>>

TimePasses ==
  /\ Tick
  /\ UNCHANGED <<circuits, throttleEvents, buckets, pacer, req, applied, promised>>

Answer(r) ==
  \/ \E headers \in HeaderSets : HeadersArrive(r, headers)
  \/ NoAnswer(r)
  \/ Succeed(r)
  \/ \E e \in Errors : MetaError(r, e)

Proceed(r) ==
  Refused(r) \/ Begin(r) \/ PacingEnds(r) \/ WaitIfNeeded(r) \/ Send(r)

Next == TimePasses \/ \E r \in Calls : Proceed(r) \/ Answer(r)

Spec == Init /\ [][Next]_vars

-----------------------------------------------------------------------------

\* The types of the state of a client and of its calls.
TypeOK ==
  /\ now \in Nat
  /\ circuits \in [CircuitKeys -> Nat]
  /\ throttleEvents \in [CircuitKeys -> SUBSET [at : Nat, by : Calls]]
  /\ buckets \in [BucketKeys -> Bucket]
  /\ pacer \in [PacerKeys -> PacerBucket]
  /\ req \in [Calls -> [pc : Stages, wake : Nat, attempt : 0..MaxRetries,
                        gatedAt : Nat, throttled : BOOLEAN]]
  /\ applied \in [Creating -> Nat]
  /\ promised \in [CircuitKeys -> Nat]

\* client.ts:232-242: whatever is lost, late or refused on the way, a request that
\* creates a resource is carried out at most once if its path says that it creates.
\* What becomes of the others is CreatedAtMostOnce, below.
RecognisedCreatedOnce == \A r \in Creating \cap CreatingPath : applied[r] <= 1

\* client.ts:286 and README.md:488: once Meta has answered a call with a throttle,
\* the call never reaches Meta again, whatever it was and however many attempts
\* it had left.
ThrottleEndsCall ==
  [][\A r \in Calls : req[r].throttled => req'[r].pc = "failed"]_vars

\* README.md:483: no call that begins before the end Meta asked for gets past
\* assertClosed, whatever shorter hints, counted throttles and sweeps by calls in
\* other contexts have happened since.
SilenceKept ==
  [][\A r \in Calls :
       req[r].pc = "idle" /\ promised[Key(r)] > now => req'[r].pc \in {"idle", "refused"}]_vars

\* rate-limiter.ts:66-67: the first fetch of a call happens no earlier than every
\* time to regain access that was known when the call looked, in all the buckets
\* that apply to it.
RegainHonoured ==
  [][\A r \in Calls :
       req[r].pc = "limiting" /\ req'[r].pc = "inflight" =>
         \A k \in BucketKeys :
           BucketAppliesTo(k, Ctx[r]) /\ buckets[k].at < req[r].gatedAt =>
             buckets[k].at + buckets[k].regain <= now]_vars

\* rate-limiter.ts:192-197 and client.test.ts:252: a throttle that is of one account
\* neither delays nor refuses the calls of another one of the same token.  Abuse signals
\* are left out: they should stop the whole token (circuit-breaker.ts:170-172).
ThrottleIsolated ==
  [][\A r \in Calls, e \in Errors :
       LET class == ClassifyMetaError(e) IN
       MetaError(r, e) /\ class.throttled /\ class.category # "abuse_signal" =>
         \A ctx \in Contexts :
           ctx.account # Ctx[r].account =>
             /\ ThrottleDelay(ctx)' = ThrottleDelay(ctx)
             /\ Blocked(ctx)' = Blocked(ctx)]_vars

(***************************************************************************)
(* How many steps a call still has before it, at most: the awaits of this  *)
(* attempt, and fetch, body and backoff for each attempt it has left.      *)
(***************************************************************************)
StepsOf(stage) ==
  CASE stage = "idle" -> 6
    [] stage = "pacing" -> 5
    [] stage = "gate" -> 4
    [] stage \in {"limiting", "backoff"} -> 3
    [] stage = "inflight" -> 2
    [] stage = "body" -> 1
    [] OTHER -> 0

StepsLeft(locals) ==
  IF locals.pc \in Settled THEN 0
  ELSE StepsOf(locals.pc) + 3 * (MaxRetries - locals.attempt)

\* client.ts:246-344: no wait, retry, failure or other call ever sets a call back: whatever
\* becomes of it, it has fewer steps before it than it had, so that it comes back to its
\* caller as long as timers fire and requests end.
CallsGetOn ==
  [][\A r \in Calls :
       req'[r] # req[r] =>
         StepsLeft(req'[r]) \in Nat /\ StepsLeft(req'[r]) < StepsLeft(req[r])]_vars

\* client.ts:216, "Circuit breaker is the hard stop: if open, never call Meta".
HardStop ==
  [][\A r \in Calls : req[r].pc # "inflight" /\ req'[r].pc = "inflight" => ~ Blocked(Ctx[r])]_vars

\* client.ts:237-238, "Other POSTs (updates on /<id>) and DELETEs are idempotent at the
\* API level": no call, whatever its path, creates a resource twice.
CreatedAtMostOnce == \A r \in Creating : applied[r] <= 1
=============================================================================
