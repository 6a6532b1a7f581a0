----------------------------- MODULE RateLimiter -----------------------------
(***************************************************************************)
(* RateLimiter (src/meta/rate-limiter.ts): the usage Meta last reported,   *)
(* one bucket per resource Meta meters, and the wait a request owes to     *)
(* them.  A bucket that no header has written is all zeroes; usage is the  *)
(* largest of callCount, cpuTime and totalTime, in percent.                *)
(***************************************************************************)
EXTENDS RequestScope, Integers, FiniteSets
LOCAL INSTANCE FiniteSetsExt

CONSTANTS
  Businesses,   \* business ids of X-Business-Use-Case-Usage
  TickMs        \* milliseconds in a tick: a computed delay is rounded up to ticks

ASSUME TickAssumption == TickMs \in Nat \ {0}

VARIABLE buckets    \* bucket key -> [usage, regain, at]

BucketKeys ==
  {<<"app", t>> : t \in Tokens}
    \cup {<<"buc", t, b, y>> : t \in Tokens, b \in Businesses, y \in Types}
    \cup {<<"insights", t, "app">> : t \in Tokens}
    \cup {<<"insights", t, "acc", a>> : t \in Tokens, a \in Accounts}
    \cup {<<kind, t, a>> : kind \in {"acc", "reach"}, t \in Tokens, a \in Accounts}
    \cup {<<"local_retry", t, a, y>> : t \in Tokens, a \in Accounts \cup {"_"}, y \in Types}

Bucket == [usage : 0..100, regain : Nat, at : Nat]

LimiterInit == buckets = [k \in BucketKeys |-> [usage |-> 0, regain |-> 0, at |-> 0]]

\* One response header: usage, the account's part of it, and the stated time to regain.
Written(h, ctx) ==
  LET write(key, usage, regain) ==
        [key |-> key, bucket |-> [usage |-> usage, regain |-> regain, at |-> now]]
      ofAccount(w) == IF ctx.account = "_" THEN {} ELSE {w}
  IN  CASE h.name = "x-app-usage" ->
             {write(<<"app", ctx.token>>, h.usage, 0)}
        [] h.name = "x-business-use-case-usage" ->
             {write(<<"buc", ctx.token, h.business, h.type>>, h.usage, h.regain)}
        [] h.name = "x-fb-ads-insights-throttle" ->
             {write(<<"insights", ctx.token, "app">>, h.usage, 0)}
               \cup ofAccount(write(<<"insights", ctx.token, "acc", ctx.account>>, h.accUsage, 0))
        [] h.name = "x-ad-account-usage" ->
             ofAccount(write(<<"acc", ctx.token, ctx.account>>, h.accUsage, h.regain))
        [] h.name = "x-fb-ads-insights-reach-throttle" ->
             ofAccount(write(<<"reach", ctx.token, ctx.account>>, h.usage, h.regain))

\* Every header overwrites its buckets, whatever they held.
UpdateFromHeaders(headers, ctx) ==
  LET written == UNION {Written(h, ctx) : h \in headers} IN
  buckets' = [k \in BucketKeys |->
                IF \E w \in written : w.key = k
                THEN (CHOOSE w \in written : w.key = k).bucket
                ELSE buckets[k]]

\* The key as a bug would have it: one per token and type.
MutRetryKey(ctx, type) == <<"local_retry", ctx.token, "_", type>>

RetryKey(ctx, type) == <<"local_retry", ctx.token, ctx.account, type>>

MarkRetryAfter(ctx, type, ticks) ==
  buckets' = [buckets EXCEPT ![RetryKey(ctx, type)] =
                [usage |-> 0, regain |-> ticks, at |-> now]]

BucketAppliesTo(k, ctx) ==
  /\ k[2] = ctx.token
  /\ \/ k[1] \in {"app", "buc"}
     \/ k[1] \in {"acc", "reach"} /\ k[3] = ctx.account
     \/ k[1] = "insights" /\ (k[3] = "app" \/ k[4] = ctx.account)
     \/ k[1] = "local_retry" /\ k[3] = ctx.account

StaircaseMs(usage) ==
  IF usage < 75 THEN 0
  ELSE IF usage < 95 THEN 100 + 95 * (usage - 75)
       ELSE 5000 + 11000 * (usage - 95)

StaircaseDelay(usage) == (StaircaseMs(usage) + TickMs - 1) \div TickMs

\* What remains of the stated time to regain; once over, the usage counts again.
BucketDelay(b) ==
  LET explicitWait == b.regain - (now - b.at) IN
  IF explicitWait > 0 THEN explicitWait ELSE StaircaseDelay(b.usage)

\* The wait as a bug would have it: the smallest of the applicable ones.
MutThrottleDelay(ctx) ==
  Min({BucketDelay(buckets[k]) : k \in {b \in BucketKeys : BucketAppliesTo(b, ctx)}})

ThrottleDelay(ctx) ==
  Max({0} \cup {BucketDelay(buckets[k]) : k \in {b \in BucketKeys : BucketAppliesTo(b, ctx)}})
=============================================================================
