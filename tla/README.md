# A verification of the Meta Ads MCP server

The repository is a server of the Model Context Protocol that lets agents read
and change advertising accounts through Meta's Graph API. This directory holds
TLA+ models of its parts, TLC configurations that check them on small
instances, and theorems that the TLA+ proof system checks for every value of
the constants. Paths below are relative to the repository's root.

## The system and its parts

One Node process serves many MCP clients. Nothing runs in parallel inside it:
what a handler does between two `await`s is one step, and at an `await` any
other handler, timer or answer may run. Several processes may share one
Firestore database. Meta is outside; it answers anything, late, or not at all.

| part | state it keeps | operations | hard behaviours | correct when |
|---|---|---|---|---|
| Graph API client, `src/meta/client.ts` | the locals of each `execute` in flight | `execute`: gate, pace, wait, fetch, classify, retry | the waits of many calls interleave; answers are lost; retries | a write whose path says that it creates is carried out once per call, a throttle ends a call, no call is set back |
| circuit breaker, `src/meta/circuit-breaker.ts` | open circuits, recent throttles per key | `assertClosed`, `trip` | counting, filtering, sweeping and trips of different lengths in any order | asked-for silences are kept; repeated throttles silence |
| rate limiter, `src/meta/rate-limiter.ts` | one usage bucket per metered resource | `updateFromHeaders`, `markRetryAfter`, `waitIfNeeded` | state read before a sleep and changed during it | known times to regain access are waited for; a throttle of one account leaves the others alone |
| write pacer, `src/meta/write-pacer.ts` | a token bucket per (token, account) | `acquire`, `updateTier` | several sleepers on one bucket, the tier changing under them | writes stay within the hourly quota |
| error classification, `src/meta/errors.ts` | none | `classifyMetaError` | overlapping rules, the order decides | - (input of the above) |
| clone bundle, `src/tools/adsets.ts` and `src/store/clone-bundle-store.ts` | one record per idempotency key, in Firestore | `ads_clone_ad_set_bundle`, `getDoc`, `claim`, `update` | two processes, crashes, lost answers, takeover of an operation that looks dead | one execution at a time gets a key, results are real, what was made is listed |
| OAuth provider, `src/auth/oauth-provider.ts` and its stores | authorization codes, allow-list of refresh tokens, clients | register, authorize, exchange, refresh, revoke | concurrent exchanges and refreshes, failures between consume and store, restarts of a process that keeps them in memory | codes and refresh tokens are used once; overlap alone ends no grant; a token stays its user's |
| sign-in, session and consent routes, `src/transport/auth-routes.ts`, `src/auth/session.ts`, `src/auth/oauth-state.ts` | two cookies per browser, the session allow-list | sign-in round trip, logout, consent | several tabs, a cookie read before an `await` and used after it, state that survives in cookies | a browser is signed in by its own attempt only; who signed out stays out |
| Meta token repository and pool, `src/store/meta-token-repo.ts`, `src/auth/token-manager.ts`, `src/auth/token-store.ts`, `src/tools/tokens.ts` | named tokens of each user, one of them the default; a pool of the process for callers without a user | save, register, set default or active, delete, use with refresh | several writes per operation, a refresh that takes a round trip, a switch while others' requests run | one default as long as calls come one after another, no deleted token brought back by a stale write; a request keeps to one token, its caller's |
| HTTP transport, `src/transport/http.ts`, `src/transport/security-config.ts` | request counters per address; the settled configuration | start-up checks, request limiter, authentication, Meta-token middleware | windows and their sweep; every combination of modes and secrets | the quota per window, neither more nor less; a token-free server holds no token |
| gateway client, `src/meta/gateway-client.ts` | none | routing of writes by what they touch | a money write that is not recognised, an answer that is lost | a write that shows the gateway client its money is typed, and not reserved at too little |
| writing tools, `src/tools/campaigns.ts`, `ads.ts`, `creatives.ts`, ... | none | one write each, some confirm or read back | what the fields of an input make of the routing | as above |
| safe download, `src/utils/url-guard.ts`, `src/utils/safe-download.ts` | one download | vet, resolve, connect, redirect, receive | a name that resolves to another address each time, redirects, size | only public addresses are reached, within the limits |
| asynchronous reports, `src/tools/reports.ts` | time of the last poll per report | create, poll, run and wait | deadline and growing interval, polls of several callers | polls keep their distance, the wait ends |
| parallel reading tools, `src/tools/macros.ts`, `src/tools/insights-views.ts` | the answers of one call | four tools that ask several questions at once | answers told apart by their place, some missing, some failed | each answer under its question |
| insights guardrails, `src/tools/insights-guardrails.ts` | none | four rules in order | a refusal whose advice is refused in turn | the advice leads on to a later rule, or to acceptance |
| pagination, the reading tools, entry points, utilities | none | validate, forward, format | - | - |

They interact by calls: a tool calls the client; the client asks the breaker,
the pacer and the limiter, and tells the limiter and the breaker what Meta
answered; in token-free mode it hands its writes to the gateway client. The
clone bundle tool calls the client once per resource and the store after each;
the uploading tool calls the safe download first. The routes and the OAuth
provider share the session; the routes and the token tools share the repository
and the pool, from which the middleware and the client get the token of a call.

## Modules

| module | models | correspondence |
|---|---|---|
| `Clock` | `Date.now()` | `now`, in ticks; the module that composes it says what a tick leaves alone |
| `RequestScope` | `RequestContext`, `CircuitContext` | sets of tokens, accounts, types and calls |
| `MetaErrors` | `classifyMetaError` | the chain of rules in the code's order, over (code, subcode); messages are left out |
| `CircuitBreaker` | the class of that name | `circuits` is the map of `openUntil`, `throttleEvents` that of recent throttles; `AssertClosed`, `Trip`. A throttle event also names the call it hit, so that two in one tick are two |
| `BreakerHistory` | the breaker on its own | every stream of errors and admissions; histories of what was counted and promised |
| `CoolDown` | what the breaker promises | a deadline per key that only moves later and ends only by time; `BreakerHistory` implements it |
| `RateLimiter` | the class of that name | `buckets`, keyed by tuples for the code's colon-joined strings; a bucket's usage is the largest of its three percentages, which is all that the delay uses |
| `WritePacer` | the class of that name | `pacer`, levels in whole shares of a write |
| `PacedWrites` | the pacer on its own | calls that acquire, sleep and wake on one bucket |
| `RequestPipeline` | `MetaApiClient.execute` | composes breaker, limiter, pacer and classification; `req[r].pc` is the `await` at which call `r` stands; `Creating` are the calls that create something at Meta, `CreatingPath` those whose path `isCreatingRequest` takes for that |
| `CloneBundleStore` | `FirestoreStore` | the record of one key; `claim` is one transaction, `update` a merging write |
| `CloneBundle` | `ads_clone_ad_set_bundle` | `run[r].pc` is the `await` at which execution `r` stands; a crash is possible at each |
| `TokenRepository` | `FirestoreMetaTokenRepo` and the handlers that call it | `tokens` maps a name to its document (kind, expiry, default or not); `handler[r].pc` is the next call of Firestore or Meta of handler `r`; `alone` and `outcome` are histories |
| `OAuthServer` | registration, sign-in, session, consent, and the token endpoint, over their stores | `handler[h].pc` is the `await` at which request `h` stands; `session`, `code` and `refresh` map an id to its record, whose stage is free (not drawn yet), listed (in its store), redeemed or dead; `expired` holds the ids whose time is over; `delivered` and `disturbed` are histories |
| `SingleUse` | what the authorization server promises | credentials are issued, redeemed once for one successor, and die; `OAuthServer` implements it |
| `SecurityConfig` | `security-config.ts`, `getServerUrl`, and the checks inline in `startHttpTransport` (the stores, no Meta token in token-free mode) | `Environments` are all combinations of what start-up looks at; `Settlements` are the configurations of the processes that start |
| `TokenPool` | `token-manager.ts`, `getAccessToken` | `pool`, `active`; `given` is a history of all the process was ever handed |
| `RequestAuth` | the way of a request to the token of its Graph calls, and the token tools | `request[r]` is the context in `AsyncLocalStorage`; `saved` stands for `TokenRepository`: a user's tokens, any of which a use may find to be the default |
| `RequestLimiter` | `createRateLimiter` | `requests`: door, address, entry; `log` is a history |
| `GatewayRouting` | `GatewayWriteClient.route` and what it calls | fields are functions from keys (sequences of words, so that a suffix of a key is a suffix) to amounts, words and nested JSON |
| `WriteTools` | the write of every tool, the write methods of `client.ts` | an `Ask` per shape of input a rule can tell apart; `HidesSpending` are the asks that spend where the gateway client does not look |
| `SafeDownload` | `url-guard.ts`, `safe-download.ts` | `fetch` is one download; `Lookups` is what the DNS may answer at each lookup |
| `AsyncReports` | `reports.ts` | `lastPollAt`; `wait[w]` is a call of run-and-wait; `polls` is a history |
| `InsightsGuardrails` | the rules of that name | `query` is what a caller asks, and what came of it; `Advised` are all the ways that a refusal offers |
| `ParallelReads` | four tools of `macros.ts` and `insights-views.ts` | `reading.answers`, in the order the questions were issued |
| `McpServer` | the process under load | composes the modules from `SecurityConfig` to `ParallelReads` |
| `BreakerProofs`, `PipelineProofs`, `PacerProofs`, `CloneProofs`, `TokenProofs`, `OAuthProofs`, `SignInProofs`, `ServerProofs` | - | theorems and proofs |
| `MC*` | - | constants for TLC |

`Begin` of `RequestPipeline` is what `execute` does from `assertClosed` to its
first `await`: the gate, and the pacer or the limiter's look. `PacingEnds`,
`WaitIfNeeded` and `Send` are the continuations of the waits; `HeadersArrive`
is the part from the answer's headers to `response.json()`; `Succeed`,
`MetaError` and `NoAnswer` are the ways on from there. All failures that the
code ends in the same retry (abort, network error, unreadable body, a status
that is not ok and carries no Graph API error) are one action: what they have
in common is the retry, and what Meta did meanwhile is open.

In `CloneBundle`, `LookUp`, `ReadSource`, `Claim`, `CreateAdSet`, ... follow the
handler from one `await` to the next. A creating request may succeed and lose
its answer (`MakeUnknown`): the client does not repeat it. A write to the store
may throw before or after it has taken effect.

In `TokenRepository` a handler is begun by `SignIn` (the callback of
`auth-routes.ts`), `Register`, `Activate` and `Delete` (the token forms, the
token tools, and POST /authorize for `Activate`), or `Use` (the middleware of
`http.ts`), each with the first read it makes, and goes on by one call of
Firestore at a time: `Look` and `Save` are `saveToken`, `ReadAll` and `Commit`
are `clearDefaults`, `Flag` sets a default, `Remove` and `Promote` are
`deleteToken`, `Fetch`, `Exchange` and `Persist` are `getDecryptedToken` with its
refresh. A batch, and an update, throws when a document of it has been deleted.
The handlers are of any process: nothing is shared but the database.

In `OAuthServer` each request begins with what it reads before its first
`await` (`Callback`, `Logout`, `AskConsent`, `Consent`, `Exchange`, `Refresh`,
`Revoke`) and goes on from `await` to `await`: `SignIn` and `OpenSession` are
the callback's, `CheckSession`, `ShowConsent` and `Authorize` are the consent's,
`Challenge` and `Consume` the exchange's, `Rotate` the refresh's, and `Mint` is
`generateTokens` for both. What a response does to the cookies is done when the
response is sent, not when the request arrives, so that two tabs overlap. A
store throws without effect (`Fails`), or with its effect done (the second
disjuncts of `OpenSession`, `Authorize`, `Consume`, `Rotate`, `Mint`), or its
error is swallowed (`CloseSession`, `Unlist`), as the code around it has it.
`Restart` empties the stores in memory, and not those in Firestore. The stores'
`consume` is one transaction in Firestore and one step in memory.

`McpServer` is one process. Its `Door` (the limiter before /register and
/token), `Token` (a request of /mcp), `Write`, `Download`, `Upload`, `Query`,
`RunReport` and `Read` share the settled configuration and the clock and no
other state. A behaviour therefore has one kind of load (variable `load`): what
two kinds do at once is the product of what each does alone, which would only
multiply the states. An upload is one load with its download: `ads_upload_ad_image`
sends what `SafeDownload` fetched, or throws if that failed. `given`, `log`,
`polls` and the answers' own numbers are there to observe.

## Runs

| run | what it asks | states |
|---|---|---|
| `breaker` | `RepeatedThrottleHalts`, `HintsHonoured`, and the refinement `ImplementsCoolDown`: 4 calls, one key, one error per throttling rule, 5 ticks | 154,236 |
| `pipeline` | `RecognisedCreatedOnce`, `ThrottleEndsCall`, `SilenceKept`, `RegainHonoured`, `ThrottleIsolated`, `CallsGetOn`: a creating write, an update and a read of one account at once | 1,036,716 |
| `paced_writes` | `PromptWithinQuota`: 6 calls on one bucket, the tier changing | 10,902 |
| `clone` | `ClaimsAWindowApart`, `AdSetsApart`, `ResultsAreReal`, `LedgerKeepsUp`: 3 executions (two retries of one payload, one of another), 2 ads | 5,206,268 |
| `token_repository` | `QuietHasOneDefault`, `ExpiredIsNotUsed`, `DeletedStaysDeleted`, `SwitchIsExact`: 3 calls, each any operation, on a user with up to 2 tokens, overlapping or not | 2,309,129 |
| `oauth` | `OneHolder`, `GrantSurvives`, `TokenActsForItsUser`, `SignInIsOwn`, `SignedOutStaysOut`, and the refinement `ImplementsSingleUse`: two requests at a time, from sign-in to the third generation of refresh tokens | 311,684 |
| `server` | `QuotaIsKept`, `ActsAsItsCaller`, `TokenFreeHoldsNone`, `ShownMoneyIsTyped`, `PollsSpaced`, `FetchesVetted`, `AnswersAreOfTheirQuestion`, `AdviceHelps`, and the liveness property `EveryToolReturns`: the process under every configuration that starts and every load | 109,522 |
| `hard_stop` | violated: see below | - |
| `write_burst` | violated | - |
| `one_bundle_per_key` | violated | - |
| `second_sign_in` | violated | - |
| `created_twice` | violated: two creating writes, one of them a reply to a comment | - |

The violated runs check sentences of the code's own comments, descriptions and
messages, and TLC's traces show what the code does instead:

- `hard_stop`: "if open, never call Meta" (`client.ts:216`). `assertClosed` is
  asked once, before the waits of the pacer and the limiter and before the
  retries. Two calls pass it; one is answered with an abuse signal and opens
  the circuit; the other, still waiting, then sends.
- `write_burst`: "a burst of writes never blows the hourly quota"
  (`write-pacer.ts:10`). Calls that find the bucket empty each compute the time
  until *one* write has accrued, sleep side by side, and all go when it is over;
  the level is clamped at zero, so that the debt is forgotten.
- `one_bundle_per_key`: "reusing the same key returns the prior result instead
  of duplicating resources" (`adsets.ts:413`). A retry after 15 minutes takes
  over an operation that is still marked in progress and makes a second ad set;
  the new record no longer lists what the first execution made.

- `second_sign_in`: "No Meta token registered for user" (`meta-token-repo.ts:334`).
  `saveToken` of the token that *is* the default, without `setAsDefault`, finds a
  default - the document it is about to replace - and writes `isDefault: false`.
  Registering the default token again does so, and so does signing in a second
  time (`auth-routes.ts:272`). The user has tokens and no default, and is told to
  sign in again. `QuietHasOneDefault`, which holds, excludes this sequence.

- `created_twice`: "Other POSTs (updates on /<id>) and DELETEs are idempotent at the
  API level" (`client.ts:237-238`). What creates is told from the path, and three tools
  create on other paths: a reply to a comment (`comments.ts:135-136`), a lead form
  (`leads.ts:199-200`), a budget schedule (`budget.ts:28-29`). Meta carries the request
  out, its answer is lost, and the retry creates a second one; "Re-running creates
  duplicate replies" (`comments.ts:126`) says so of the first. `RecognisedCreatedOnce`,
  which holds, is about the paths that are recognised, and `CreationsBounded` says
  what is left for the others: one per attempt.

### What else the code does that its text does not say

No run is spent on these; the properties that pass leave them out openly, and say so.

- Abuse signals (613/1996) should "pause the entire token" (`circuit-breaker.ts:170-172`;
  also `rate-limiter.ts:195-197` and `errors.ts:88`). `trip` opens the circuit of the
  (token, account, type) of the call that met the signal, as for any throttle, and no
  circuit of a token alone is ever opened: calls for its other accounts go on.
  `ThrottleIsolated` is about throttles that are of one account, which the code means
  to be isolated and `client.test.ts:252` tests.
- What is money-significant is to go to `/v1/act` (`gateway-client.ts:7-9`). A budget
  schedule names its amount `budget_value`, which is no money key, and a rule says in
  `execution_spec`, which is no structured field, that it will change a budget or a bid
  or start delivery (`rules.ts:10-13`, `111-124`); both go to `/v1/meta`. Lines 12-15
  say that the gateway itself refuses budgets there, and whether it knows these is
  outside the repository. `ShownMoneyIsTyped` is about every other write that spends.
- Rule 1 of the insights guardrails offers "an async report with tighter scope" (line
  50), and refuses that as well at the level of the account, in the same words: it asks
  neither for a report nor for the range (line 47). `AdviceHelps` states it: every other
  way that a refusal offers leads to a later rule or to acceptance.
- An execution of the clone bundle whose key was taken over writes to the record all the
  same (`update`, `clone-bundle-store.ts:101`), even after it is completed, and may turn
  a completed record into a failed one. No property excludes it.

### Bounds, and why they are enough

Time is scaled: what matters is the order of the durations, and which of them
fall within one another. In the code the throttle window (5 min) is shorter
than every cool-down (15, 30, 60 min), and the abuse silence is the longest; the
runs use 2, 2, 2 and 3 ticks (a cool-down may equal the window, the edge of
`BreakerAssumption`) and a hint of 1 for a silence that may be overtaken. The
threshold is 2 instead of 3, so that 4 calls trip it twice. `MaxTime` (the last
tick of the clock) lets a circuit open, expire and open again. The theorems of
`BreakerProofs` hold without any of these bounds.

In the pipeline all calls belong to one account, because that is where they
disturb each other; a second account has no calls and is there for
`ThrottleIsolated`, which quantifies over contexts. In `created_twice` a reply, whose
path names no account, runs beside a write that is recognised. Header sets are none, and
one with every kind of header, with times to regain, a usage beyond the
staircase's last step, and two reports of the tier. One retry (the code has 3)
is enough for a duplicate and for the exhaustion of the attempts. `LastStart`
bounds the tick at which a call begins.

In `PacedWrites` a write is 3 shares, the slow tier refills 2 and the fast tier
4 per tick, so that neither a write nor a tick divides the other. Six calls
exceed what the bucket holds (2) and gains.

In `CloneBundle` the stale window is 1 tick of 4, so that a third execution can
take over from a second one that took over from the first. Two ads are the
fewest with which one may be skipped; one of them is swapped.

In `TokenRepository` two names are the fewest with which a switch has something
to clear and a deletion something to promote; three calls, because two that
overlap may leave two defaults or none, and the third is then a switch that runs
alone. A new token lives 2 ticks and is due for a refresh with less than 2 left,
so that in 3 ticks one is used as it is, refreshed in time, and refreshed late.
Two tokens of a user may both be defaults, or none, in reachable states: the
properties say from which calls that comes.

In `oauth` two requests overlap, of two browsers, two users (one on the
allow-list) and two clients. One code suffices, because `OneHolder` and
`GrantSurvives` speak of one code's line; three refresh tokens are two rotations,
the fewest after which a token of the first generation can be presented again
while one of the third is out. One session id and one nonce are enough for a
browser to present what another one drew, what was closed, and what has
expired. `MaxClients` is 1, so that the store in memory is full. The theorems
about this module hold without any of these bounds.

In `server`, `MaxTime` is 7 ticks: a wait of at most 3, with intervals of 2 and 3,
and two windows of length 1 with their edges. The limit is 2 requests per window
and `MaxRequests` 5, more than two quotas. `MaxPolls` 3 polls by hand, so that a
refused one lies between two others. The amounts are two, so that the larger of
two budgets matters. The addresses are the two edges of each kind of private range
(15 of them, 10 internal); `MaxRedirects` is 1 and `MaxBytes` 2, so that each
limit is met and passed. The tools nest a field once, so that `MaxNesting` is 2. A
portfolio has up to 2 accounts, the same one twice included. A query spans no days, a month, 91 days (past the rule's 90) or 1111 (past
its 37 months). There are three tokens outside the environment, one for each user
and one that nobody owns, and two requests.

Symmetry is used where calls or ids are interchangeable (`breaker`, `paced_writes`,
`token_repository`, `oauth`).
Deadlock is not checked where the model describes finitely many calls that end,
or finitely many ids to draw (`pipeline`, `clone`, `token_repository`, `oauth`,
`server`): once all have ended and the clock has stopped, nothing
remains to be done. `breaker` and `paced_writes` check it: an admission, a
refusal, or a report of the tier is always possible.

### Fairness

Only the liveness property of `server` assumes any. That a call of the client comes to an
end is stated without it, by `CallsGetOn`: every step of a call lowers a bounded number
of steps left, whatever the others do. What remains is for the run time: timers fire, and
requests end. The code aborts `fetch` after 30 s (`client.ts:249`); it clears that timer
before the body is read (`client.ts:260`), so that nothing in the code ends a body that
stalls.

`server`. `WF(TimePasses)`: the clock runs. `WF(Write /\ WriteOn)`: a write that
was sent is answered, or ends by the client's or the gateway client's timeout.
`WF(Download /\ DownloadOn)`: a lookup answers, and a connection makes progress
or meets the timeout of `safe-download.ts:192`. `WF(RunReport /\ WaitOn(w))`: a
sleep ends and a poll is answered; nothing is assumed of the report itself, which
may run for ever. `WF(Read /\ reading.pc = "asked")`: questions are answered or
fail.

No strong fairness is used: no action that a property needs is disabled again
by another call.

## Proofs

`BreakerProofs`, over `BreakerHistory`, from the assumptions on the constants
(`BreakerAssumption`: durations positive, the repeated cool-down no shorter than
the window; `HintAssumption`; `MaxTimeAssumption`):

- `Typed`: `Spec => []TypeOK`. An event carries a tick that has been, which is
  what makes the counting arguments finite.
- `Halts`: `Spec => []RepeatedThrottleHalts`. The invariant alone is not
  inductive: it says nothing of what the counter still knows. `CountingInv` adds
  that every throttle ever counted is among the recent events of its key, or is
  older than the window, or was paid for by a circuit that stays open for the
  cool-down from the throttle's time on (`Accounted`), and that the recent events
  are fewer than the threshold (`BelowThreshold`). The step that trips is where
  the cool-down must be no shorter than the window.
- `Honours`: `Spec => []HintsHonoured`, by `HintsInv`. `openCircuit` never
  shortens, and the sweep drops only what has elapsed.
- `Implements`: `Spec => ImplementsCoolDown`. The abstract deadline of a key is
  that of its circuit while it lies ahead, and 0 otherwise. A trip maps to
  `Silence` or, where the longer deadline stays, to a stutter or a `Silence`
  that changes nothing; the sweep stutters; a tick maps to `Elapse`.

`PipelineProofs`, over `RequestPipeline`, from the assumptions of its parts and
`PipelineAssumption` (there are finitely many buckets, and what a header says is a
percentage and a number of ticks). `Leads` sums up what a step of a call may do to
the call and to the state it shares; each invariant is then shown against `Leads`
and the clock alone:

- `RecognisedOnce`: `Spec => []RecognisedCreatedOnce`. `Once` adds that nothing was
  carried out for such a call that is not over: the step in which Meta may act for a
  request of a creating path is the one that ends its call, because it never backs off.
- `CreationsBounded`: what creates on any other path is carried out at most once per
  attempt, by `Bounded`. That it may be more than once is the run `created_twice`.
- `ThrottledIsOver`: `Spec => ThrottleEndsCall`, from `Ended`.
- `Silent`: `Spec => SilenceKept`, from `Silence`: the circuit of a key is open to
  the end of what was promised for it. Sweeps, shorter hints and counted throttles
  of other calls keep it, as `OpenCircuit` never moves a deadline back.
- `Regained`: `Spec => RegainHonoured`, from `Waits`: the timer of a waiting call is
  no earlier than any time to regain found when it looked, and a bucket written
  since has a later time. That the wait is the greatest of the delays needs that
  there is one: `GreatestExists`, by the smallest set that has none.
- `Isolated`: `Spec => ThrottleIsolated`. What a throttle writes is a bucket that
  applies to its account alone, and a circuit no other account's key begins with.
  Abuse signals are left out, as in the property.

- `PipelineTyped`: `Spec => []TypeOK`, from `Kept`, which adds what a call must
  know where it stands: one that is paced names an account, a timer is a number of
  ticks. That the backoff `2^n` is a number needs induction as the library defines
  powers; `PowerType` counts the subsets of `1..n` instead.
- `GetsOn`: `Spec => CallsGetOn`: `StepsLeft` is at most 6, and 3 for each retry, and every step of a
  call lowers it. No wait, retry, failure or step of another call sets it back.
- `Staircase`, of the limiter's delay alone: it never falls as usage rises, is 0 below
  75 percent and at most 60 seconds, rounded up to ticks.

`PacerProofs`, from `PacerAssumption`:

- `PromptWrites`: `Spec => []PromptWithinQuota`. `QuotaInv` counts from the last
  refill of the bucket: prompt writes and level come to no more than the quota up
  to *that* tick, so that the refill credits each tick once. It uses that the
  faster tier's quota bounds the other's.
- `PacedTyped`: `Spec => []TypeOK`, from `BucketAssumption` too. `TypeOK` is
  inductive; a level stays at or above nothing because a write that has waited
  takes what it finds.
- `SleepIsExact`, of the sleep alone: it ends at the first tick by which a whole
  write has accrued, if nobody else takes from the bucket, and no earlier. What a
  burst makes of that is the run `write_burst`.

`CloneProofs`, from `StoreAssumption` and `BundleAssumption` (the ads are numbered
from 1; an execution is none of the answers that are not results):

- `Lock`: `Spec => []ClaimsAWindowApart`. `LockInv` ties the claims to the record:
  whoever has claimed, the record is no longer absent and has a start no earlier
  than that claim; a claim then needs the start, and so every earlier claim, to lie
  more than the stale window back.
- `BundleTyped`: `Spec => []TypeOK`. `Types` adds what an execution knows it made at
  each of its stages (`Sound`: past the first save there is an ad set, in the loop
  an ad in hand, at the end an ad that was made), and that this exists at Meta.
- `SecondAfterTheWindow`: `Spec => []AdSetsApart`, what is left of the violated
  `OneBundlePerKey`: two ad sets under one key are of executions whose claims lie
  more than the stale window apart, because nothing is made without a claim
  (`MakersClaim`) and an execution makes one ad set.
- `Results`: `Spec => []ResultsAreReal`. `ResultInv` says the same of the result in
  the record as of what callers were told, and that the record's payload is that of
  the only execution that has claimed it, if there is only one.
- `Ledger`: `Spec => []LedgerKeepsUp`. `Kept` is by the stage of the execution:
  between making and saving one resource may be missing, elsewhere none, and a
  record that failed was written last by an execution with nothing left to list.

`TokenProofs`, from `RepositoryAssumption`:

- `RepositoryTyped`: `Spec => []TypeOK`, from `Types`, which adds that a call at
  work has come to no outcome.
- `Deleted`: `Spec => DeletedStaysDeleted`. Every write but that of `Save` and
  `Remove` keeps the kind of every document (`ContinueWrites`).
- `Switch`: `Spec => SwitchIsExact`. `SwitchInv` adds that no other call is at
  work beside one that runs alone, that a lone switch about to commit its batch
  has read every document, and that one about to set its default has left none.
- `NoneExpired`: `Spec => []ExpiredIsNotUsed`. A token that has expired is always
  due, since the threshold is positive; what is due is not used before an exchange,
  and a failed one uses it only if it had not expired (`UsesGood`).
- `OneAfterAnother`: `Spec => []QuietHasOneDefault`, from `DefaultInv`: as long as the
  calls came one after another, each stage of the one at work finds what it relies on
  (`Relies`) - one default where nothing is written yet, none between clearing and
  flagging, and a `default` flag read earlier that is still true.

The authorization server's proofs are two modules, one built on the other. From
`OAuthAssumption` (the kinds of ids are disjoint, `None` is none of them):

- `OAuthProofs`, `ServerTyped`: `Spec => []TypeOK`. `TypeOK` alone is not
  inductive: what a handler needs at its next step must be there. `Types` adds
  `Proper` (by the step at which a handler stands, it has a browser, a session, a
  code or a refresh token, and is of a code's line if it mints) and that an
  issued refresh token has a code.
- `OAuthProofs`, `Holder`, `ActsForItsUser`, `GrantsSurvive`: `Spec =>
  []OneHolder`, `[]TokenActsForItsUser`, `[]GrantSurvives`. `Lines` says of each
  code's line that tokens follow from what was redeemed (`TokensFollow`), that a
  minting handler has redeemed what it was given and nothing else was issued for
  it (`MintersRedeemed`), that what is presented was delivered and so was issued
  (`Rotators`), and that listed tokens and minting handlers of a line exclude one
  another (`OneWay`); `OneHolder` follows. `Survives` adds the converse: a code that
  was not disturbed has such a token or handler, or is itself listed.
- `SignInProofs`, `SignedInAsItself`, `ClosedForGood`: `Spec => SignInIsOwn`,
  `SignedOutStaysOut`, from `SessionInv`: a browser's nonce is of its own attempt,
  and so is that of a callback past its check (`Attempts`); a session named by a
  cookie was opened, and one that a handler has deleted is dead (`Closings`).
- `SignInProofs`, `CredentialsAreOfSingleUse`: `Spec => ImplementsSingleUse`. The
  abstract stage of a credential is that of its record, its parent the one it was
  issued for. `Consume` and `Rotate` map to `Redeem`, `Mint` to `Succeed` (by
  `MintersRedeemed`, its parent is redeemed and has no other successor), `Authorize`
  and `OpenSession` to `Issue`, deletions and `Restart` to `Die`, all else to a stutter.

`ServerProofs` is over `McpServer`. `Parted`: a step of the server is a step of one
component and leaves the others' state alone, or leaves all of it alone; so each
component has an inductive invariant over its own variables.

- `OwnTokens`, `NoTokens`: `Spec => []ActsAsItsCaller`, `[]TokenFreeHoldsNone`, from
  `AuthInv` (`HolderAssumption`, `PoolAssumption`). `Sound` ties the token of a
  request to where it came from: its header, a token its user had saved, or the
  supply of the process; `Supplies` says that the pool holds only what it was given
  and that what a user has saved is the user's. That a request never goes without a
  token, unless over stdio, is what keeps the pool from being asked in its middle. An
  environment that names a token does not start token-free (`Settling`), and a
  request in that mode registers none.
- `QuotaKept`: `Spec => []QuotaIsKept`, from `LimiterInv` (`LimiterAssumption`). An
  entry of the map counts one window and forgets those before; the invariant says
  that there are starts of windows, more than a window apart, that cover all that was
  asked, with at most the limit passed in each, and the entry counts the last one.
  `QuotaOfWindows` then bounds what lies in any stretch as long as a window, which
  meets at most two of them.
- `ShownMoneyTyped`: `Spec => []ShownMoneyIsTyped`, from `WriteInv` (`WriteAssumption`:
  amounts are numbers), for every ask that spends but those of `HidesSpending`. `AsksAskable` goes through the write of every tool; `RouteIsTyped`
  through the ways of `route`: fields that show money make an action that is priced
  (`SpendingShows`), its hint is no less than any budget it names (`HintCovers`), and
  an alias keeps the amount it renames (`AliasesReserve`).
- `OnlyVetted`: `Spec => []FetchesVetted`, from `FetchInv` (`DownloadAssumption`: what
  is internal is what the ranges of `url-guard.ts` cover).
- `Unhurried`: `Spec => []PollsSpaced`, from `ReportInv` (`ReportsAssumption`:
  intervals between the least and the longest, a wait is not called "status"). It
  adds that `lastPollAt` is no earlier than any poll by hand, and that a sleep ends a
  minimum interval after every poll of its wait.
- `Matched`: `Spec => []AnswersAreOfTheirQuestion`, from `ReadInv` (`ReadAssumption`).
  Every answer remembers its question; `DiagnosisRight`, `AnomalyRight`, `ContextRight`
  and `PortfolioRight` show that each report takes it from the right place.
- `ServerTyped`: `Spec => []TypeOK`, from all of these and `GuardInv`.
- `Helped`: `Spec => AdviceHelps`. Each way that a refusal offers is followed through
  the rules (`FollowedAdvice`): it removes the objection it was refused for and adds none
  of an earlier rule, but for the report of rule 1, which that rule refuses again.
- `WaitedOut`, `Downloaded`: what of `EveryToolReturns` is no question of fairness. Every
  step of a wait, or of a download, lowers a number of steps left, `WaitLeft` or `FetchLeft`. For
  a wait this needs `SleptInv`: it polls only when its sleep is over, so that the
  next sleep ends later than the last.

The inductive invariants were given to TLC, on the constants of the runs, before
they were relied on.

Every safety invariant and action property of the passing runs, and both
refinements, are thus proved for every value of the constants. Only model-checked
is the liveness property `EveryToolReturns`: it needs fairness and ENABLED, which the
prover does not reason about. The five violated properties are shown by a trace each.

## Not modelled

- `WritePacer.updateActiveAds` has no caller; `snapshot` and `reset` only read
  or serve tests.
- The jitter of the backoff and the fractions of a tick: waits are whole ticks,
  rounded up.
- A dry run of the clone bundle, which makes nothing; the in-memory store, with
  which a crash loses everything; renaming a copied ad and attaching a swapped
  creative, which no other execution sees.
- The in-memory token repository, used without Firestore by one process; encryption
  and its fall-back for old documents; the profile document of a user.
- Of the HTTP transport: CORS, headers, the metadata documents and the pages.
  Access tokens are signed and carry their user; a signature is a condition of
  the caller's input (`Person`), a code verifier that does not match is an input of
  `Exchange`, scopes are left out.
- The calls to Meta of `meta-oauth.ts`, each one answer or failure; `crypto.ts`.
- The gateway itself. That it may have carried out a write whose answer was lost is
  beyond this repository, and the client does not repeat one.
- Pagination: pure functions that clamp a limit and copy a cursor. No tool loops
  over pages; `getPaginated` of the client is a sequence of reads, which
  `RequestPipeline` has one by one.
- The tools that read: each forwards one request and formats the answer, and
  keeps no state. What they ask of the guardrails, and what the four tools with
  several questions make of the answers, is modelled.
- Entry points but the choice of the transport; validation of ids, formatting,
  logging.
