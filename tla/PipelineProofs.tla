---------------------------- MODULE PipelineProofs ----------------------------
(***************************************************************************)
(* What the run of RequestPipeline shows, for any number of calls, tokens, *)
(* accounts, attempts and headers, and for cool-downs of any length.       *)
(***************************************************************************)
EXTENDS RequestPipeline, FiniteSetTheorems, WellFoundedInduction, TLAPS
LOCAL INSTANCE FiniteSetsExt

Locals == {"pc", "wake", "attempt", "gatedAt", "throttled"}

Shaped ==
  /\ DOMAIN req = Calls
  /\ \A r \in Calls : DOMAIN req[r] = Locals /\ req[r].pc \in Stages

\* A call that Meta throttled is over.
Ended == \A r \in Calls : req[r].throttled => req[r].pc = "failed"

\* A request that creates, and is known to by its path, is carried out, if at all, by the
\* step that ends its call.
Once ==
  /\ applied \in [Creating -> Nat]
  /\ \A r \in Creating \cap CreatingPath :
       applied[r] <= 1 /\ (req[r].pc \notin Settled => applied[r] = 0)

\* One that is not known to is carried out by each of its attempts at most.
Bounded ==
  \A r \in Creating :
    /\ applied[r] <= 1 + MaxRetries
    /\ req[r].pc \notin Settled => applied[r] <= req[r].attempt

\* The circuit of a key stays open to the end of every silence asked for.
Silence ==
  /\ now \in Nat
  /\ circuits \in [CircuitKeys -> Nat]
  /\ promised \in [CircuitKeys -> Nat]
  /\ \A k \in CircuitKeys : promised[k] > now => circuits[k] >= promised[k]

\* A call that waits does so to the end of every time to regain it found when it looked.
Waits ==
  \A r \in Calls : req[r].pc = "limiting" =>
    /\ req[r].gatedAt \in Nat /\ req[r].gatedAt <= now
    /\ req[r].wake \in Nat
    /\ \A k \in BucketKeys :
         BucketAppliesTo(k, Ctx[r]) /\ buckets[k].at < req[r].gatedAt =>
           buckets[k].at + buckets[k].regain <= req[r].wake

Waiting == now \in Nat /\ buckets \in [BucketKeys -> Bucket] /\ Waits

Others(r) == \A q \in Calls \ {r} : req'[q] = req[q]

-----------------------------------------------------------------------------

\* How a call moves on, and what else becomes of its locals.
LEMMA GotoMoves ==
  ASSUME Shaped, NEW r \in Calls, NEW stage \in Stages, Goto(r, stage)
  PROVE  Shaped' /\ Others(r) /\ req'[r].pc = stage /\ req'[r].throttled = req[r].throttled
BY DEF Shaped, Goto, Others, Locals

LEMMA GotoAfterMoves ==
  ASSUME Shaped, NEW r \in Calls, NEW stage \in Stages, NEW ticks, GotoAfter(r, stage, ticks)
  PROVE  Shaped' /\ Others(r) /\ req'[r].pc = stage /\ req'[r].throttled = req[r].throttled
BY DEF Shaped, GotoAfter, Others, Locals

LEMMA StartWaitingMoves ==
  ASSUME Shaped, NEW r \in Calls, StartWaiting(r)
  PROVE  /\ Shaped' /\ Others(r) /\ req'[r].pc = "limiting" /\ req'[r].throttled = req[r].throttled
         /\ req'[r].gatedAt = now /\ req'[r].wake = now + ThrottleDelay(Ctx[r])
BY DEF Shaped, StartWaiting, Others, Locals, Stages

LEMMA BackoffMoves ==
  ASSUME Shaped, NEW r \in Calls, Backoff(r)
  PROVE  Shaped' /\ Others(r) /\ req'[r].pc = "backoff" /\ req'[r].throttled = req[r].throttled
BY DEF Shaped, Backoff, Others, Locals, Stages

LEMMA SettleMoves ==
  ASSUME Shaped, NEW r \in Calls, NEW outcome \in Settled, NEW b, Settle(r, outcome, b)
  PROVE  Shaped' /\ Others(r) /\ req'[r].pc = outcome /\ req'[r].throttled = b
BY DEF Shaped, Settle, Others, Locals, Stages, NotBegun

LEMMA RetryOrFailMoves ==
  ASSUME Shaped, NEW r \in Calls, RetryOrFail(r)
  PROVE  /\ Shaped' /\ Others(r)
         /\ \/ r \notin CreatingPath /\ req'[r].pc = "backoff" /\ req'[r].throttled = req[r].throttled
            \/ req'[r].pc = "failed" /\ req'[r].throttled = FALSE
BY BackoffMoves, SettleMoves DEF RetryOrFail, CanRetry, Settled

\* Where a step of a call may lead, and what of it Meta has carried out.
Leads(r) ==
  /\ Shaped' /\ Others(r) /\ now' = now
  /\ req[r].pc \notin Settled
  /\ req'[r].pc = "limiting" => StartWaiting(r) /\ UNCHANGED buckets
  /\ req'[r].pc = "inflight" => Send(r)
  /\ req[r].pc = "idle" => Refused(r) \/ AssertClosed(Ctx[r])
  /\ req'[r].throttled => req[r].throttled \/ req'[r].pc = "failed"
  /\ req'[r].throttled /\ ~ req[r].throttled => \E e \in Errors : Throttled(r, ClassifyMetaError(e))
  /\ \/ UNCHANGED applied
     \/ /\ r \in Creating /\ applied' = [applied EXCEPT ![r] = @ + 1]
        /\ req[r].pc \in {"inflight", "body"}
        /\ req'[r].pc \in Settled \/ (r \notin CreatingPath /\ req'[r].pc = "backoff")
  /\ \/ UNCHANGED <<circuits, promised>>
     \/ AssertClosed(Ctx[r]) /\ UNCHANGED promised
     \/ \E e \in Errors : Throttled(r, ClassifyMetaError(e))
  /\ \/ UNCHANGED buckets
     \/ \E headers \in HeaderSets : UpdateFromHeaders(headers, Ctx[r])
     \/ \E n \in Nat : MarkRetryAfter(Ctx[r], Ctx[r].type, n)

\* The class of every error is well formed (errors.ts:62-265).
LEMMA ClassOfError ==
  ASSUME NEW e
  PROVE  ClassifyMetaError(e).hint \in Nat
BY HintAssumption DEF ClassifyMetaError, Throttle, Surface

LEMMA ProceedLeads ==
  ASSUME Shaped, NEW r \in Calls, Proceed(r)
  PROVE  Leads(r)
<1> USE DEF Leads, Settled, Stages
<1>1. CASE Refused(r) BY <1>1, SettleMoves DEF Refused
<1>2. CASE Begin(r)
  <2>1. CASE StartWaiting(r) BY <1>2, <2>1, StartWaitingMoves DEF Begin
  <2>2. CASE Goto(r, "gate") BY <1>2, <2>2, GotoMoves DEF Begin
  <2>3. CASE GotoAfter(r, "pacing", AccrualTime(PacerKey(r)))
    BY <1>2, <2>3, GotoAfterMoves DEF Begin
  <2> QED BY <1>2, <2>1, <2>2, <2>3 DEF Begin
<1>3. CASE PacingEnds(r) BY <1>3, GotoMoves DEF PacingEnds
<1>4. CASE WaitIfNeeded(r) BY <1>4, StartWaitingMoves DEF WaitIfNeeded
<1>5. CASE Send(r) BY <1>5, GotoMoves DEF Send
<1> QED BY <1>1, <1>2, <1>3, <1>4, <1>5 DEF Proceed

LEMMA AnswerLeads ==
  ASSUME Shaped, NEW r \in Calls, Answer(r)
  PROVE  Leads(r)
<1> USE DEF Leads, Settled, Stages
<1>1. ASSUME NEW headers \in HeaderSets, HeadersArrive(r, headers) PROVE Leads(r)
  <2>1. Shaped' /\ Others(r) /\ req'[r].pc = "body" /\ req'[r].throttled = req[r].throttled
    BY <1>1, GotoMoves DEF HeadersArrive
  <2>2. /\ req[r].pc = "inflight" /\ UpdateFromHeaders(headers, Ctx[r])
        /\ now' = now /\ UNCHANGED applied /\ UNCHANGED <<circuits, promised>>
    BY <1>1 DEF HeadersArrive
  <2> QED BY <2>1, <2>2
<1>2. CASE NoAnswer(r) BY <1>2, RetryOrFailMoves DEF NoAnswer, MetaMayApply
<1>3. CASE Succeed(r) BY <1>3, SettleMoves DEF Succeed
<1>4. ASSUME NEW e \in Errors, MetaError(r, e) PROVE Leads(r)
  <2> DEFINE class == ClassifyMetaError(e)
  <2>1. CASE class.throttled /\ Throttled(r, class)
    BY <1>4, <2>1, SettleMoves, ClassOfError DEF MetaError, Throttled
  <2>2. CASE ~ class.throttled /\ class.retryable /\ RetryOrFail(r)
    BY <1>4, <2>2, RetryOrFailMoves DEF MetaError
  <2>3. CASE ~ class.throttled /\ Settle(r, "failed", FALSE)
    BY <1>4, <2>3, SettleMoves DEF MetaError
  <2> QED BY <1>4, <2>1, <2>2, <2>3 DEF MetaError
<1> QED BY <1>1, <1>2, <1>3, <1>4 DEF Answer

LEMMA NextLeads ==
  ASSUME Shaped, [Next]_vars
  PROVE  \/ TimePasses \/ UNCHANGED vars \/ \E r \in Calls : Leads(r)
BY ProceedLeads, AnswerLeads DEF Next

-----------------------------------------------------------------------------

\* Every creating POST is carried out at most once, and a throttled call is over.
LEMMA OnceStep ==
  Shaped /\ Ended /\ Once /\ [Next]_vars => Shaped' /\ Ended' /\ Once'
<1> SUFFICES ASSUME Shaped, Ended, Once, [Next]_vars PROVE Shaped' /\ Ended' /\ Once' OBVIOUS
<1>1. CASE TimePasses \/ UNCHANGED vars
  BY <1>1 DEF TimePasses, Tick, vars, Shaped, Ended, Once
<1>2. ASSUME NEW r \in Calls, Leads(r) PROVE Shaped' /\ Ended' /\ Once'
  <2>1. Shaped' BY <1>2 DEF Leads
  <2>2. Ended' BY <1>2 DEF Leads, Ended, Others, Settled
  <2>3. \A q \in Creating : q \in Calls BY PipelineAssumption
  <2>6. req[r].pc \notin Settled /\ \A q \in Calls \ {r} : req'[q] = req[q]
    BY <1>2 DEF Leads, Others
  <2>4. CASE UNCHANGED applied
    BY <2>1, <2>2, <2>3, <2>4, <2>6 DEF Once
  <2>5. CASE /\ r \in Creating /\ applied' = [applied EXCEPT ![r] = @ + 1]
             /\ req'[r].pc \in Settled \/ r \notin CreatingPath
    BY <2>1, <2>2, <2>3, <2>5, <2>6 DEF Once
  <2> QED BY <1>2, <2>1, <2>2, <2>4, <2>5 DEF Leads
<1> QED BY <1>1, <1>2, NextLeads

LEMMA OnceInit == Init => Shaped /\ Ended /\ Once
BY DEF Init, Shaped, Ended, Once, NotBegun, Locals, Stages

\* client.ts:232-242: whatever is lost, late or refused on the way, a request that
\* creates a resource is carried out at most once per call if its path says that it creates.
THEOREM RecognisedOnce == Spec => []RecognisedCreatedOnce
<1>1. Once => RecognisedCreatedOnce BY DEF Once, RecognisedCreatedOnce
<1> QED BY <1>1, OnceInit, OnceStep, PTL DEF Spec

\* client.ts:286 and README.md:488: a call that Meta has answered with a throttle
\* never reaches Meta again.
THEOREM ThrottledIsOver == Spec => ThrottleEndsCall
<1>1. Shaped /\ Ended /\ [Next]_vars => [\A r \in Calls : req[r].throttled => req'[r].pc = "failed"]_vars
  <2> SUFFICES ASSUME Shaped, Ended, [Next]_vars, NEW r \in Calls, req[r].throttled
               PROVE  req'[r].pc = "failed"
    OBVIOUS
  <2>1. CASE TimePasses \/ UNCHANGED vars BY <2>1 DEF TimePasses, Tick, vars, Ended
  <2>2. ASSUME NEW q \in Calls, Leads(q) PROVE req'[r].pc = "failed"
    BY <2>2 DEF Leads, Ended, Others, Settled
  <2> QED BY <2>1, <2>2, NextLeads
<1> QED BY <1>1, OnceInit, OnceStep, PTL DEF Spec, ThrottleEndsCall

-----------------------------------------------------------------------------

LEMMA KeyOfCall ==
  ASSUME NEW r \in Calls
  PROVE  Ctx[r] \in Contexts /\ Key(r) \in CircuitKeys /\ Key(r) \in RelevantCircuits(Ctx[r])
<1>1. Ctx[r] \in Contexts BY PipelineAssumption
<1>2. Key(r) \in CircuitKeys BY <1>1 DEF Key, circuitKey, CircuitKeys
<1>3. Key(r) = SubSeq(Key(r), 1, Len(Key(r))) BY DEF Key, circuitKey
<1> QED BY <1>1, <1>2, <1>3 DEF RelevantCircuits, Key

\* openCircuit never moves a deadline back (circuit-breaker.ts:152-156).
LEMMA Opened ==
  ASSUME circuits \in [CircuitKeys -> Nat],
         NEW key \in CircuitKeys, NEW until \in Nat
  PROVE  /\ OpenCircuit(key, until) \in [CircuitKeys -> Nat]
         /\ OpenCircuit(key, until)[key] >= until
         /\ \A k \in CircuitKeys : OpenCircuit(key, until)[k] >= circuits[k]
         /\ \A k \in CircuitKeys \ {key} : OpenCircuit(key, until)[k] = circuits[k]
BY DEF OpenCircuit

\* A throttle writes one circuit, and promises no more than that circuit keeps.
LEMMA ThrottleOpens ==
  ASSUME Silence, NEW r \in Calls, NEW e, Throttled(r, ClassifyMetaError(e))
  PROVE  /\ Silence'
         /\ \A k \in CircuitKeys \ {Key(r)} : circuits'[k] = circuits[k]
<1> DEFINE class == ClassifyMetaError(e)
           d     == CoolDownOf(class)
<1>1. Key(r) \in CircuitKeys /\ now' = now /\ now \in Nat BY KeyOfCall DEF Throttled, Silence
<1>2. d \in Nat BY HintAssumption, BreakerAssumption, ClassOfError DEF CoolDownOf
<1> HIDE DEF d
<1>3. CASE d > 0
  <2>1. circuits' = OpenCircuit(Key(r), now + d) BY <1>3 DEF Throttled, Trip, Key, d
  <2>2. promised' = IF promised[Key(r)] < now + d
                    THEN [promised EXCEPT ![Key(r)] = now + d] ELSE promised
    BY <1>3 DEF Throttled, Extend, d
  <2> DEFINE new == OpenCircuit(Key(r), now + d)
  <2>3. /\ new \in [CircuitKeys -> Nat]
        /\ new[Key(r)] >= now + d
        /\ \A k \in CircuitKeys : new[k] >= circuits[k]
        /\ \A k \in CircuitKeys \ {Key(r)} : new[k] = circuits[k]
    BY <1>1, <1>2, Opened DEF Silence
  <2> HIDE DEF new
  <2>4. circuits' = new BY <2>1 DEF new
  <2> QED BY <1>1, <1>2, <2>2, <2>3, <2>4 DEF Silence
<1>4. CASE d = 0
  <2>1. promised' = promised BY <1>4 DEF Throttled, Extend, d
  <2>2. CASE circuits' = circuits BY <1>1, <2>1, <2>2 DEF Silence
  <2>3. CASE circuits' = OpenCircuit(Key(r), now + RepeatedCooldown)
    <3> DEFINE new == OpenCircuit(Key(r), now + RepeatedCooldown)
    <3>1. /\ new \in [CircuitKeys -> Nat]
          /\ \A k \in CircuitKeys : new[k] >= circuits[k]
          /\ \A k \in CircuitKeys \ {Key(r)} : new[k] = circuits[k]
      BY <1>1, BreakerAssumption, Opened DEF Silence
    <3> HIDE DEF new
    <3>2. circuits' = new BY <2>3 DEF new
    <3> QED BY <1>1, <2>1, <3>1, <3>2 DEF Silence
  <2>4. UNCHANGED circuits \/ circuits' = OpenCircuit(Key(r), now + RepeatedCooldown)
    BY <1>4 DEF Throttled, Trip, CountThrottle, Key, d
  <2> QED BY <2>2, <2>3, <2>4
<1> QED BY <1>2, <1>3, <1>4

LEMMA SilenceStep == Shaped /\ Silence /\ [Next]_vars => Silence'
<1> SUFFICES ASSUME Shaped, Silence, [Next]_vars PROVE Silence' OBVIOUS
<1>1. CASE TimePasses BY <1>1 DEF TimePasses, Tick, Silence
<1>2. CASE UNCHANGED vars BY <1>2 DEF vars, Silence
<1>3. ASSUME NEW r \in Calls, Leads(r) PROVE Silence'
  <2>1. now' = now BY <1>3 DEF Leads
  <2>2. CASE UNCHANGED <<circuits, promised>> BY <2>1, <2>2 DEF Silence
  <2>3. CASE AssertClosed(Ctx[r]) /\ UNCHANGED promised
    BY <2>1, <2>3 DEF AssertClosed, Silence
  <2>4. CASE \E e \in Errors : Throttled(r, ClassifyMetaError(e)) BY <2>4, ThrottleOpens
  <2> QED BY <1>3, <2>2, <2>3, <2>4 DEF Leads
<1> QED BY <1>1, <1>2, <1>3, NextLeads

LEMMA SilenceInit == Init => Silence
BY DEF Init, ClockInit, BreakerInit, Silence

\* README.md:483: no call that begins before the end Meta asked for gets past
\* assertClosed, whatever hints, counted throttles and sweeps came since.
THEOREM Silent == Spec => SilenceKept
<1>1. Shaped /\ Silence /\ [Next]_vars =>
        [\A r \in Calls : req[r].pc = "idle" /\ promised[Key(r)] > now =>
                            req'[r].pc \in {"idle", "refused"}]_vars
  <2> SUFFICES ASSUME Shaped, Silence, [Next]_vars, NEW r \in Calls,
                      req[r].pc = "idle", promised[Key(r)] > now
               PROVE  req'[r].pc \in {"idle", "refused"}
    OBVIOUS
  <2>1. CASE TimePasses \/ UNCHANGED vars BY <2>1 DEF TimePasses, Tick, vars
  <2>2. Blocked(Ctx[r]) BY KeyOfCall DEF Blocked, Silence
  <2>3. ASSUME NEW q \in Calls, Leads(q) PROVE req'[r].pc \in {"idle", "refused"}
    <3>1. CASE q # r BY <2>3, <3>1 DEF Leads, Others
    <3>2. CASE q = r
      <4>1. Refused(r) BY <2>2, <2>3, <3>2 DEF Leads, AssertClosed
      <4> QED BY <4>1, SettleMoves DEF Refused, Settled
    <3> QED BY <3>1, <3>2
  <2> QED BY <2>1, <2>3, NextLeads
<1> QED BY <1>1, OnceInit, OnceStep, SilenceInit, SilenceStep, PTL DEF Spec, SilenceKept

-----------------------------------------------------------------------------

\* Of finitely many elements one has the greatest value: a smallest set without one
\* would leave, less any of its elements, a set that has one.
LEMMA GreatestExists ==
  ASSUME NEW S, IsFiniteSet(S), S # {}, NEW f \in [S -> Int]
  PROVE  \E x \in S : \A y \in S : f[x] >= f[y]
<1> DEFINE Lacks(A) == ~ \E x \in A : \A y \in A : f[x] >= f[y]
           Sizes    == {n \in Nat : \E A \in SUBSET S : A # {} /\ Cardinality(A) = n /\ Lacks(A)}
<1> SUFFICES ASSUME Lacks(S) PROVE FALSE OBVIOUS
<1>1. Cardinality(S) \in Sizes BY FS_CardinalityType
<1>2. \E n \in Sizes : \A m \in Sizes : ~ (<<m, n>> \in OpToRel(<, Nat))
  <2>1. Sizes \subseteq Nat /\ Sizes # {} BY <1>1
  <2> HIDE DEF Sizes
  <2> QED BY <2>1, NatLessThanWellFounded, WFMin
<1>3. PICK n \in Sizes : \A m \in Sizes : ~ (m < n) BY <1>2 DEF OpToRel
<1>4. PICK A \in SUBSET S : A # {} /\ Cardinality(A) = n /\ Lacks(A) BY <1>3
<1>5. PICK a \in A : TRUE BY <1>4
<1>6. IsFiniteSet(A) BY <1>4, FS_Subset
<1>7. Cardinality(A \ {a}) = n - 1 /\ IsFiniteSet(A \ {a}) BY <1>4, <1>5, <1>6, FS_RemoveElement
<1>8. n \in Nat /\ Cardinality(A \ {a}) \in Nat BY <1>3, <1>7, FS_CardinalityType
<1>9. \A y \in A : f[y] \in Int BY <1>4
<1>10. CASE A \ {a} = {}
  <2>1. \A y \in A : y = a BY <1>10
  <2> QED BY <1>4, <1>5, <1>9, <2>1
<1>11. CASE A \ {a} # {} /\ Lacks(A \ {a})
  <2>1. A \ {a} \in SUBSET S BY <1>4
  <2>2. n - 1 \in Sizes BY <1>7, <1>8, <1>11, <2>1
  <2> HIDE DEF Sizes
  <2> QED BY <1>3, <1>8, <2>2
<1>12. CASE ~ Lacks(A \ {a})
  <2>1. PICK x \in A \ {a} : \A y \in A \ {a} : f[x] >= f[y] BY <1>12
  <2>2. CASE f[x] >= f[a]
    <3>1. \A y \in A : f[x] >= f[y] BY <2>1, <2>2
    <3> QED BY <1>4, <2>1, <3>1
  <2>3. CASE ~ (f[x] >= f[a])
    <3>1. \A y \in A : f[a] >= f[y] BY <1>5, <1>9, <2>1, <2>3
    <3> QED BY <1>4, <1>5, <3>1
  <2> QED BY <2>2, <2>3
<1> QED BY <1>10, <1>11, <1>12

LEMMA MaxIsGreatest ==
  ASSUME NEW S, IsFiniteSet(S), NEW f \in [S -> Nat], NEW T, T = {0} \cup {f[x] : x \in S}
  PROVE  Max(T) \in Nat /\ \A y \in T : Max(T) >= y
<1>1. \E x \in T : \A y \in T : x >= y
  <2>1. CASE S = {} BY <2>1
  <2>2. CASE S # {}
    <3>1. f \in [S -> Int] OBVIOUS
    <3>2. PICK x \in S : \A y \in S : f[x] >= f[y] BY <2>2, <3>1, GreatestExists
    <3>3. \A y \in T : f[x] >= y BY <3>2
    <3> QED BY <3>3
  <2> QED BY <2>1, <2>2
<1>2. T \subseteq Nat OBVIOUS
<1> QED BY <1>1, <1>2 DEF Max

\* A quotient of naturals is a natural number.
LEMMA WholeQuotient ==
  ASSUME NEW m \in Nat, NEW n \in Nat \ {0}
  PROVE  m \div n \in Nat
OBVIOUS

LEMMA DelayOfBucket ==
  ASSUME NEW b \in Bucket, now \in Nat
  PROVE  BucketDelay(b) \in Nat /\ b.at + b.regain <= now + BucketDelay(b)
<1>1. b.usage \in 0..100 /\ b.regain \in Nat /\ b.at \in Nat BY DEF Bucket
<1>2. StaircaseMs(b.usage) \in Nat BY <1>1 DEF StaircaseMs
<1>3. StaircaseDelay(b.usage) \in Nat BY <1>2, TickAssumption, WholeQuotient DEF StaircaseDelay
<1> QED BY <1>1, <1>3 DEF BucketDelay

\* A delay is no shorter than any time to regain it has to do with
\* (rate-limiter.ts:265-300).
LEMMA DelayCovers ==
  ASSUME now \in Nat, buckets \in [BucketKeys -> Bucket], NEW ctx
  PROVE  /\ ThrottleDelay(ctx) \in Nat
         /\ \A k \in BucketKeys : BucketAppliesTo(k, ctx) =>
              buckets[k].at + buckets[k].regain <= now + ThrottleDelay(ctx)
<1> DEFINE Applicable == {b \in BucketKeys : BucketAppliesTo(b, ctx)}
           f   == [k \in Applicable |-> BucketDelay(buckets[k])]
           All == {0} \cup {f[k] : k \in Applicable}
<1>1. \A k \in BucketKeys :
        BucketDelay(buckets[k]) \in Nat /\ buckets[k] \in Bucket
          /\ buckets[k].at + buckets[k].regain <= now + BucketDelay(buckets[k])
  BY DelayOfBucket
<1>2. IsFiniteSet(Applicable) BY PipelineAssumption, FS_Subset
<1>3. f \in [Applicable -> Nat] BY <1>1
<1>4. ThrottleDelay(ctx) = Max(All)
  <2>1. All = {0} \cup {BucketDelay(buckets[k]) : k \in Applicable} OBVIOUS
  <2> HIDE DEF All
  <2> QED BY <2>1 DEF ThrottleDelay
<1>5. Max(All) \in Nat /\ \A y \in All : Max(All) >= y
  <2> HIDE DEF f, Applicable
  <2> QED BY <1>2, <1>3, MaxIsGreatest
<1>6. ASSUME NEW k \in BucketKeys, BucketAppliesTo(k, ctx)
      PROVE  buckets[k].at + buckets[k].regain <= now + Max(All)
  <2>1. BucketDelay(buckets[k]) \in All BY <1>6
  <2> HIDE DEF All
  <2> QED BY <1>1, <1>5, <2>1 DEF Bucket
<1> QED BY <1>4, <1>5, <1>6

\* What a header writes is a bucket of this tick (rate-limiter.ts:73-190).
LEMMA HeaderWrites ==
  ASSUME NEW h, NEW ctx, h.name \in HeaderNames, NEW w \in Written(h, ctx)
  PROVE  \E u \in {h.usage, h.accUsage}, n \in {0, h.regain} :
           w.bucket = [usage |-> u, regain |-> n, at |-> now]
<1>1. CASE h.name = "x-app-usage" BY <1>1 DEF Written
<1>2. CASE h.name = "x-business-use-case-usage" BY <1>2 DEF Written
<1>3. CASE h.name = "x-fb-ads-insights-throttle"
  <2>1. \/ w = [key |-> <<"insights", ctx.token, "app">>,
                bucket |-> [usage |-> h.usage, regain |-> 0, at |-> now]]
        \/ w = [key |-> <<"insights", ctx.token, "acc", ctx.account>>,
                bucket |-> [usage |-> h.accUsage, regain |-> 0, at |-> now]]
    BY <1>3 DEF Written
  <2> QED BY <2>1
<1>4. CASE h.name = "x-ad-account-usage"
  <2>1. w = [key |-> <<"acc", ctx.token, ctx.account>>,
             bucket |-> [usage |-> h.accUsage, regain |-> h.regain, at |-> now]]
    BY <1>4 DEF Written
  <2> QED BY <2>1
<1>5. CASE h.name = "x-fb-ads-insights-reach-throttle"
  <2>1. w = [key |-> <<"reach", ctx.token, ctx.account>>,
             bucket |-> [usage |-> h.usage, regain |-> h.regain, at |-> now]]
    BY <1>5 DEF Written
  <2> QED BY <2>1
<1> QED BY <1>1, <1>2, <1>3, <1>4, <1>5 DEF HeaderNames

\* Every header overwrites its buckets, and nothing else.
LEMMA HeadersWrite ==
  ASSUME now \in Nat, buckets \in [BucketKeys -> Bucket], NEW ctx,
         NEW headers \in HeaderSets, UpdateFromHeaders(headers, ctx)
  PROVE  /\ buckets' \in [BucketKeys -> Bucket]
         /\ \A k \in BucketKeys : buckets'[k] = buckets[k] \/ buckets'[k].at = now
<1> DEFINE written == UNION {Written(h, ctx) : h \in headers}
<1>1. ASSUME NEW h \in headers, NEW w \in Written(h, ctx)
      PROVE  w.bucket \in Bucket /\ w.bucket.at = now
  <2>1. /\ h.name \in HeaderNames /\ h.usage \in 0..100 /\ h.accUsage \in 0..100
        /\ h.regain \in Nat
    <3>1. h \in UNION HeaderSets OBVIOUS
    <3> QED BY <3>1, PipelineAssumption
  <2>2. PICK u \in {h.usage, h.accUsage}, n \in {0, h.regain} :
          w.bucket = [usage |-> u, regain |-> n, at |-> now]
    BY <2>1, HeaderWrites
  <2> QED BY <2>1, <2>2 DEF Bucket
<1>2. \A w \in written : w.bucket \in Bucket /\ w.bucket.at = now BY <1>1
<1>3. buckets' = [k \in BucketKeys |->
                    IF \E w \in written : w.key = k
                    THEN (CHOOSE w \in written : w.key = k).bucket
                    ELSE buckets[k]]
  BY DEF UpdateFromHeaders
<1> HIDE DEF written
<1>4. ASSUME NEW k \in BucketKeys
      PROVE  buckets'[k] \in Bucket /\ (buckets'[k] = buckets[k] \/ buckets'[k].at = now)
  <2>1. CASE \E w \in written : w.key = k
    <3>1. (CHOOSE w \in written : w.key = k) \in written BY <2>1
    <3> QED BY <1>2, <1>3, <2>1, <3>1
  <2>2. CASE ~ \E w \in written : w.key = k BY <1>3, <2>2
  <2> QED BY <2>1, <2>2
<1>5. buckets' = [k \in BucketKeys |-> buckets'[k]] BY <1>3
<1> QED BY <1>4, <1>5

\* A hint to wait becomes a bucket of the account it hit alone (rate-limiter.ts:206-212).
LEMMA HintWrites ==
  ASSUME now \in Nat, buckets \in [BucketKeys -> Bucket], NEW ctx \in Contexts, NEW n \in Nat,
         MarkRetryAfter(ctx, ctx.type, n)
  PROVE  /\ buckets' \in [BucketKeys -> Bucket]
         /\ \A k \in BucketKeys : buckets'[k] = buckets[k] \/ buckets'[k].at = now
         /\ \A k \in BucketKeys : k # RetryKey(ctx, ctx.type) => buckets'[k] = buckets[k]
<1>1. [usage |-> 0, regain |-> n, at |-> now] \in Bucket BY DEF Bucket
<1> QED BY <1>1 DEF MarkRetryAfter

LEMMA BucketsStep ==
  ASSUME now \in Nat, buckets \in [BucketKeys -> Bucket], NEW r \in Calls, Leads(r)
  PROVE  /\ buckets' \in [BucketKeys -> Bucket]
         /\ \A k \in BucketKeys : buckets'[k] = buckets[k] \/ buckets'[k].at = now
<1>1. CASE UNCHANGED buckets BY <1>1
<1>2. CASE \E headers \in HeaderSets : UpdateFromHeaders(headers, Ctx[r]) BY <1>2, HeadersWrite
<1>3. CASE \E n \in Nat : MarkRetryAfter(Ctx[r], Ctx[r].type, n) BY <1>3, HintWrites, KeyOfCall
<1> QED BY <1>1, <1>2, <1>3 DEF Leads

LEMMA WaitingStep == Shaped /\ Waiting /\ [Next]_vars => Waiting'
<1> SUFFICES ASSUME Shaped, Waiting, [Next]_vars PROVE Waiting' OBVIOUS
<1>1. CASE TimePasses BY <1>1 DEF TimePasses, Tick, Waiting, Waits
<1>2. CASE UNCHANGED vars BY <1>2 DEF vars, Waiting, Waits
<1>3. ASSUME NEW r \in Calls, Leads(r) PROVE Waiting'
  <2>1. now' = now /\ now \in Nat BY <1>3 DEF Leads, Waiting
  <2>2. /\ buckets' \in [BucketKeys -> Bucket]
        /\ \A k \in BucketKeys : buckets'[k] = buckets[k] \/ buckets'[k].at = now
    BY <1>3, BucketsStep DEF Waiting
  <2>3. ASSUME NEW q \in Calls, q # r, req'[q].pc = "limiting"
        PROVE  /\ req'[q].gatedAt \in Nat /\ req'[q].gatedAt <= now' /\ req'[q].wake \in Nat
               /\ \A k \in BucketKeys :
                    BucketAppliesTo(k, Ctx[q]) /\ buckets'[k].at < req'[q].gatedAt =>
                      buckets'[k].at + buckets'[k].regain <= req'[q].wake
    <3>1. req'[q] = req[q] BY <1>3, <2>3 DEF Leads, Others
    <3> QED BY <2>1, <2>2, <2>3, <3>1 DEF Waiting, Waits, Bucket
  <2>4. ASSUME req'[r].pc = "limiting"
        PROVE  /\ req'[r].gatedAt = now /\ req'[r].wake \in Nat
               /\ \A k \in BucketKeys :
                    BucketAppliesTo(k, Ctx[r]) => buckets'[k].at + buckets'[k].regain <= req'[r].wake
    <3>1. StartWaiting(r) /\ buckets' = buckets BY <1>3, <2>4 DEF Leads
    <3>2. req'[r].gatedAt = now /\ req'[r].wake = now + ThrottleDelay(Ctx[r])
      BY <3>1, StartWaitingMoves
    <3> QED BY <2>1, <3>1, <3>2, DelayCovers DEF Waiting
  <2> QED BY <2>1, <2>2, <2>3, <2>4 DEF Waiting, Waits
<1> QED BY <1>1, <1>2, <1>3, NextLeads

LEMMA WaitingInit == Init => Waiting
BY DEF Init, ClockInit, LimiterInit, Waiting, Waits, Bucket, NotBegun

\* rate-limiter.ts:66-67: the first fetch of a call happens no earlier than every
\* time to regain access that was known when the call looked.
THEOREM Regained == Spec => RegainHonoured
<1>1. Shaped /\ Waiting /\ [Next]_vars =>
        [\A r \in Calls :
           req[r].pc = "limiting" /\ req'[r].pc = "inflight" =>
             \A k \in BucketKeys :
               BucketAppliesTo(k, Ctx[r]) /\ buckets[k].at < req[r].gatedAt =>
                 buckets[k].at + buckets[k].regain <= now]_vars
  <2> SUFFICES ASSUME Shaped, Waiting, [Next]_vars, NEW r \in Calls,
                      req[r].pc = "limiting", req'[r].pc = "inflight",
                      NEW k \in BucketKeys, BucketAppliesTo(k, Ctx[r]),
                      buckets[k].at < req[r].gatedAt
               PROVE  buckets[k].at + buckets[k].regain <= now
    OBVIOUS
  <2>1. CASE TimePasses \/ UNCHANGED vars BY <2>1 DEF TimePasses, Tick, vars
  <2>2. ASSUME NEW q \in Calls, Leads(q) PROVE buckets[k].at + buckets[k].regain <= now
    <3>1. q = r BY <2>2 DEF Leads, Others
    <3>2. now >= req[r].wake BY <2>2, <3>1 DEF Leads, Send
    <3> QED BY <3>2 DEF Waiting, Waits, Bucket
  <2> QED BY <2>1, <2>2, NextLeads
<1> QED BY <1>1, OnceInit, OnceStep, WaitingInit, WaitingStep, PTL DEF Spec, RegainHonoured

-----------------------------------------------------------------------------

\* The wait of a context depends on the buckets that apply to it alone.
LEMMA SameDelay ==
  ASSUME now' = now, NEW ctx,
         \A k \in BucketKeys : BucketAppliesTo(k, ctx) => buckets'[k] = buckets[k]
  PROVE  ThrottleDelay(ctx)' = ThrottleDelay(ctx)
<1> DEFINE Applicable == {b \in BucketKeys : BucketAppliesTo(b, ctx)}
           Delays == {BucketDelay(buckets[k]) : k \in Applicable}
<1>1. ASSUME NEW k \in Applicable PROVE BucketDelay(buckets[k])' = BucketDelay(buckets[k])
  BY <1>1 DEF BucketDelay
<1>2. Delays' = Delays BY <1>1
<1>3. ThrottleDelay(ctx) = Max({0} \cup Delays) /\ ThrottleDelay(ctx)' = Max({0} \cup Delays')
  BY DEF ThrottleDelay
<1> QED BY <1>2, <1>3

\* A circuit that concerns one account is not the key of a call for another.
LEMMA KeysApart ==
  ASSUME NEW r \in Calls, NEW ctx \in Contexts, ctx.account # Ctx[r].account,
         NEW k \in RelevantCircuits(ctx)
  PROVE  k # Key(r)
<1>1. k = SubSeq(circuitKey(ctx), 1, Len(k)) BY DEF RelevantCircuits
<1>2. SUFFICES ASSUME k = Key(r) PROVE FALSE OBVIOUS
<1>3. Len(k) = 3 /\ k[2] = Ctx[r].account
  <2>1. k = <<Ctx[r].token, Ctx[r].account, Ctx[r].type>> BY <1>2 DEF Key, circuitKey
  <2> QED BY <2>1
<1>4. SubSeq(circuitKey(ctx), 1, 3) = circuitKey(ctx)
  <2>1. circuitKey(ctx) = SubSeq(circuitKey(ctx), 1, Len(circuitKey(ctx))) BY DEF circuitKey
  <2>2. Len(circuitKey(ctx)) = 3 BY DEF circuitKey
  <2> QED BY <2>1, <2>2
<1>5. circuitKey(ctx)[2] = ctx.account BY DEF circuitKey
<1> QED BY <1>1, <1>3, <1>4, <1>5

\* rate-limiter.ts:192-197 and client.test.ts:252: a throttle that is of one account neither
\* delays nor refuses the calls of another one of the same token.  Abuse signals are left
\* out: what the code does with them is not what circuit-breaker.ts:170-172 says it should.
THEOREM Isolated == Spec => ThrottleIsolated
<1>1. Shaped /\ Silence /\ Waiting /\ [Next]_vars =>
        [\A r \in Calls, e \in Errors :
           LET class == ClassifyMetaError(e) IN
           MetaError(r, e) /\ class.throttled /\ class.category # "abuse_signal" =>
             \A ctx \in Contexts :
               ctx.account # Ctx[r].account =>
                 /\ ThrottleDelay(ctx)' = ThrottleDelay(ctx)
                 /\ Blocked(ctx)' = Blocked(ctx)]_vars
  <2> SUFFICES ASSUME Shaped, Silence, Waiting, [Next]_vars, NEW r \in Calls, NEW e \in Errors,
                      MetaError(r, e), ClassifyMetaError(e).throttled,
                      NEW ctx \in Contexts, ctx.account # Ctx[r].account
               PROVE  ThrottleDelay(ctx)' = ThrottleDelay(ctx) /\ Blocked(ctx)' = Blocked(ctx)
    OBVIOUS
  <2>4. Throttled(r, ClassifyMetaError(e)) BY DEF MetaError
  <2>5. now' = now BY <2>4 DEF Throttled
  <2>6. ASSUME NEW k \in BucketKeys, BucketAppliesTo(k, ctx) PROVE buckets'[k] = buckets[k]
    <3>1. CASE UNCHANGED buckets BY <3>1
    <3>2. CASE MarkRetryAfter(Ctx[r], Ctx[r].type, ClassifyMetaError(e).hint)
      <4>1. k # RetryKey(Ctx[r], Ctx[r].type)
        BY <2>6 DEF BucketAppliesTo, RetryKey
      <4> QED BY <2>5, <3>2, <4>1, HintWrites, KeyOfCall, ClassOfError DEF Waiting
    <3> QED BY <2>4, <3>1, <3>2 DEF Throttled
  <2>7. \A k \in CircuitKeys \ {Key(r)} : circuits'[k] = circuits[k] BY <2>4, ThrottleOpens
  <2>8. \A k \in RelevantCircuits(ctx) : circuits'[k] = circuits[k]
    BY <2>7, KeysApart DEF RelevantCircuits
  <2>9. Blocked(ctx)' = Blocked(ctx) BY <2>5, <2>8 DEF Blocked
  <2> QED BY <2>5, <2>6, <2>9, SameDelay
<1> QED BY <1>1, OnceInit, OnceStep, SilenceInit, SilenceStep, WaitingInit, WaitingStep,
           PTL DEF Spec, ThrottleIsolated

-----------------------------------------------------------------------------

\* What execute keeps of a call between two awaits.
LocalsOfCall ==
  [pc : Stages, wake : Nat, attempt : 0..MaxRetries, gatedAt : Nat, throttled : BOOLEAN]

Kept ==
  /\ throttleEvents \in [CircuitKeys -> SUBSET [at : Nat, by : Calls]]
  /\ pacer \in [PacerKeys -> PacerBucket]
  /\ req \in [Calls -> LocalsOfCall]
  /\ \A r \in Calls : req[r].pc = "pacing" => Ctx[r].account # "_"

\* 2 ^ n counts the subsets of n elements.
LEMMA PowerType ==
  ASSUME NEW n \in Nat
  PROVE  2 ^ n \in Nat
<1>1. IsFiniteSet(1..n) /\ Cardinality(1..n) = n BY FS_Interval
<1>2. IsFiniteSet(SUBSET (1..n)) /\ Cardinality(SUBSET (1..n)) = 2 ^ n BY <1>1, FS_SUBSET
<1> QED BY <1>2, FS_CardinalityType

LEMMA ProductType ==
  ASSUME NEW m \in Nat, NEW n \in Nat
  PROVE  m * n \in Nat
OBVIOUS

LEMMA PacerConstants ==
  /\ Share \in Nat \ {0} /\ InitialWrites \in Nat
  /\ \A tier \in Tiers : QuotaOf[tier] \in Nat \ {0} /\ CapacityOf[tier] \in Nat
BY PacerAssumption DEF Tiers

\* A bucket that was made and refilled is a bucket of a tier (write-pacer.ts:117-145).
LEMMA RefilledType ==
  ASSUME now \in Nat, pacer \in [PacerKeys -> PacerBucket], NEW k \in PacerKeys
  PROVE  Refill(GetOrCreate(k)) \in PacerBucket /\ Refill(GetOrCreate(k)).tier \in Tiers
<1> DEFINE c == GetOrCreate(k)
           q == QuotaOf[c.tier]
           level == c.level + (now - c.refilledAt) * q
           full == CapacityOf[c.tier] * Share
<1>1. InitialWrites * Share \in Nat BY PacerConstants, ProductType
<1>2. c \in PacerBucket /\ c.tier \in Tiers
  BY <1>1 DEF GetOrCreate, NewPacerBucket, PacerBucket, Tiers
<1> HIDE DEF c
<1>3. c.level \in Nat /\ c.refilledAt \in Nat /\ q \in Nat /\ CapacityOf[c.tier] \in Nat /\ Share \in Nat
  BY <1>2, PacerConstants DEF PacerBucket
<1>4. Refill(c) \in PacerBucket /\ Refill(c).tier \in Tiers
  <2>1. CASE now <= c.refilledAt BY <1>2, <2>1 DEF Refill
  <2>2. CASE ~ (now <= c.refilledAt)
    <3>1. now - c.refilledAt \in Nat BY <1>3, <2>2
    <3>2. (now - c.refilledAt) * q \in Nat /\ full \in Nat
      <4> HIDE DEF q
      <4> QED BY <1>3, <3>1, ProductType
    <3>3. level \in Nat BY <1>3, <3>2
    <3>4. Refill(c) = [c EXCEPT !.level = IF level > full THEN full ELSE level, !.refilledAt = now]
      BY <2>2 DEF Refill
    <3> HIDE DEF level, full
    <3> QED BY <1>2, <3>2, <3>3, <3>4 DEF PacerBucket
  <2> QED BY <2>1, <2>2
<1> QED BY <1>4 DEF c

\* The sleep of a write that finds less than its share is a number of ticks.
LEMMA SleepType ==
  ASSUME now \in Nat, pacer \in [PacerKeys -> PacerBucket], NEW k \in PacerKeys,
         AcquireMustWait(k)
  PROVE  AccrualTime(k) \in Nat
<1> DEFINE b == Refill(GetOrCreate(k))
           q == QuotaOf[b.tier]
<1>1. b \in PacerBucket /\ b.tier \in Tiers BY RefilledType
<1>2. b.level < Share BY DEF AcquireMustWait
<1>3. AccrualTime(k) = (Share - b.level + q - 1) \div q BY DEF AccrualTime
<1> HIDE DEF b
<1>4. b.level \in Nat /\ q \in Nat \ {0} /\ Share \in Nat BY <1>1, PacerConstants DEF PacerBucket
<1> HIDE DEF q
<1>5. Share - b.level + q - 1 \in Nat BY <1>2, <1>4
<1> QED BY <1>3, <1>4, <1>5, WholeQuotient

\* Every operation of the pacer keeps every bucket a bucket.
LEMMA PacerMoves ==
  ASSUME now \in Nat, pacer \in [PacerKeys -> PacerBucket], NEW k \in PacerKeys,
         \/ AcquireNow(k) \/ AcquireMustWait(k) \/ AcquireAfterWait(k)
         \/ \E tier : TierSeen(k, tier)
  PROVE  pacer' \in [PacerKeys -> PacerBucket]
<1> DEFINE b == Refill(GetOrCreate(k))
<1>1. b \in PacerBucket /\ Share \in Nat BY RefilledType, PacerConstants
<1>2. CASE AcquireNow(k)
  <2>1. b.level >= Share /\ pacer' = [pacer EXCEPT ![k] = [b EXCEPT !.level = @ - Share]]
    BY <1>2 DEF AcquireNow
  <2> HIDE DEF b
  <2> QED BY <1>1, <2>1 DEF PacerBucket
<1>3. CASE AcquireMustWait(k) BY <1>1, <1>3 DEF AcquireMustWait
<1>4. CASE AcquireAfterWait(k)
  <2>1. pacer' = [pacer EXCEPT ![k] = [b EXCEPT !.level = IF @ > Share THEN @ - Share ELSE 0]]
    BY <1>4 DEF AcquireAfterWait
  <2> HIDE DEF b
  <2> QED BY <1>1, <2>1 DEF PacerBucket
<1>5. ASSUME NEW tier, TierSeen(k, tier) PROVE pacer' \in [PacerKeys -> PacerBucket]
  BY <1>5 DEF TierSeen, PacerBucket
<1> QED BY <1>2, <1>3, <1>4, <1>5

\* A call that is paced names an account, and so a bucket.
LEMMA PacerKeyOf ==
  ASSUME NEW r \in Calls, Ctx[r].account # "_"
  PROVE  PacerKey(r) \in PacerKeys
<1>1. Ctx[r] \in Contexts BY PipelineAssumption
<1> QED BY <1>1 DEF PacerKey, PacerKeys, Contexts

\* One call's locals change, and to locals of a call.
CallMoves(r) ==
  /\ req' \in [Calls -> LocalsOfCall]
  /\ \A q \in Calls : req'[q].pc = "pacing" => Ctx[q].account # "_"

LEMMA GotoKeeps ==
  ASSUME Kept, NEW r \in Calls, NEW stage \in Stages \ {"pacing"}, Goto(r, stage)
  PROVE  CallMoves(r)
BY DEF Kept, Goto, LocalsOfCall, CallMoves

LEMMA StartWaitingKeeps ==
  ASSUME Kept, now \in Nat, buckets \in [BucketKeys -> Bucket],
         NEW r \in Calls, StartWaiting(r)
  PROVE  CallMoves(r)
<1> DEFINE wake == now + ThrottleDelay(Ctx[r])
<1>1. wake \in Nat BY DelayCovers
<1>2. req' = [req EXCEPT ![r].pc = "limiting", ![r].gatedAt = now, ![r].wake = wake]
  BY DEF StartWaiting
<1> HIDE DEF wake
<1> QED BY <1>1, <1>2 DEF Kept, LocalsOfCall, Stages, CallMoves

LEMMA SettleKeeps ==
  ASSUME Kept, NEW r \in Calls, NEW outcome \in Settled, NEW b \in BOOLEAN,
         Settle(r, outcome, b)
  PROVE  CallMoves(r)
<1> DEFINE new == [NotBegun EXCEPT !.pc = outcome, !.throttled = b]
<1>1. NotBegun \in LocalsOfCall BY PipelineAssumption DEF NotBegun, LocalsOfCall, Stages
<1>2. new \in LocalsOfCall /\ new.pc = outcome BY <1>1 DEF LocalsOfCall, Stages
<1>3. req' = [req EXCEPT ![r] = new] /\ outcome # "pacing" BY DEF Settle, Settled
<1> HIDE DEF new
<1> QED BY <1>2, <1>3 DEF Kept, CallMoves

\* The backoff doubles with every attempt (client.ts:345-349).
LEMMA RetryOrFailKeeps ==
  ASSUME Kept, now \in Nat, NEW r \in Calls, RetryOrFail(r)
  PROVE  CallMoves(r)
<1>1. CASE req[r].attempt < MaxRetries /\ Backoff(r)
  <2> DEFINE attempt == req[r].attempt
             wake == now + BackoffTicks * 2 ^ attempt
  <2>0. attempt \in 0..MaxRetries BY DEF Kept, LocalsOfCall
  <2>1. attempt \in Nat /\ attempt + 1 \in 0..MaxRetries
    BY <1>1, <2>0, PipelineAssumption
  <2>2. 2 ^ attempt \in Nat /\ BackoffTicks \in Nat BY <2>1, PowerType, PipelineAssumption
  <2>3. BackoffTicks * 2 ^ attempt \in Nat BY <2>2, ProductType
  <2>4. wake \in Nat BY <2>3
  <2> DEFINE new == [req[r] EXCEPT !.pc = "backoff", !.attempt = attempt + 1, !.gatedAt = 0,
                                   !.wake = wake]
  <2>5. req' = [req EXCEPT ![r] = new] BY <1>1 DEF Backoff, Kept
  <2>6. new \in LocalsOfCall /\ new.pc = "backoff"
    <3>1. req[r] \in LocalsOfCall BY DEF Kept
    <3> HIDE DEF attempt, wake
    <3> QED BY <2>1, <2>4, <3>1 DEF LocalsOfCall, Stages
  <2> HIDE DEF new
  <2> QED BY <2>5, <2>6 DEF Kept, CallMoves
<1>2. CASE Settle(r, "failed", FALSE) BY <1>2, SettleKeeps DEF Settled
<1> QED BY <1>1, <1>2 DEF RetryOrFail

\* A throttle is counted as an event of the call it hit (circuit-breaker.ts:118-137).
LEMMA TripKeeps ==
  ASSUME Kept, now \in Nat, NEW r \in Calls, NEW class, Trip(Ctx[r], class, r)
  PROVE  throttleEvents' \in [CircuitKeys -> SUBSET [at : Nat, by : Calls]]
<1> DEFINE key == circuitKey(Ctx[r])
           recent == Recent(key) \cup {[at |-> now, by |-> r]}
<1>1. key \in CircuitKeys BY KeyOfCall DEF Key
<1>2. recent \in SUBSET [at : Nat, by : Calls]
  <2>1. Recent(key) \subseteq throttleEvents[key] BY DEF Recent
  <2>2. throttleEvents[key] \in SUBSET [at : Nat, by : Calls] BY <1>1 DEF Kept
  <2>3. [at |-> now, by |-> r] \in [at : Nat, by : Calls] OBVIOUS
  <2> QED BY <2>1, <2>2, <2>3
<1>3. \/ throttleEvents' = throttleEvents
      \/ throttleEvents' = [throttleEvents EXCEPT ![key] = {}]
      \/ throttleEvents' = [throttleEvents EXCEPT ![key] = recent]
  BY DEF Trip, CountThrottle
<1> HIDE DEF key, recent
<1> QED BY <1>1, <1>2, <1>3 DEF Kept

LEMMA ProceedKeeps ==
  ASSUME Kept, Waiting, NEW r \in Calls, Proceed(r)
  PROVE  Kept'
<1>1. now \in Nat /\ buckets \in [BucketKeys -> Bucket] BY DEF Waiting
<1> USE DEF Stages, Settled
<1>2. CASE Refused(r) BY <1>2, SettleKeeps DEF Refused, Kept, CallMoves
<1>3. CASE Begin(r)
  <2>1. throttleEvents' = throttleEvents BY <1>3 DEF Begin, AssertClosed
  <2>2. CASE ~ Paced(r) /\ StartWaiting(r) /\ UNCHANGED pacer
    BY <1>1, <2>1, <2>2, StartWaitingKeeps DEF Kept, CallMoves
  <2>3. CASE Paced(r) /\ AcquireNow(PacerKey(r)) /\ Goto(r, "gate")
    <3>1. PacerKey(r) \in PacerKeys BY <2>3, PacerKeyOf DEF Paced
    <3>2. pacer' \in [PacerKeys -> PacerBucket] BY <1>1, <2>3, <3>1, PacerMoves DEF Kept
    <3>3. CallMoves(r) BY <2>3, GotoKeeps
    <3> QED BY <2>1, <3>2, <3>3 DEF Kept, CallMoves
  <2>4. CASE /\ Paced(r) /\ AcquireMustWait(PacerKey(r))
             /\ GotoAfter(r, "pacing", AccrualTime(PacerKey(r)))
    <3>1. PacerKey(r) \in PacerKeys /\ Ctx[r].account # "_" BY <2>4, PacerKeyOf DEF Paced
    <3>2. pacer' \in [PacerKeys -> PacerBucket] BY <1>1, <2>4, <3>1, PacerMoves DEF Kept
    <3>3. AccrualTime(PacerKey(r)) \in Nat BY <1>1, <2>4, <3>1, SleepType DEF Kept
    <3>4. CallMoves(r)
      <4> DEFINE wake == now + AccrualTime(PacerKey(r))
      <4>1. wake \in Nat BY <1>1, <3>3
      <4>2. req' = [req EXCEPT ![r].pc = "pacing", ![r].wake = wake] BY <2>4 DEF GotoAfter
      <4> HIDE DEF wake
      <4> QED BY <3>1, <4>1, <4>2 DEF Kept, LocalsOfCall, CallMoves
    <3> QED BY <2>1, <3>2, <3>4 DEF Kept, CallMoves
  <2> QED BY <1>3, <2>2, <2>3, <2>4 DEF Begin
<1>4. CASE PacingEnds(r)
  <2>1. PacerKey(r) \in PacerKeys BY <1>4, PacerKeyOf DEF PacingEnds, Kept
  <2>2. pacer' \in [PacerKeys -> PacerBucket] BY <1>1, <1>4, <2>1, PacerMoves DEF PacingEnds, Kept
  <2>3. CallMoves(r) BY <1>4, GotoKeeps DEF PacingEnds
  <2> QED BY <1>4, <2>2, <2>3 DEF PacingEnds, Kept, CallMoves
<1>5. CASE WaitIfNeeded(r) BY <1>1, <1>5, StartWaitingKeeps DEF WaitIfNeeded, Kept, CallMoves
<1>6. CASE Send(r) BY <1>6, GotoKeeps DEF Send, Kept, CallMoves
<1> QED BY <1>2, <1>3, <1>4, <1>5, <1>6 DEF Proceed

LEMMA AnswerKeeps ==
  ASSUME Kept, now \in Nat, NEW r \in Calls, Answer(r)
  PROVE  Kept'
<1> USE DEF Stages, Settled
<1>1. ASSUME NEW headers \in HeaderSets, HeadersArrive(r, headers) PROVE Kept'
  <2>1. CallMoves(r) /\ throttleEvents' = throttleEvents BY <1>1, GotoKeeps DEF HeadersArrive
  <2>2. pacer' \in [PacerKeys -> PacerBucket]
    <3>1. CASE UNCHANGED pacer BY <3>1 DEF Kept
    <3>2. CASE Ctx[r].account # "_" /\ TierSeen(PacerKey(r), LastReport(headers).tier)
      <4>1. PacerKey(r) \in PacerKeys BY <3>2, PacerKeyOf
      <4> QED BY <3>2, <4>1, PacerMoves DEF Kept
    <3> QED BY <1>1, <3>1, <3>2 DEF HeadersArrive
  <2> QED BY <2>1, <2>2 DEF Kept, CallMoves
<1>2. CASE NoAnswer(r) BY <1>2, RetryOrFailKeeps DEF NoAnswer, Kept, CallMoves
<1>3. CASE Succeed(r) BY <1>3, SettleKeeps DEF Succeed, Kept, CallMoves
<1>4. ASSUME NEW e \in Errors, MetaError(r, e) PROVE Kept'
  <2> DEFINE class == ClassifyMetaError(e)
  <2> HIDE DEF class
  <2>1. CASE Throttled(r, class)
    <3>1. throttleEvents' \in [CircuitKeys -> SUBSET [at : Nat, by : Calls]]
      BY <2>1, TripKeeps DEF Throttled
    <3>2. CallMoves(r) BY <2>1, SettleKeeps DEF Throttled
    <3> QED BY <2>1, <3>1, <3>2 DEF Throttled, Kept, CallMoves
  <2>2. CASE RetryOrFail(r) /\ UNCHANGED <<throttleEvents, pacer>>
    BY <2>2, RetryOrFailKeeps DEF Kept, CallMoves
  <2>3. CASE Settle(r, "failed", FALSE) /\ UNCHANGED <<throttleEvents, pacer>>
    BY <2>3, SettleKeeps DEF Kept, CallMoves
  <2> QED BY <1>4, <2>1, <2>2, <2>3 DEF MetaError, class
<1> QED BY <1>1, <1>2, <1>3, <1>4 DEF Answer

LEMMA KeptStep == Kept /\ Waiting /\ [Next]_vars => Kept'
<1> SUFFICES ASSUME Kept, Waiting, [Next]_vars PROVE Kept' OBVIOUS
<1>1. CASE TimePasses BY <1>1 DEF TimePasses, Tick, Kept
<1>2. CASE UNCHANGED vars BY <1>2 DEF vars, Kept
<1>3. ASSUME NEW r \in Calls, Proceed(r) \/ Answer(r) PROVE Kept'
  BY <1>3, ProceedKeeps, AnswerKeeps DEF Waiting
<1> QED BY <1>1, <1>2, <1>3 DEF Next

LEMMA KeptInit == Init => Kept
<1> SUFFICES ASSUME Init PROVE Kept OBVIOUS
<1>1. NotBegun \in LocalsOfCall /\ NotBegun.pc # "pacing"
  BY PipelineAssumption DEF NotBegun, LocalsOfCall, Stages
<1>2. NoPacerBucket \in PacerBucket BY DEF NoPacerBucket, PacerBucket
<1> QED BY <1>1, <1>2 DEF Init, BreakerInit, PacerInit, Kept

\* The timers a call waits for, the counted throttles, the pacer's buckets and the
\* attempts keep their types: every wait the breaker, the pacer, the limiter and the
\* backoff compute is a number of ticks, and no call makes more attempts than it has.
THEOREM PipelineTyped == Spec => []TypeOK
<1>1. Once /\ Silence /\ Waiting /\ Kept => TypeOK
  <2> SUFFICES ASSUME Once, Silence, Waiting, Kept PROVE TypeOK OBVIOUS
  <2>1. applied \in [Creating -> Nat] BY DEF Once
  <2> QED BY <2>1 DEF Silence, Waiting, Kept, LocalsOfCall, TypeOK
<1> QED BY <1>1, OnceInit, OnceStep, SilenceInit, SilenceStep, WaitingInit, WaitingStep,
           KeptInit, KeptStep, PTL DEF Spec


-----------------------------------------------------------------------------

LEMMA StepsType ==
  ASSUME NEW locals \in LocalsOfCall
  PROVE  /\ StepsLeft(locals) \in Nat
         /\ locals.attempt \in 0..MaxRetries
         /\ locals.pc \notin Settled => StepsLeft(locals) > 0
<1>1. locals.attempt \in 0..MaxRetries BY DEF LocalsOfCall
<1>2. StepsOf(locals.pc) \in 0..6 /\ (locals.pc \notin Settled => StepsOf(locals.pc) > 0)
  BY DEF StepsOf, LocalsOfCall, Stages, Settled
<1>3. MaxRetries \in Nat BY PipelineAssumption
<1> QED BY <1>1, <1>2, <1>3 DEF StepsLeft

\* A call that goes on within its attempt.
LEMMA OnwardSteps ==
  ASSUME NEW c \in LocalsOfCall, NEW d \in LocalsOfCall, d.attempt = c.attempt,
         c.pc \notin Settled, d.pc \notin Settled, StepsOf(d.pc) < StepsOf(c.pc)
  PROVE  StepsLeft(d) < StepsLeft(c)
<1>1. c.attempt \in 0..MaxRetries /\ MaxRetries \in Nat BY PipelineAssumption DEF LocalsOfCall
<1>2. StepsOf(c.pc) \in Nat /\ StepsOf(d.pc) \in Nat BY DEF StepsOf
<1> QED BY <1>1, <1>2 DEF StepsLeft

\* A call that tries again.
LEMMA RetrySteps ==
  ASSUME NEW c \in LocalsOfCall, NEW d \in LocalsOfCall, d.attempt = c.attempt + 1,
         c.pc \in {"inflight", "body"}, d.pc = "backoff"
  PROVE  StepsLeft(d) < StepsLeft(c)
<1>1. /\ c.attempt \in 0..MaxRetries /\ d.attempt \in 0..MaxRetries /\ MaxRetries \in Nat
  BY PipelineAssumption DEF LocalsOfCall
<1>2. StepsOf(c.pc) >= 1 /\ StepsOf(c.pc) \in Nat /\ StepsOf(d.pc) = 3 BY DEF StepsOf
<1>3. c.pc \notin Settled /\ d.pc \notin Settled BY DEF Settled
<1> QED BY <1>1, <1>2, <1>3 DEF StepsLeft

\* Where a step takes the locals of its call.
Onward(c, d) ==
  \/ d.pc \in Settled
  \/ d.attempt = c.attempt /\ d.pc \notin Settled /\ StepsOf(d.pc) < StepsOf(c.pc)
  \/ d.attempt = c.attempt + 1 /\ c.pc \in {"inflight", "body"} /\ d.pc = "backoff"

LEMMA OnwardDecreases ==
  ASSUME NEW c \in LocalsOfCall, NEW d \in LocalsOfCall, c.pc \notin Settled, Onward(c, d)
  PROVE  StepsLeft(d) < StepsLeft(c)
<1>1. CASE d.pc \in Settled
  <2>1. StepsLeft(d) = 0 BY <1>1 DEF StepsLeft
  <2> QED BY <2>1, StepsType
<1> QED BY <1>1, OnwardSteps, RetrySteps DEF Onward

LEMMA MovesOnward ==
  ASSUME Kept, NEW r \in Calls, Proceed(r) \/ Answer(r)
  PROVE  req[r].pc \notin Settled /\ Others(r) /\ Onward(req[r], req'[r])
<1> DEFINE c == req[r]
<1>0. c \in LocalsOfCall /\ DOMAIN req = Calls BY DEF Kept
<1>g. ASSUME NEW stage \in Stages, Goto(r, stage), c.pc \notin Settled,
             StepsOf(stage) < StepsOf(c.pc), stage \notin Settled
      PROVE  Others(r) /\ Onward(c, req'[r])
  <2>1. req'[r].pc = stage /\ req'[r].attempt = c.attempt BY <1>0, <1>g DEF Goto, LocalsOfCall
  <2> QED BY <1>0, <1>g, <2>1 DEF Onward, Goto, Others
<1>w. ASSUME StartWaiting(r), c.pc \in {"idle", "gate"} PROVE Others(r) /\ Onward(c, req'[r])
  <2>1. req'[r].pc = "limiting" /\ req'[r].attempt = c.attempt
    BY <1>0, <1>w DEF StartWaiting, LocalsOfCall
  <2> QED BY <1>0, <1>w, <2>1 DEF Onward, StartWaiting, Others, StepsOf, Settled
<1>s. ASSUME NEW outcome \in Settled, NEW b, Settle(r, outcome, b)
      PROVE  Others(r) /\ Onward(c, req'[r])
  <2>1. req'[r].pc = outcome BY <1>0, <1>s DEF Settle, NotBegun
  <2> QED BY <1>0, <1>s, <2>1 DEF Onward, Settle, Others
<1>r. ASSUME RetryOrFail(r), c.pc \in {"inflight", "body"} PROVE Others(r) /\ Onward(c, req'[r])
  <2>1. CASE Backoff(r)
    <3>1. req'[r].pc = "backoff" /\ req'[r].attempt = c.attempt + 1
      BY <1>0, <2>1 DEF Backoff, LocalsOfCall
    <3> QED BY <1>0, <1>r, <2>1, <3>1 DEF Onward, Backoff, Others
  <2> QED BY <1>r, <1>s, <2>1 DEF RetryOrFail, Settled
<1> USE DEF StepsOf, Settled, Stages
<1>1. CASE Refused(r) BY <1>1, <1>s DEF Refused
<1>2. CASE Begin(r)
  <2>0. c.pc = "idle" BY <1>2 DEF Begin
  <2>1. CASE StartWaiting(r) BY <1>w, <2>0, <2>1
  <2>2. CASE Goto(r, "gate") BY <1>g, <2>0, <2>2
  <2>3. CASE GotoAfter(r, "pacing", AccrualTime(PacerKey(r)))
    <3>1. req'[r].pc = "pacing" /\ req'[r].attempt = c.attempt
      BY <1>0, <2>3 DEF GotoAfter, LocalsOfCall
    <3> QED BY <1>0, <2>0, <2>3, <3>1 DEF Onward, GotoAfter, Others
  <2> QED BY <1>2, <2>0, <2>1, <2>2, <2>3 DEF Begin
<1>3. CASE PacingEnds(r) BY <1>3, <1>g DEF PacingEnds
<1>4. CASE WaitIfNeeded(r) BY <1>4, <1>w DEF WaitIfNeeded
<1>5. CASE Send(r) BY <1>5, <1>g DEF Send
<1>6. ASSUME NEW headers \in HeaderSets, HeadersArrive(r, headers)
      PROVE  c.pc \notin Settled /\ Others(r) /\ Onward(c, req'[r])
  <2>1. c.pc = "inflight" /\ Goto(r, "body") BY <1>6 DEF HeadersArrive
  <2> QED BY <1>g, <2>1
<1>7. CASE NoAnswer(r) BY <1>7, <1>r DEF NoAnswer
<1>8. CASE Succeed(r) BY <1>8, <1>s DEF Succeed
<1>9. ASSUME NEW e \in Errors, MetaError(r, e)
      PROVE  c.pc \notin Settled /\ Others(r) /\ Onward(c, req'[r])
  <2>1. c.pc = "body" BY <1>9 DEF MetaError
  <2>2. RetryOrFail(r) \/ \E b : Settle(r, "failed", b) BY <1>9 DEF MetaError, Throttled
  <2> QED BY <1>r, <1>s, <2>1, <2>2
<1> QED BY <1>1, <1>2, <1>3, <1>4, <1>5, <1>6, <1>7, <1>8, <1>9 DEF Proceed, Answer

\* No wait, retry or failure sets a call back (client.ts:246-344): from its beginning to its
\* end it takes at most 6 + 3 * MaxRetries steps, so that it comes back to its caller
\* as long as each of them is taken: timers fire, and requests end by an answer or an abort.
THEOREM GetsOn == Spec => CallsGetOn
<1>1. Kept /\ Kept' /\ [Next]_vars =>
        [\A r \in Calls :
           req'[r] # req[r] =>
             StepsLeft(req'[r]) \in Nat /\ StepsLeft(req'[r]) < StepsLeft(req[r])]_vars
  <2> SUFFICES ASSUME Kept, Kept', [Next]_vars, NEW r \in Calls, req'[r] # req[r]
               PROVE  StepsLeft(req'[r]) \in Nat /\ StepsLeft(req'[r]) < StepsLeft(req[r])
    OBVIOUS
  <2>1. ~ TimePasses /\ ~ UNCHANGED vars BY DEF TimePasses, Tick, vars
  <2>2. PICK q \in Calls : Proceed(q) \/ Answer(q) BY <2>1 DEF Next
  <2>3. q = r BY <2>2, MovesOnward DEF Others
  <2>4. req[r] \in LocalsOfCall /\ req'[r] \in LocalsOfCall BY DEF Kept
  <2> QED BY <2>2, <2>3, <2>4, MovesOnward, OnwardDecreases, StepsType
<1> QED BY <1>1, WaitingInit, WaitingStep, OnceInit, OnceStep, KeptInit, KeptStep,
           PTL DEF Spec, CallsGetOn

\* Each time Meta carries a request out is an attempt of its own.
LEMMA BoundedStep ==
  Shaped /\ Once /\ Kept /\ Bounded /\ [Next]_vars => Bounded'
<1> SUFFICES ASSUME Shaped, Once, Kept, Bounded, [Next]_vars PROVE Bounded' OBVIOUS
<1>1. CASE TimePasses \/ UNCHANGED vars BY <1>1 DEF TimePasses, Tick, vars, Bounded
<1>2. ASSUME NEW r \in Calls, Proceed(r) \/ Answer(r) PROVE Bounded'
  <2>1. Leads(r) /\ Others(r) BY <1>2, ProceedLeads, AnswerLeads DEF Leads
  <2>2. req[r].pc \notin Settled /\ Onward(req[r], req'[r]) BY <1>2, MovesOnward
  <2>3. \A q \in Calls : req[q].attempt \in 0..MaxRetries BY DEF Kept, LocalsOfCall
  <2>4. MaxRetries \in Nat /\ Creating \subseteq Calls BY PipelineAssumption
  <2>5. applied \in [Creating -> Nat] BY DEF Once
  <2>6. ASSUME NEW q \in Creating, q # r
        PROVE  req'[q] = req[q] /\ applied'[q] = applied[q]
    BY <2>1, <2>4, <2>5, <2>6 DEF Leads, Others
  <2>7. CASE r \in Creating
    <3>1. applied[r] \in Nat /\ applied[r] <= req[r].attempt /\ req[r].attempt \in 0..MaxRetries
      BY <2>2, <2>3, <2>4, <2>5, <2>7 DEF Bounded
    <3>2. req'[r].pc \notin Settled => req'[r].attempt >= req[r].attempt
      BY <2>2, <3>1 DEF Onward
    <3>3. CASE UNCHANGED applied
      BY <2>4, <2>6, <3>1, <3>2, <3>3, <2>2 DEF Bounded, Onward
    <3>4. CASE /\ applied' = [applied EXCEPT ![r] = @ + 1]
               /\ req[r].pc \in {"inflight", "body"}
               /\ req'[r].pc \in Settled \/ req'[r].pc = "backoff"
      <4>1. applied'[r] = applied[r] + 1 BY <2>5, <2>7, <3>4
      <4>2. req'[r].pc \notin Settled => req'[r].attempt = req[r].attempt + 1
        BY <2>2, <3>4 DEF Onward, StepsOf
      <4> QED BY <2>4, <2>6, <3>1, <4>1, <4>2 DEF Bounded
    <3> QED BY <2>1, <3>3, <3>4 DEF Leads
  <2>8. CASE r \notin Creating BY <2>6, <2>8 DEF Bounded
  <2> QED BY <2>7, <2>8
<1> QED BY <1>1, <1>2 DEF Next

LEMMA BoundedInit == Init => Bounded
BY PipelineAssumption DEF Init, NotBegun, Bounded

\* client.ts:239-271: a request that creates on another path (leads.ts:199, comments.ts:135,
\* budget.ts:28) is retried, and what it creates twice is bounded by the attempts: Meta
\* carries no request out more than 1 + MaxRetries times.
THEOREM CreationsBounded == Spec => [](\A r \in Creating : applied[r] <= 1 + MaxRetries)
<1>1. Bounded => \A r \in Creating : applied[r] <= 1 + MaxRetries BY DEF Bounded
<1> QED BY <1>1, BoundedInit, BoundedStep, OnceInit, OnceStep, WaitingInit, WaitingStep,
           KeptInit, KeptStep, PTL DEF Spec

-----------------------------------------------------------------------------

LEMMA QuotientGrows ==
  ASSUME NEW m \in Nat, NEW n \in Nat, m <= n, NEW d \in Nat \ {0}
  PROVE  m \div d <= n \div d
OBVIOUS

\* rate-limiter.ts:307-317: the more of a quota is used the longer a call waits, from no wait
\* below 75 percent to at most 60 seconds, rounded up to ticks.
THEOREM Staircase ==
  ASSUME NEW u \in 0..100, NEW v \in 0..100, u <= v
  PROVE  /\ StaircaseDelay(u) \in Nat /\ StaircaseDelay(u) <= StaircaseDelay(v)
         /\ StaircaseDelay(v) <= (60000 + TickMs - 1) \div TickMs
         /\ v < 75 => StaircaseDelay(v) = 0
<1>1. /\ StaircaseMs(u) \in Nat /\ StaircaseMs(v) \in Nat
      /\ StaircaseMs(u) <= StaircaseMs(v) /\ StaircaseMs(v) <= 60000
      /\ v < 75 => StaircaseMs(v) = 0
  BY DEF StaircaseMs
<1> DEFINE a == StaircaseMs(u) + TickMs - 1
           b == StaircaseMs(v) + TickMs - 1
           c == 60000 + TickMs - 1
<1>2. TickMs \in Nat \ {0} BY TickAssumption
<1>3. a \in Nat /\ b \in Nat /\ c \in Nat /\ a <= b /\ b <= c /\ (v < 75 => b = TickMs - 1)
  BY <1>1, <1>2
<1>4. (TickMs - 1) \div TickMs = 0 BY <1>2
<1>5. StaircaseDelay(u) = a \div TickMs /\ StaircaseDelay(v) = b \div TickMs BY DEF StaircaseDelay
<1> HIDE DEF a, b, c
<1>6. a \div TickMs <= b \div TickMs /\ b \div TickMs <= c \div TickMs /\ a \div TickMs \in Nat
  BY <1>2, <1>3, QuotientGrows, WholeQuotient
<1>7. c \div TickMs = (60000 + TickMs - 1) \div TickMs BY DEF c
<1> QED BY <1>3, <1>4, <1>5, <1>6, <1>7

=============================================================================

