----------------------------- MODULE MetaErrors -----------------------------
(***************************************************************************)
(* classifyMetaError (src/meta/errors.ts): the category of a Graph API     *)
(* error, and whether the client may retry it, must trip the breaker for   *)
(* it, and for how long Meta wants silence.  The rules are tried in order; *)
(* an error is a record [code, subcode], subcode 0 standing for none.      *)
(***************************************************************************)
EXTENDS Naturals, Sequences

CONSTANTS AbuseHint, BlockHint, InsightsHint    \* the three retryAfterMs literals, in ticks

ASSUME HintAssumption ==
  /\ AbuseHint \in Nat \ {0}
  /\ BlockHint \in Nat \ {0}
  /\ InsightsHint \in Nat \ {0}

BucRateLimitCodes == (80000..80006) \cup {80008, 80009, 80014}

\* hint 0 is an absent retryAfterMs.
Classes ==
  [category : STRING, retryable : BOOLEAN, throttled : BOOLEAN, hint : Nat]

Surface(category) ==
  [category |-> category, retryable |-> FALSE, throttled |-> FALSE, hint |-> 0]

Throttle(category, hint) ==
  [category |-> category, retryable |-> FALSE, throttled |-> TRUE, hint |-> hint]

\* The first rule that matches decides.
ClassifyMetaError(e) ==
  IF e.subcode = 1996 THEN Throttle("abuse_signal", AbuseHint)
  ELSE IF e.code \in {190, 102, 10} THEN Surface("auth")
  ELSE IF e.code = 368 \/ e.subcode = 1487742 THEN Throttle("temporary_block", BlockHint)
  ELSE IF e.code = 100 /\ e.subcode = 1487534 THEN Surface("data_per_call_limit")
  ELSE IF e.code = 4 /\ e.subcode = 1504022
       THEN Throttle("global_insights_rate_limit", InsightsHint)
  ELSE IF e.code \in BucRateLimitCodes THEN Throttle("buc_rate_limit", 0)
  ELSE IF e.code \in {4, 17, 32, 613} THEN Throttle("platform_rate_limit", 0)
  ELSE IF e.code \in {803, 100} THEN Surface("invalid_params")
  ELSE IF e.code = 2650 THEN Surface("duplicate")
  ELSE IF e.code \in {1, 2} THEN [Surface("transient") EXCEPT !.retryable = TRUE]
  ELSE Surface("unknown")
=============================================================================
