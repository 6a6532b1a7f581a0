--------------------------- MODULE RequestLimiter ---------------------------
(***************************************************************************)
(* createRateLimiter of src/transport/http.ts: a window per address before *)
(* /register and before /token, and the timer that sweeps what is over.    *)
(***************************************************************************)
EXTENDS Clock, FiniteSets

CONSTANTS
  Addresses,
  Limit,          \* door -> maxRequests
  WindowLength    \* windowMs

Doors == DOMAIN Limit

ASSUME LimiterAssumption ==
  /\ Limit \in [Doors -> Nat \ {0}]
  /\ WindowLength \in Nat \ {0}

VARIABLES
  requests,   \* door -> address -> its entry; one that was deleted is over, like NoEntry
  log         \* what came: door, address, time, number and answer (to observe)

NoEntry == [count |-> 0, resetAt |-> 0]

LimiterInit ==
  /\ requests = [d \in Doors |-> [a \in Addresses |-> NoEntry]]
  /\ log = {}

Elapsed(entry) == entry.resetAt < now

Counted(entry) ==
  IF Elapsed(entry) THEN [count |-> 1, resetAt |-> now + WindowLength]
  ELSE [entry EXCEPT !.count = @ + 1]

Sent(d, a) == {r \in log : r.door = d /\ r.from = a}

\* A request either passes, or is answered 429 and counted all the same.
Request(d, a) ==
  /\ requests' = [requests EXCEPT ![d][a] = Counted(@)]
  /\ log' = log \cup {[door |-> d, from |-> a, at |-> now, n |-> Cardinality(Sent(d, a)),
                       passed |-> requests'[d][a].count <= Limit[d]]}

\* The sweep as a bug would have it: the map is cleared.
MutSwept(entry) == NoEntry

Swept(entry) == IF Elapsed(entry) THEN NoEntry ELSE entry

Sweep(d) ==
  /\ requests' = [requests EXCEPT ![d] = [a \in Addresses |-> Swept(@[a])]]
  /\ UNCHANGED log

LimiterTypeOK ==
  /\ requests \in [Doors -> [Addresses -> [count : Nat, resetAt : Nat]]]
  /\ \A r \in log : /\ r.door \in Doors /\ r.from \in Addresses /\ r.passed \in BOOLEAN
                    /\ r.at \in Nat /\ r.n \in Nat

\* What passed of an address in the window's length up to a time.
PassedBefore(d, a, time) ==
  {r \in Sent(d, a) : r.passed /\ r.at <= time /\ time <= r.at + WindowLength}

\* http.ts:286-294: whenever the sweep comes, no window's length sees two whole quotas of
\* one address pass, and one is refused only if a whole quota of its own has passed no
\* longer than a window before it.
QuotaIsKept ==
  \A d \in Doors, a \in Addresses :
    /\ \A t \in 1 .. now : Cardinality(PassedBefore(d, a, t)) < 2 * Limit[d]
    /\ \A r \in Sent(d, a) : ~ r.passed => Cardinality(PassedBefore(d, a, r.at)) >= Limit[d]
=============================================================================
