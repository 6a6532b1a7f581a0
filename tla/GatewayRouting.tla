--------------------------- MODULE GatewayRouting ---------------------------
(***************************************************************************)
(* meta/gateway-client.ts: where a write goes in token-free mode, once     *)
(* there is a gateway client at all.                                       *)
(* A field's key is the sequence of its words, in lower case, so the       *)
(* suffix tests of the code are tests on sequences.  A value is a number,  *)
(* a word (trimmed and in upper case, as a status is read), a JSON string  *)
(* of fields (the tools nest nothing else), or one that does not parse.    *)
(***************************************************************************)
EXTENDS Naturals, SequencesExt

Amount(n) == [is |-> "amount", n |-> n]
Word(w) == [is |-> "word", word |-> w]
Json(fields) == [is |-> "json", of |-> fields]
Garbled == [is |-> "garbled"]

\* Fields are a function of their keys: one alone, and some laid over others.
Field(key, value) == [k \in {key} |-> value]
Over(f, g) == [key \in DOMAIN f \cup DOMAIN g |-> IF key \in DOMAIN f THEN f[key] ELSE g[key]]

Status == <<"status">>
DailyBudget == <<"daily", "budget">>
LifetimeBudget == <<"lifetime", "budget">>
BidAmount == <<"bid", "amount">>
BidStrategy == <<"bid", "strategy">>
SpendCap == <<"spend", "cap">>
Cents == <<"cents">>

\* The keys of MONEY_KEYS that no suffix covers.
MoneyKeys ==
  {<<"bid", "strategy">>, <<"bid", "info">>, <<"bid", "type">>, <<"bid", "adjustments">>,
   <<"pacing", "type">>, <<"budget", "rebalance", "flag">>, <<"min", "spend", "target">>,
   <<"daily", "min", "spend", "target">>, <<"lifetime", "min", "spend", "target">>}

MoneySuffixes ==
  {<<"budget">>, <<"budget", "cents">>, <<"bid">>, BidAmount, SpendCap, <<"bid", "constraints">>}

ControlKeys == {<<"batch">>, <<"ids">>, <<"include", "headers">>,
                <<"asset", "feed", "spec", "overrides">>}

StructuredFields ==
  {<<"object", "story", "spec">>, <<"asset", "feed", "spec">>, <<"promoted", "object">>,
   <<"targeting">>, <<"bid", "info">>, <<"degrees", "of", "freedom", "spec">>, <<"link", "data">>}

IsMoneyKey(key) ==
  \/ key \in MoneyKeys
  \/ \E suffix \in MoneySuffixes : IsSuffix(suffix, key)
  \/ \E i \in 1 .. Len(key) - 1 : SubSeq(key, i, i + 1) = SpendCap

\* The test as a bug would have it: UNPAUSED does not start delivery.
MutIsActiveStatus(value) == value = Word("ACTIVE")

IsActiveStatus(value) == value \in {Word("ACTIVE"), Word("UNPAUSED")}

\* What one level of fields shows: a key of money or control, a status that starts delivery, a
\* structured field that does not parse.
ShowsMoney(fields) ==
  \E key \in DOMAIN fields :
    \/ key \in ControlKeys
    \/ IsMoneyKey(key)
    \/ key = Status /\ IsActiveStatus(fields[key])
    \/ key \in StructuredFields /\ fields[key] = Garbled

\* The fields that a level's structured fields nest.
NestedIn(fields) ==
  {fields[key].of : key \in {k \in DOMAIN fields \cap StructuredFields : fields[k].is = "json"}}

MaxNesting == 2    \* bound: the tools' fields nest once, and that level's nothing

\* The recursion, level by level.
HasMoneyField(fields) ==
  LET level[depth \in 1 .. MaxNesting] ==
        IF depth = 1 THEN NestedIn(fields) ELSE UNION {NestedIn(f) : f \in level[depth - 1]}
  IN ShowsMoney(fields) \/ \E depth \in 1 .. MaxNesting : \E f \in level[depth] : ShowsMoney(f)

\* A path is <<"act">>, an account's collection <<"act", c>>, a node <<"node">>, or
\* something below a node <<"node", c>>.
CreatesSpender(path) ==
  path \in {<<"act", "campaigns">>, <<"act", "adsets">>, <<"act", "ads">>}

\* The largest budget among the fields, as budgetCents finds it: a hint of the cost.
BudgetKeys ==
  LET budgets == {DailyBudget, LifetimeBudget, <<"budget">>, SpendCap}
  IN budgets \cup {key \o Cents : key \in budgets}

AmountsOf(fields) ==
  {0} \cup {fields[key].n : key \in {k \in DOMAIN fields \cap BudgetKeys : fields[k].is = "amount"}}

BudgetCents(fields) == Max(AmountsOf(fields))

\* What the gateway reserves by: the *_cents alias of each budget that has none.
WithReserveAliases(fields) ==
  LET missing == {key \in {DailyBudget, LifetimeBudget, SpendCap} :
                    /\ key \in DOMAIN fields /\ fields[key].is = "amount"
                    /\ key \o Cents \notin DOMAIN fields}
      aliases == [c \in {key \o Cents : key \in missing} |-> fields[Front(c)]]
  IN Over(aliases, fields)

\* mapMoneyAction; NoAction where the gateway knows no action for it.
NoAction == [action |-> "none", cost |-> 0, fields |-> <<>>]

MapMoneyAction(method, path, fields) ==
  LET Act(action, cost) == [action |-> action, cost |-> cost, fields |-> WithReserveAliases(fields)]
      status == IF Status \in DOMAIN fields THEN fields[Status] ELSE Word("")
      cost == BudgetCents(fields)
  IN IF method = "DELETE" THEN NoAction
     ELSE IF path = <<"act", "campaigns">> THEN Act("publish_campaign", cost)
     ELSE IF path = <<"act", "adsets">> THEN Act("publish_adset", cost)
     ELSE IF path = <<"act", "ads">> THEN NoAction
     ELSE IF path = <<"act">> /\ SpendCap \in DOMAIN fields THEN Act("set_spend_cap", cost)
     ELSE IF path \in {<<"act">>, <<"node">>} /\ status = Word("PAUSED") THEN Act("pause_campaign", 0)
     ELSE IF path \in {<<"act">>, <<"node">>} /\ status = Word("ACTIVE") THEN Act("activate_campaign", cost)
     ELSE IF path \in {<<"act">>, <<"node">>} /\ HasMoneyField(fields) THEN Act("scale_budget", cost)
     ELSE NoAction

\* GatewayWriteClient.route, for POST and DELETE: to /v1/act, to /v1/meta, or refused here.
Route(method, path, fields) ==
  LET money == method = "DELETE" \/ CreatesSpender(path) \/ HasMoneyField(fields)
      act == MapMoneyAction(method, path, fields)
  IN IF ~ money THEN [to |-> "/v1/meta", action |-> "none", cost |-> 0, fields |-> fields]
     ELSE IF act = NoAction THEN [to |-> "refused", action |-> "none", cost |-> 0, fields |-> <<>>]
     ELSE [to |-> "/v1/act", action |-> act.action, cost |-> act.cost, fields |-> act.fields]
=============================================================================
