-------------------------- MODULE MCRequestPipeline --------------------------
EXTENDS RequestPipeline, TLC

CONSTANTS t1, a1, reply

\* The calls are of one account: a creating write, an update and a read.  A reply to a
\* comment, which one run has instead, names none in its path.
MCCtx == [r \in Calls |-> [token |-> t1, account |-> IF r = reply THEN "_" ELSE a1,
                          type |-> "ads_management"]]

Quiet == [name |-> "x-ad-account-usage", usage |-> 0, accUsage |-> 0, regain |-> 0,
          business |-> "b1", type |-> "ads_management", tier |-> "none"]

\* No headers; or every kind at once: the account under load and told to wait, its
\* business told to wait less, the app nearly out, and two reports of the tier.
MCHeaderSets ==
  { {},
    { [Quiet EXCEPT !.accUsage = 80, !.regain = 2, !.tier = "standard_access"],
      [Quiet EXCEPT !.name = "x-business-use-case-usage", !.usage = 50, !.regain = 1],
      [Quiet EXCEPT !.name = "x-app-usage", !.usage = 96],
      [Quiet EXCEPT !.name = "x-fb-ads-insights-throttle", !.accUsage = 70, !.tier = "development_access"],
      [Quiet EXCEPT !.name = "x-fb-ads-insights-reach-throttle", !.usage = 10] } }

\* Hinted throttles of two lengths, a counted one, a transient and a final error.
MCErrors ==
  {[code |-> 613, subcode |-> 1996], [code |-> 4, subcode |-> 1504022],
   [code |-> 80004, subcode |-> 0], [code |-> 2, subcode |-> 0], [code |-> 803, subcode |-> 0]}

MCQuota == [development_access |-> 1, standard_access |-> 2]
MCCapacity == [development_access |-> 1, standard_access |-> 2]
=============================================================================
