----------------------------- MODULE WriteTools -----------------------------
(***************************************************************************)
(* The tools that write: what each one asks of the client, for every shape *)
(* of its input that a rule looks at, and the way of that write to Meta or *)
(* to the gateway (the write methods of meta/client.ts).  What no rule     *)
(* looks at (names, dates, texts, ids) is one plain field.                 *)
(***************************************************************************)
EXTENDS GatewayRouting, SecurityConfig

CONSTANT Amounts     \* the amounts, in cents, an input may name

ASSUME WriteAssumption == Amounts \subseteq Nat

VARIABLE write       \* the write of one call

\* An ask is the write a tool makes of an input, or the refusal it throws instead; after:
\* what it does with the answer.
Ask(tool, method, path, fields, after) ==
  [tool |-> tool, method |-> method, path |-> path, fields |-> fields, after |-> after]
Refusal(tool) == Ask(tool, "none", <<>>, <<>>, "none")
Post(tool, path, fieldSets) == {Ask(tool, "POST", path, f, "none") : f \in fieldSets}
Delete(tool, path, after) == {Ask(tool, "DELETE", path, <<>>, after)}

Some(key, values) == {Field(key, v) : v \in values}
Maybe(key, values) == {<<>>} \cup Some(key, values)
S ++ T == UNION {{Over(f, g) : g \in T} : f \in S}

Plain == Some(<<"name">>, {Word("TEXT")})
Words(set) == {Word(w) : w \in set}
Cost == {Amount(n) : n \in Amounts}
NewStatus == Some(Status, Words({"ACTIVE", "PAUSED"}))
AnyStatus == Maybe(Status, Words({"ACTIVE", "PAUSED", "DELETED", "ARCHIVED"}))
Deleted == Some(Status, {Word("DELETED")})
Budgets == Maybe(DailyBudget, Cost) ++ Maybe(LifetimeBudget, Cost)
Strategy == Maybe(BidStrategy, {Word("TEXT")})
PromotedObject == <<"promoted", "object">>
Targeting == <<"targeting">>
Objects == {Json(<<>>), Json(Field(SpendCap, Amount(1)))}    \* the caller's own record

CreateCampaign ==
  Post("create_campaign", <<"act", "campaigns">>, Plain ++ NewStatus ++ Budgets ++ Strategy)
UpdateCampaign ==
  Post("update_campaign", <<"node">>, AnyStatus ++ Budgets ++ Strategy)
DeleteCampaign == Post("delete_campaign", <<"node">>, Deleted)

CreateAdSet ==
  Post("create_ad_set", <<"act", "adsets">>,
       Plain ++ NewStatus ++ Budgets ++ Maybe(BidAmount, Cost) ++ Strategy
       ++ Some(Targeting, {Json(<<>>)}) ++ Maybe(PromotedObject, Objects))
UpdateAdSet ==
  Post("update_ad_set", <<"node">>,
       AnyStatus ++ Budgets ++ Maybe(BidAmount, Cost) ++ Strategy ++ Maybe(Targeting, {Json(<<>>)}))
DeleteAdSet == Post("delete_ad_set", <<"node">>, Deleted)

Creative == Some(<<"creative">>, {Json(<<>>)})
CreateAd == Post("create_ad", <<"act", "ads">>, Plain ++ NewStatus ++ Creative)
UpdateAd == Post("update_ad", <<"node">>, AnyStatus ++ ({<<>>} \cup Creative))
DeleteAd == Post("delete_ad", <<"node">>, Deleted)

\* encodeUpdatesBody turns an object into JSON; a string stays as the caller wrote it.
UpdateEntity ==
  Post("update_entity", <<"node">>,
       Maybe(Status, Words({"ACTIVE", "UNPAUSED", "PAUSED", "DELETED"})) ++ Maybe(DailyBudget, Cost)
       ++ Maybe(BidAmount, Cost) ++ Maybe(PromotedObject, Objects \cup {Garbled}))
ActivateEntity ==
  Post("activate_entity", <<"node">>, Some(Status, Words({"ACTIVE", "PAUSED", "ARCHIVED"})))

CreateBudgetSchedule ==
  Post("create_budget_schedule", <<"node", "budget_schedules">>, Some(<<"budget", "value">>, Cost))
UpdateSpendCap == Post("update_spend_cap", <<"act">>, Some(SpendCap, Cost \cup {Amount(0)}))

\* A creative from an Instagram post, from a post of the page, or from scratch, which needs
\* a page, a thumbnail for a video, and a safe URL if the image comes as one.
CreativeInputs ==
  [source : {"instagram", "post", "scratch"}, page : BOOLEAN, video : BOOLEAN, hash : BOOLEAN,
   url : {"none", "safe", "unsafe"}]
CreativeRefused(i) ==
  /\ i.source = "scratch"
  /\ \/ ~ i.page
     \/ i.video /\ ~ i.hash /\ i.url = "none"
     \/ i.url = "unsafe" /\ ~ i.hash
CreativeFields(i) ==
  IF i.source = "scratch" THEN Field(<<"object", "story", "spec">>, Json(<<>>)) ELSE <<>>
CreateCreative ==
  {IF CreativeRefused(i) THEN Refusal("create_creative")
   ELSE Ask("create_creative", "POST", <<"act", "adcreatives">>, CreativeFields(i), "read") :
     i \in CreativeInputs}
UpdateCreative == Post("update_creative", <<"node">>, {<<>>} \cup Plain)

UploadImage == {Refusal("upload_image"), Ask("upload_image", "MULTIPART", <<"act", "adimages">>, <<>>, "confirm")}
UploadVideo == {Refusal("upload_video")} \cup Post("upload_video", <<"act", "advideos">>, Plain)

\* Without a rule the subtype defaults to CUSTOM, which needs the source of its file.
CreateAudience ==
  {IF ~ i.rule /\ i.subtype \in {"none", "CUSTOM"} /\ ~ i.source THEN Refusal("create_audience")
   ELSE Ask("create_audience", "POST", <<"act", "customaudiences">>, Field(<<"rule">>, Word("TEXT")), "none") :
     i \in [rule : BOOLEAN, subtype : {"none", "CUSTOM", "WEBSITE"}, source : BOOLEAN]}
CreateLookalike ==
  Post("create_lookalike", <<"act", "customaudiences">>, Some(<<"lookalike", "spec">>, {Json(<<>>)}))
ShareAudience ==
  {Ask("share_audience", "POST", <<"node", "adaccounts">>, Field(<<"adaccounts">>, Word("TEXT")), "confirm")}
UnshareAudience == Delete("unshare_audience", <<"node", "adaccounts">>, "confirm")
DeleteAudience == Delete("delete_audience", <<"node">>, "confirm")

\* What a rule does (execution_type; ROTATE and NOTIFICATION are as PAUSE is): the spec goes
\* out as JSON, in a field that the gateway client takes for text.
RuleActions == {"PAUSE", "UNPAUSE", "CHANGE_BUDGET", "CHANGE_BID"}
RuleSpecs == {Json(Field(<<"execution", "type">>, Word(w))) : w \in RuleActions}
ExecutionSpec == <<"execution", "spec">>
CreateRule == Post("create_rule", <<"act", "adrules_library">>, Plain ++ Some(ExecutionSpec, RuleSpecs))
UpdateRule ==
  Post("update_rule", <<"node">>,
       Maybe(Status, Words({"ENABLED", "DISABLED"})) ++ Maybe(ExecutionSpec, RuleSpecs))
DeleteRule == Delete("delete_rule", <<"node">>, "none")

CreateLeadForm ==
  Post("create_lead_form", <<"node", "leadgen_forms">>, Plain ++ Some(<<"questions">>, {Json(<<>>)}))
CreateConversion == Post("create_conversion", <<"act", "customconversions">>, Plain)
CreateStudy == Post("create_study", <<"act", "ad_studies">>, Plain ++ Some(<<"cells">>, {Json(<<>>)}))
HideComment == Post("hide_comment", <<"node">>, Some(<<"is", "hidden">>, {Word("TRUE"), Word("FALSE")}))
ReplyComment == Post("reply_comment", <<"node", "comments">>, Plain)
DeleteComment == Delete("delete_comment", <<"node">>, "none")

Asks ==
  UNION {CreateCampaign, UpdateCampaign, DeleteCampaign, CreateAdSet, UpdateAdSet, DeleteAdSet,
         CreateAd, UpdateAd, DeleteAd, UpdateEntity, ActivateEntity, CreateBudgetSchedule,
         UpdateSpendCap, CreateCreative, UpdateCreative, UploadImage, UploadVideo,
         CreateAudience, CreateLookalike, ShareAudience, UnshareAudience, DeleteAudience,
         CreateRule, UpdateRule, DeleteRule, CreateLeadForm, CreateConversion, CreateStudy,
         HideComment, ReplyComment, DeleteComment}

Unsent == [to |-> "none", action |-> "none", cost |-> 0, fields |-> <<>>]

WriteInit == write = [pc |-> "idle", ask |-> Refusal("none"), sent |-> Unsent, ok |-> FALSE]

End(ok) == write' = [write EXCEPT !.pc = "over", !.ok = ok]

\* A tool is called: it throws on its input, or turns to the client.
AskWrite(ask) ==
  /\ write.pc = "idle"
  /\ write' = [write EXCEPT !.pc = IF ask.method = "none" THEN "over" ELSE "asked", !.ask = ask]

\* postForm, postMultipart and delete: to Meta, or in token-free mode to the gateway.
Destination(ask) ==
  IF ~ config.tokenFree THEN [Unsent EXCEPT !.to = "graph", !.fields = ask.fields]
  ELSE IF ask.method = "MULTIPART" THEN [Unsent EXCEPT !.to = "refused"]
  ELSE Route(ask.method, ask.path, ask.fields)

Send ==
  /\ write.pc = "asked"
  /\ LET sent == Destination(write.ask)
     IN write' = [write EXCEPT !.pc = IF sent.to = "refused" THEN "over" ELSE "sent", !.sent = sent]

\* An error or the timeout; or the answer, which some tools want confirmed, and after which
\* a new creative is read back for its post.
Answered ==
  /\ write.pc = "sent"
  /\ \/ End(FALSE)
     \/ write.ask.after # "read" /\ End(TRUE)
     \/ write.ask.after = "read" /\ write' = [write EXCEPT !.pc = "reading"]

\* Whatever becomes of that read, the creative is there.
ReadBack == write.pc = "reading" /\ End(TRUE)

WriteTypeOK ==
  /\ write.pc \in {"idle", "asked", "sent", "reading", "over"}
  /\ write.ask \in Asks \cup {Refusal("none")}
  /\ write.sent.to \in {"none", "graph", "refused", "/v1/meta", "/v1/act"}
  /\ write.ok => write.sent.to \notin {"none", "refused"}

\* What costs money and does not say so where the gateway client looks: a budget under
\* another name (budget.ts:28-33), and a rule that is to change one, to bid or to start
\* delivery (rules.ts:10-13, 111-124).
HidesSpending(ask) ==
  \/ ask.tool = "create_budget_schedule"
  \/ /\ ExecutionSpec \in DOMAIN ask.fields
     /\ ask.fields[ExecutionSpec].of[<<"execution", "type">>] # Word("PAUSE")

\* What costs money, told from the tool and its input.
Spenders == {"create_campaign", "create_ad_set", "create_ad"}
Prices == {DailyBudget, LifetimeBudget, SpendCap}
Priced(ask) == DOMAIN ask.fields \cap Prices
Spends(ask) ==
  \/ ask.tool \in Spenders
  \/ Priced(ask) # {} \/ BidAmount \in DOMAIN ask.fields \/ BidStrategy \in DOMAIN ask.fields
  \/ Status \in DOMAIN ask.fields /\ ask.fields[Status] \in Words({"ACTIVE", "UNPAUSED"})
  \/ HidesSpending(ask)

\* gateway-client.ts:7-16, 188-216: in token-free mode a tool's write that spends, and does
\* not hide it, reaches the gateway as a typed action or not at all; unless it stops delivery,
\* the hint of its cost is no less than any budget it names, and the gateway finds each one
\* under its *_cents key.  Lines 7-9 say so of all that spends; a write that hides it takes
\* the untyped way instead, to a gateway that is to refuse it (lines 12-15).
ShownMoneyIsTyped ==
  config.tokenFree /\ Spends(write.ask) /\ ~ HidesSpending(write.ask) =>
    /\ write.sent.to \in {"none", "refused", "/v1/act"}
    /\ write.sent.to = "/v1/act" =>
         \A key \in Priced(write.ask) :
           /\ write.sent.fields[key \o Cents] = write.ask.fields[key]
           /\ write.sent.action # "pause_campaign" => write.sent.cost >= write.ask.fields[key].n
=============================================================================
