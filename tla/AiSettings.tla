----------------------------- MODULE AiSettings -----------------------------
(***************************************************************************)
(* The AI settings of one tenant (services/ai_settings.py), the readiness  *)
(* of its AI features (entitlement/service.py), the log and the monthly    *)
(* counters of the tokens used (services/ai_usage.py), and the connection  *)
(* test through the gateway (ai-gateway/).                                 *)
(*                                                                         *)
(* update_ai_settings locks the row with its first statement, so that it   *)
(* is one step; a first call, which finds no row to lock, is two.  The     *)
(* test reads the row without a lock, calls the provider and locks the     *)
(* row after that.  The secret of the server is configured; hints, audit   *)
(* rows and messages are left out, and a key stands for its ciphertext.    *)
(***************************************************************************)
EXTENDS Integers, FiniteSets

CONSTANTS Provider, DefaultProvider, Custom,
          Url, BaseUrl,          \* PROVIDER_BASE_URLS, Custom has none
          CustomUrl,             \* AI_ALLOWED_BASE_URLS of the Core API
          GatewayUrl,            \* allowed_base_urls of the gateway
          Model, DefaultModel, Key, NoKey,
          Feature, Keep,         \* Keep: a field that a request leaves out
          Caller, Update,        \* the updates HR may ask for
          Usage,                 \* tokens one call may use
          LastMonth, MaxTests, MaxFaults

VARIABLES setting,    \* tenant_ai_setting
          aiEnabled,  \* AI_ENABLED of the Core API
          month,      \* the current month
          log,        \* ai_usage, by the month of created_at
          counter,    \* ai_usage_monthly
          tests,      \* tests begun
          call,       \* what each caller is doing
          consentFor, \* the provider the consent was given for, while there is one
          tested,     \* what the test had called that verified the settings, while they are
          overtaken,  \* did an update come between that test's read and its write
          faults

vars == <<setting, aiEnabled, month, log, counter, tests, call, consentFor, tested, overtaken, faults>>

Month == 1..LastMonth
Setting == [known : BOOLEAN, provider : Provider, url : Url, model : Model, key : Key \cup {NoKey},
            verified : BOOLEAN, consent : BOOLEAN, features : SUBSET Feature, limit : Nat]
Spent == [calls : Nat, tokens : Nat]
Ask == [provider : Provider \cup {Keep}, url : Url \cup {Keep}, model : Model \cup {Keep},
        key : Key \cup {Keep}, clear : BOOLEAN, limit : Nat \cup {Keep},
        consent : {"yes", "no", Keep}, features : (SUBSET Feature) \cup {Keep}]

ASSUME AiAssumption ==
  /\ DefaultProvider \in Provider /\ Custom \in Provider \ {DefaultProvider}
  /\ BaseUrl \in [Provider \ {Custom} -> Url] /\ CustomUrl \subseteq Url
  /\ DefaultModel \in Model /\ NoKey \notin Key /\ Update \subseteq Ask /\ Update # {}
  /\ Usage \subseteq Nat /\ MaxTests \in Nat /\ MaxFaults \in Nat
  /\ LastMonth \in Nat \ {0}

(* _load finds no row until the first update: these are the values it starts from. *)
FirstSetting == [known |-> FALSE, provider |-> DefaultProvider, url |-> BaseUrl[DefaultProvider],
                 model |-> DefaultModel, key |-> NoKey, verified |-> FALSE, consent |-> FALSE,
                 features |-> {}, limit |-> 0]
(* What a test tries, and what the session has seen of the row. *)
What(s) == <<s.key, s.url, s.model>>
Failed == -1
Seen(s) == [what |-> What(s), verified |-> s.verified]
NoCall == [pc |-> "ready", seen |-> Seen(FirstSetting), asked |-> CHOOSE o \in Update : TRUE,
           began |-> 1, answer |-> Failed]
CallRow == [pc : {"ready", "creating", "calling", "answered"},
            seen : [what : (Key \cup {NoKey}) \X Url \X Model, verified : BOOLEAN],
            asked : Update, began : Month, answer : Usage \cup {Failed}]

TypeOK ==
  /\ setting \in Setting /\ aiEnabled \in BOOLEAN /\ month \in Month
  /\ tests \in 0..MaxTests /\ log \in [Month -> Spent] /\ counter \in [Month -> Spent]
  /\ call \in [Caller -> CallRow] /\ consentFor \in Provider
  /\ tested \in (Key \cup {NoKey}) \X Url \X Model /\ overtaken \in BOOLEAN
  /\ faults \in 0..MaxFaults

NothingSpent == [m \in Month |-> [calls |-> 0, tokens |-> 0]]
Init ==
  /\ setting = FirstSetting /\ aiEnabled = TRUE /\ month = 1
  /\ log = NothingSpent /\ counter = NothingSpent /\ tests = 0
  /\ call = [c \in Caller |-> NoCall] /\ consentFor = DefaultProvider
  /\ tested = What(FirstSetting) /\ overtaken = FALSE /\ faults = 0

Ends(c) == call' = [call EXCEPT ![c] = NoCall]

-----------------------------------------------------------------------------
(* Readiness: entitlement/service.py.                                       *)

(* All that HR must do before a feature may be enabled. *)
Ready(s) == s.key # NoKey /\ s.consent /\ s.verified

\* mutant: the limit may be used up
LimitPassed == setting.limit > 0 /\ counter[month].tokens > setting.limit
LimitReached == setting.limit > 0 /\ counter[month].tokens >= setting.limit

(* ai_status: the features a request finds active. *)
ActiveFeatures == IF aiEnabled /\ setting.known /\ Ready(setting) /\ ~LimitReached
                  THEN setting.features ELSE {}

-----------------------------------------------------------------------------
(* update_ai_settings                                                       *)

ProviderAfter(s, o) == IF o.provider = Keep THEN s.provider ELSE o.provider
Moves(s, o) == ProviderAfter(s, o) # s.provider

(* _resolve_base_url: fixed for a known provider, from the operator's list for Custom. *)
UrlAfter(s, o) ==
  IF ~Moves(s, o) /\ o.url = Keep THEN s.url
  ELSE IF ProviderAfter(s, o) = Custom THEN o.url ELSE BaseUrl[ProviderAfter(s, o)]
UrlAllowed(s, o) ==
  Moves(s, o) \/ o.url # Keep =>
    IF ProviderAfter(s, o) = Custom THEN o.url \in CustomUrl
    ELSE o.url \in {Keep, BaseUrl[ProviderAfter(s, o)]}

(* Only the default provider has a model of its own. *)
ModelAfter(s, o) == IF o.model # Keep THEN o.model ELSE IF Moves(s, o) THEN DefaultModel ELSE s.model
ModelGiven(s, o) == Moves(s, o) /\ o.model = Keep => ProviderAfter(s, o) = DefaultProvider

(* A new key goes before clear_api_key. *)
KeyAfter(s, o) == IF o.key # Keep THEN o.key ELSE IF o.clear THEN NoKey ELSE s.key

(* What the test has shown holds no longer. *)
\* mutant: a new model needs no new test
InvalidatesButModel(s, o) ==
  Moves(s, o) \/ UrlAfter(s, o) # s.url \/ o.clear \/ o.key # Keep
Invalidates(s, o) ==
  \/ Moves(s, o) \/ UrlAfter(s, o) # s.url \/ ModelAfter(s, o) # s.model
  \/ o.clear \/ o.key # Keep

\* mutant: the consent is kept for another provider
ConsentKeptAlways(s, o) == s.consent
ConsentKept(s, o) == s.consent /\ ~Moves(s, o)
ConsentAfter(s, o) == o.consent = "yes" \/ (o.consent = Keep /\ ConsentKept(s, o))

Edited(s, o) ==
  [known |-> TRUE, provider |-> ProviderAfter(s, o), url |-> UrlAfter(s, o),
   model |-> ModelAfter(s, o), key |-> KeyAfter(s, o),
   verified |-> s.verified /\ ~Invalidates(s, o), consent |-> ConsentAfter(s, o),
   features |-> IF o.features = Keep THEN s.features ELSE o.features,
   limit |-> IF o.limit = Keep THEN s.limit ELSE o.limit]

(* A feature is switched on only when the settings, as this request leaves them, are ready. *)
MayEnable(s, o) == Edited(s, o).features \subseteq s.features \/ Ready(Edited(s, o))

Accepted(s, o) == UrlAllowed(s, o) /\ ModelGiven(s, o) /\ MayEnable(s, o)

(* The record of how the settings were verified ends with the verification. *)
Verified(v, what, late) ==
  /\ tested' = IF v THEN what ELSE What(FirstSetting)
  /\ overtaken' = (v /\ late)

Write(s, o) ==
  /\ setting' = Edited(s, o)
  /\ consentFor' = IF ~ConsentAfter(s, o) THEN DefaultProvider
                   ELSE IF ConsentKept(s, o) THEN consentFor ELSE ProviderAfter(s, o)
  /\ Verified(setting'.verified, tested, overtaken)

UpdateSettings(c, o) ==
  /\ call[c].pc = "ready" /\ setting.known
  /\ Accepted(setting, o) /\ Write(setting, o)
  /\ UNCHANGED <<aiEnabled, month, log, counter, tests, call, faults>>

(* There is no row to lock: two first calls both insert, and the unique index on the *)
(* tenant refuses the one that commits second, with an error nobody handles.         *)
BeginFirst(c, o) ==
  /\ call[c].pc = "ready" /\ ~setting.known /\ Accepted(FirstSetting, o)
  /\ call' = [call EXCEPT ![c] = [NoCall EXCEPT !.pc = "creating", !.asked = o]]
  /\ UNCHANGED <<setting, aiEnabled, month, log, counter, tests, consentFor, tested, overtaken, faults>>

CommitFirst(c) ==
  /\ call[c].pc = "creating" /\ Ends(c)
  /\ IF setting.known THEN UNCHANGED <<setting, consentFor, tested, overtaken>>
     ELSE Write(FirstSetting, call[c].asked)
  /\ UNCHANGED <<aiEnabled, month, log, counter, tests, faults>>

-----------------------------------------------------------------------------
(* test_connection                                                          *)

(* The row is read, not locked; the request goes to the gateway. *)
BeginTest(c) ==
  /\ call[c].pc = "ready" /\ aiEnabled /\ setting.known /\ setting.key # NoKey
  /\ tests < MaxTests /\ tests' = tests + 1
  /\ call' = [call EXCEPT ![c] = [NoCall EXCEPT !.pc = "calling", !.seen = Seen(setting),
                                                 !.began = month]]
  /\ UNCHANGED <<setting, aiEnabled, month, log, counter, consentFor, tested, overtaken, faults>>

(* The gateway: it refuses a URL it does not know; the provider answers with the tokens *)
(* used, or fails, and so does a gateway switched off, unreachable or too slow.         *)
Answers(what) == {Failed} \cup (IF what[2] \in GatewayUrl THEN Usage ELSE {})
Answer(c) ==
  /\ call[c].pc = "calling"
  /\ \E a \in Answers(call[c].seen.what) :
       call' = [call EXCEPT ![c].pc = "answered", ![c].answer = a]
  /\ UNCHANGED <<setting, aiEnabled, month, log, counter, tests, consentFor, tested, overtaken, faults>>

(* The row is locked and selected again; but the session has the object already and  *)
(* keeps the values of the first read.                                               *)
Reread(c) == call[c].seen

(* record_usage: the log's created_at is the begin of the transaction, the counter's *)
(* month the present one.                                                            *)
Add(spent, tokens) == [calls |-> spent.calls + 1, tokens |-> spent.tokens + tokens]
\* mutant: the row of the counter there is is replaced
RecordReplaces(c, tokens) ==
  /\ log' = [log EXCEPT ![call[c].began] = Add(@, tokens)]
  /\ counter' = [counter EXCEPT ![month] = [calls |-> 1, tokens |-> tokens]]
Record(c, tokens) ==
  /\ log' = [log EXCEPT ![call[c].began] = Add(@, tokens)]
  /\ counter' = [counter EXCEPT ![month] = Add(@, tokens)]

(* A success verifies the row, if what was tested is still there as far as the session *)
(* sees; only key_verified_at is written.                                               *)
CommitSuccess(c) ==
  /\ call[c].pc = "answered" /\ call[c].answer # Failed
  /\ Ends(c)
  /\ IF Reread(c).what # call[c].seen.what
     THEN UNCHANGED <<setting, log, counter, tested, overtaken>>
     ELSE /\ setting' = [setting EXCEPT !.verified = TRUE]
          /\ Verified(TRUE, call[c].seen.what, What(setting) # call[c].seen.what)
          /\ Record(c, call[c].answer)
  /\ UNCHANGED <<aiEnabled, month, tests, consentFor, faults>>

(* A failure takes the verification away, if the session has seen one. *)
CommitFailure(c) ==
  /\ call[c].pc = "answered" /\ call[c].answer = Failed
  /\ Ends(c)
  /\ setting' = [setting EXCEPT !.verified = @ /\ ~Reread(c).verified]
  /\ Verified(setting'.verified, tested, overtaken)
  /\ Record(c, 0)
  /\ UNCHANGED <<aiEnabled, month, tests, consentFor, faults>>

-----------------------------------------------------------------------------
(* A request lost before its commit leaves nothing, though the provider was called. *)
Rollback(c) ==
  /\ call[c].pc # "ready" /\ faults < MaxFaults
  /\ faults' = faults + 1 /\ Ends(c)
  /\ UNCHANGED <<setting, aiEnabled, month, log, counter, tests, consentFor, tested, overtaken>>

(* An operator restarts the service with AI_ENABLED changed. *)
Redeploy ==
  /\ aiEnabled' = ~aiEnabled /\ faults < MaxFaults /\ faults' = faults + 1
  /\ UNCHANGED <<setting, month, log, counter, tests, call, consentFor, tested, overtaken>>

NextMonth ==
  /\ month + 1 \in Month /\ month' = month + 1
  /\ UNCHANGED <<setting, aiEnabled, log, counter, tests, call, consentFor, tested, overtaken, faults>>

Next ==
  \/ \E c \in Caller : \/ \E o \in Update : UpdateSettings(c, o) \/ BeginFirst(c, o)
                       \/ CommitFirst(c) \/ BeginTest(c) \/ Answer(c)
                       \/ CommitSuccess(c) \/ CommitFailure(c) \/ Rollback(c)
  \/ Redeploy \/ NextMonth

Spec == Init /\ [][Next]_vars

-----------------------------------------------------------------------------
(* docs/decisions/011 point 5: who gave the consent gave it for the provider there is. *)
ConsentForProvider == setting.consent => consentFor = setting.provider

(* The settings count as verified only when a test has succeeded with this key, URL and *)
(* model; unless an update changed one of them between the test's read and its write,   *)
(* which the test does not notice.                                                      *)
VerifiedUnlessOvertaken == setting.verified => overtaken \/ tested = What(setting)

(* services/ai_settings.py test_connection, "hanya tandai terverifikasi kalau key, URL,  *)
(* dan model belum diubah orang lain selama tes berjalan": verified means tested.        *)
VerifiedMeansTested == setting.verified => tested = What(setting)

(* docs/decisions/011 point 7: the counters are the log.  A call that is recorded in a   *)
(* month after the one its transaction began in is logged in that one and counted in     *)
(* this: so up to any month the counters have at most what the log has, in total all.    *)
(* A sum over months is the size of the set of its units.                                *)
Units(g, m) == UNION {{i} \X (1..g[i]) : i \in {i \in Month : i <= m}}
Total(g, m) == Cardinality(Units(g, m))
UpTo(f, m) == [calls |-> Total([i \in Month |-> f[i].calls], m),
               tokens |-> Total([i \in Month |-> f[i].tokens], m)]
CountersFollowLog ==
  \A m \in Month :
    /\ UpTo(counter, m).calls <= UpTo(log, m).calls /\ UpTo(counter, m).tokens <= UpTo(log, m).tokens
    /\ m >= month => UpTo(counter, m) = UpTo(log, m)

(* docs/decisions/011 point 5: a feature is active only while the server allows it, the  *)
(* consent is for this provider, the test was of these settings (or was overtaken), and  *)
(* the calls of this month in the log are below the limit.                               *)
ActiveOnlyWhenAllowed ==
  ActiveFeatures # {} =>
    /\ aiEnabled /\ setting.key # NoKey
    /\ setting.consent /\ consentFor = setting.provider
    /\ overtaken \/ tested = What(setting)
    /\ setting.limit > 0 => log[month].tokens < setting.limit

(* The inductive invariant.  No call is under way since a later month, so that what this *)
(* and later months have in the log they have in the counter; a first update that waits   *)
(* for its commit has been accepted.                                                      *)
NotFromLater == \A c \in Caller : call[c].began <= month
FirstAccepted == \A c \in Caller : call[c].pc = "creating" => Accepted(FirstSetting, call[c].asked)
LogIsCounted == \A m \in Month : m >= month => log[m].tokens <= counter[m].tokens
AiInv == TypeOK /\ ConsentForProvider /\ VerifiedUnlessOvertaken
         /\ NotFromLater /\ FirstAccepted /\ LogIsCounted
=============================================================================
