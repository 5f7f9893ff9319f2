--------------------------- MODULE AiSettingsProofs ---------------------------
(* Proofs about AiSettings, for every value of its constants. *)
EXTENDS AiSettings, FiniteSetTheorems, TLAPS

Tried == (Key \cup {NoKey}) \X Url \X Model

(* What a setting lets a test try has its type. *)
LEMMA WhatType == ASSUME NEW s \in Setting PROVE What(s) \in Tried
BY DEF What, Setting, Tried

LEMMA FirstSettingType == FirstSetting \in Setting
BY AiAssumption DEF FirstSetting, Setting

LEMMA NoCallType == NoCall \in CallRow /\ NoCall.began = 1 /\ NoCall.pc = "ready"
<1> DEFINE o == CHOOSE o \in Update : TRUE
<1>1. o \in Update
  BY AiAssumption
<1>2. What(FirstSetting) \in Tried
  BY WhatType, FirstSettingType
<1>3. 1 \in Month
  BY AiAssumption DEF Month
<1> QED
  BY <1>1, <1>2, <1>3 DEF NoCall, CallRow, Seen, FirstSetting, Tried

(* An update that is accepted leaves settings of their type. *)
LEMMA EditedType ==
  ASSUME NEW s \in Setting, NEW o \in Update, Accepted(s, o)
  PROVE  Edited(s, o) \in Setting
<1>1. o \in Ask
  BY AiAssumption
<1>2. ProviderAfter(s, o) \in Provider
  BY <1>1 DEF ProviderAfter, Ask, Setting
<1>3. UrlAfter(s, o) \in Url
  <2>1. CASE ~Moves(s, o) /\ o.url = Keep
    BY <2>1 DEF UrlAfter, Setting
  <2>2. CASE Moves(s, o) \/ o.url # Keep
    BY <1>2, <2>2, AiAssumption DEF Accepted, UrlAllowed, UrlAfter
  <2> QED
    BY <2>1, <2>2
<1>4. ModelAfter(s, o) \in Model
  BY <1>1, AiAssumption DEF ModelAfter, Ask, Setting
<1>5. KeyAfter(s, o) \in Key \cup {NoKey}
  BY <1>1 DEF KeyAfter, Ask, Setting
<1>6. ConsentAfter(s, o) \in BOOLEAN
  BY DEF ConsentAfter, ConsentKept, Setting
<1>7. (s.verified /\ ~Invalidates(s, o)) \in BOOLEAN
  OBVIOUS
<1>8. (IF o.features = Keep THEN s.features ELSE o.features) \in SUBSET Feature
  BY <1>1 DEF Ask, Setting
<1>9. (IF o.limit = Keep THEN s.limit ELSE o.limit) \in Nat
  BY <1>1 DEF Ask, Setting
<1> QED
  BY <1>2, <1>3, <1>4, <1>5, <1>6, <1>7, <1>8, <1>9 DEF Edited, Setting

(* Settings that stay verified through an update are those that were tested. *)
LEMMA StaysWhatWasTested ==
  ASSUME NEW s \in Setting, NEW o \in Update, ~Invalidates(s, o)
  PROVE  What(Edited(s, o)) = What(s)
BY DEF Invalidates, What, Edited, KeyAfter

(* A write of HR keeps what is said about consent and verification. *)
LEMMA WriteKeeps ==
  ASSUME NEW s \in Setting, NEW o \in Update, Accepted(s, o), Write(s, o),
         consentFor \in Provider, tested \in Tried, overtaken \in BOOLEAN,
         s.consent => consentFor = s.provider,
         s.verified => overtaken \/ tested = What(s)
  PROVE  /\ setting' \in Setting /\ consentFor' \in Provider
         /\ tested' \in Tried /\ overtaken' \in BOOLEAN
         /\ ConsentForProvider' /\ VerifiedUnlessOvertaken'
<1>1. setting' = Edited(s, o) /\ setting' \in Setting
  BY EditedType DEF Write
<1>2. setting'.provider = ProviderAfter(s, o) /\ setting'.consent = ConsentAfter(s, o)
      /\ setting'.verified = (s.verified /\ ~Invalidates(s, o))
  BY <1>1 DEF Edited
<1>3. ConsentKept(s, o) => consentFor = ProviderAfter(s, o)
  BY DEF ConsentKept, Moves
<1>4. consentFor' \in Provider /\ (ConsentAfter(s, o) => consentFor' = ProviderAfter(s, o))
  BY <1>1, <1>2, <1>3, AiAssumption DEF Write, Setting
<1>5. What(FirstSetting) \in Tried
  BY WhatType, FirstSettingType
<1>6. tested' \in Tried /\ overtaken' \in BOOLEAN
  BY <1>5 DEF Write, Verified
<1>7. ASSUME setting'.verified PROVE overtaken' \/ tested' = What(setting')
  <2>1. s.verified /\ ~Invalidates(s, o)
    BY <1>2, <1>7
  <2>2. What(setting') = What(s)
    BY <1>1, <2>1, StaysWhatWasTested
  <2>3. tested' = tested /\ overtaken' = overtaken
    BY <1>7 DEF Write, Verified
  <2> QED
    BY <2>1, <2>2, <2>3
<1> QED
  BY <1>1, <1>2, <1>4, <1>6, <1>7 DEF ConsentForProvider, VerifiedUnlessOvertaken

-----------------------------------------------------------------------------
(* Recording the use of a call that began in an earlier month or this one. *)
LEMMA RecordKeeps ==
  ASSUME AiInv, NEW c \in Caller, NEW n \in Nat, Record(c, n), month' = month
  PROVE  log' \in [Month -> Spent] /\ counter' \in [Month -> Spent] /\ LogIsCounted'
<1> DEFINE b == call[c].began
<1>1. b \in Month /\ month \in Month /\ b <= month /\ Month \subseteq Nat
  BY DEF AiInv, TypeOK, CallRow, NotFromLater, Month
<1>2. log \in [Month -> Spent] /\ counter \in [Month -> Spent]
  BY DEF AiInv, TypeOK
<1>3. \A x \in Spent : Add(x, n) \in Spent /\ Add(x, n).tokens = x.tokens + n /\ x.tokens \in Nat
  BY DEF Add, Spent
<1>4. log' = [log EXCEPT ![b] = Add(log[b], n)] /\ counter' = [counter EXCEPT ![month] = Add(counter[month], n)]
  BY DEF Record
<1>5. log' \in [Month -> Spent] /\ counter' \in [Month -> Spent]
  BY <1>1, <1>2, <1>3, <1>4
<1>6. ASSUME NEW m \in Month, m >= month PROVE log'[m].tokens <= counter'[m].tokens
  <2>1. log[m].tokens <= counter[m].tokens
    BY <1>6 DEF AiInv, LogIsCounted
  <2>2. log[m] \in Spent /\ counter[m] \in Spent
    BY <1>2
  <2>3. CASE m = month
    <3>1. counter'[m].tokens = counter[m].tokens + n
      BY <1>2, <1>3, <1>4, <2>2, <2>3
    <3>2. log'[m].tokens \in {log[m].tokens, log[m].tokens + n}
      BY <1>1, <1>2, <1>3, <1>4, <2>2
    <3> QED
      BY <1>3, <2>1, <2>2, <3>1, <3>2
  <2>4. CASE m # month
    <3>1. m # b
      BY <1>1, <1>6, <2>4
    <3> QED
      BY <1>2, <1>4, <2>1, <2>4, <3>1
  <2> QED
    BY <2>3, <2>4
<1> QED
  BY <1>5, <1>6 DEF LogIsCounted

(* A call that ends or is lost leaves no trace in the rows of the calls. *)
LEMMA EndsKeeps ==
  ASSUME AiInv, NEW c \in Caller, Ends(c), month' = month
  PROVE  call' \in [Caller -> CallRow] /\ NotFromLater' /\ FirstAccepted'
<1>1. 1 <= month
  BY AiAssumption DEF AiInv, TypeOK, Month
<1> QED
  BY <1>1, NoCallType DEF AiInv, TypeOK, Ends, NotFromLater, FirstAccepted

LEMMA InitAi == Init => AiInv
<1> SUFFICES ASSUME Init PROVE AiInv
  OBVIOUS
<1>1. 1 \in Month /\ Month \subseteq Nat
  BY AiAssumption DEF Month
<1>2. [calls |-> 0, tokens |-> 0] \in Spent
  BY DEF Spent
<1>3. TypeOK
  <2>1. What(FirstSetting) \in (Key \cup {NoKey}) \X Url \X Model
    BY WhatType, FirstSettingType DEF Tried
  <2>2. NothingSpent \in [Month -> Spent]
    BY <1>2 DEF NothingSpent
  <2>3. 0 \in 0..MaxTests /\ 0 \in 0..MaxFaults
    BY AiAssumption
  <2> QED
    BY <1>1, <2>1, <2>2, <2>3, AiAssumption, FirstSettingType, NoCallType DEF Init, TypeOK
<1>4. ConsentForProvider /\ VerifiedUnlessOvertaken
  BY DEF Init, ConsentForProvider, VerifiedUnlessOvertaken, FirstSetting
<1>5. NotFromLater /\ FirstAccepted
  BY NoCallType DEF Init, NotFromLater, FirstAccepted
<1>6. LogIsCounted
  BY DEF Init, LogIsCounted, NothingSpent
<1> QED
  BY <1>3, <1>4, <1>5, <1>6 DEF AiInv

LEMMA StepAi == ASSUME AiInv, [Next]_vars PROVE AiInv'
<1> USE DEF AiInv
<1>t. Tried = (Key \cup {NoKey}) \X Url \X Model
  BY DEF Tried
<1>0. CASE UNCHANGED vars
  BY <1>0 DEF vars, TypeOK, ConsentForProvider, VerifiedUnlessOvertaken, NotFromLater, FirstAccepted, LogIsCounted
<1>1. ASSUME NEW c \in Caller, NEW o \in Update, UpdateSettings(c, o) PROVE AiInv'
  <2>1. Accepted(setting, o) /\ Write(setting, o) /\ setting \in Setting
    BY <1>1 DEF UpdateSettings, TypeOK
  <2>2. consentFor \in Provider /\ tested \in Tried /\ overtaken \in BOOLEAN
    BY <1>t DEF TypeOK
  <2>3. /\ setting' \in Setting /\ consentFor' \in Provider /\ tested' \in Tried /\ overtaken' \in BOOLEAN
        /\ ConsentForProvider' /\ VerifiedUnlessOvertaken'
    BY <2>1, <2>2, WriteKeeps DEF ConsentForProvider, VerifiedUnlessOvertaken
  <2>4. UNCHANGED <<aiEnabled, month, log, counter, tests, call, faults>>
    BY <1>1 DEF UpdateSettings
  <2>5. TypeOK'
    BY <1>t, <2>3, <2>4 DEF TypeOK
  <2> QED
    BY <2>3, <2>4, <2>5 DEF NotFromLater, FirstAccepted, LogIsCounted
<1>2. ASSUME NEW c \in Caller, NEW o \in Update, BeginFirst(c, o) PROVE AiInv'
  <2> DEFINE row == [NoCall EXCEPT !.pc = "creating", !.asked = o]
  <2>1. row \in CallRow /\ row.began = 1 /\ row.asked = o
    BY NoCallType DEF CallRow
  <2>2. 1 <= month /\ call' = [call EXCEPT ![c] = row] /\ Accepted(FirstSetting, o)
    BY <1>2, AiAssumption DEF TypeOK, Month, BeginFirst
  <2>3. UNCHANGED <<setting, aiEnabled, month, log, counter, tests, consentFor, tested, overtaken, faults>>
    BY <1>2 DEF BeginFirst
  <2> HIDE DEF row
  <2>4. TypeOK' /\ NotFromLater' /\ FirstAccepted'
    BY <2>1, <2>2, <2>3 DEF TypeOK, NotFromLater, FirstAccepted
  <2> QED
    BY <2>3, <2>4 DEF ConsentForProvider, VerifiedUnlessOvertaken, LogIsCounted
<1>3. ASSUME NEW c \in Caller, CommitFirst(c) PROVE AiInv'
  <2>1. UNCHANGED <<aiEnabled, month, log, counter, tests, faults>> /\ Ends(c)
    BY <1>3 DEF CommitFirst
  <2>2. call' \in [Caller -> CallRow] /\ NotFromLater' /\ FirstAccepted'
    BY <2>1, EndsKeeps
  <2>3. CASE setting.known
    <3>1. UNCHANGED <<setting, consentFor, tested, overtaken>>
      BY <1>3, <2>3 DEF CommitFirst
    <3> QED
      BY <2>1, <2>2, <3>1 DEF TypeOK, ConsentForProvider, VerifiedUnlessOvertaken, LogIsCounted
  <2>4. CASE ~setting.known
    <3> DEFINE o == call[c].asked
    <3>1. Write(FirstSetting, o) /\ o \in Update /\ Accepted(FirstSetting, o)
      BY <1>3, <2>4 DEF CommitFirst, TypeOK, CallRow, FirstAccepted
    <3>2. consentFor \in Provider /\ tested \in Tried /\ overtaken \in BOOLEAN
      BY <1>t DEF TypeOK
    <3>3. ~FirstSetting.consent /\ ~FirstSetting.verified
      BY DEF FirstSetting
    <3>4. /\ setting' \in Setting /\ consentFor' \in Provider /\ tested' \in Tried /\ overtaken' \in BOOLEAN
          /\ ConsentForProvider' /\ VerifiedUnlessOvertaken'
      BY <3>1, <3>2, <3>3, FirstSettingType, WriteKeeps
    <3> QED
      BY <1>t, <2>1, <2>2, <3>4 DEF TypeOK, LogIsCounted
  <2> QED
    BY <2>3, <2>4
<1>4. ASSUME NEW c \in Caller, BeginTest(c) PROVE AiInv'
  <2> DEFINE row == [NoCall EXCEPT !.pc = "calling", !.seen = Seen(setting), !.began = month]
  <2>1. Seen(setting) \in [what : (Key \cup {NoKey}) \X Url \X Model, verified : BOOLEAN]
    BY WhatType DEF Seen, TypeOK, Tried, Setting
  <2>2. row \in CallRow /\ row.began = month /\ row.pc = "calling"
    BY <2>1, NoCallType DEF CallRow, TypeOK
  <2>3. call' = [call EXCEPT ![c] = row] /\ tests < MaxTests /\ tests' = tests + 1
    BY <1>4 DEF BeginTest
  <2>4. UNCHANGED <<setting, aiEnabled, month, log, counter, consentFor, tested, overtaken, faults>>
    BY <1>4 DEF BeginTest
  <2> HIDE DEF row
  <2>5. month <= month /\ tests' \in 0..MaxTests
    BY <2>3, AiAssumption DEF TypeOK, Month
  <2>6. TypeOK' /\ NotFromLater' /\ FirstAccepted'
    BY <2>2, <2>3, <2>4, <2>5 DEF TypeOK, NotFromLater, FirstAccepted
  <2> QED
    BY <2>4, <2>6 DEF ConsentForProvider, VerifiedUnlessOvertaken, LogIsCounted
<1>5. ASSUME NEW c \in Caller, Answer(c) PROVE AiInv'
  <2>1. PICK a \in Answers(call[c].seen.what) :
          call' = [call EXCEPT ![c].pc = "answered", ![c].answer = a]
    BY <1>5 DEF Answer
  <2>2. a \in Usage \cup {Failed}
    BY DEF Answers
  <2>3. UNCHANGED <<setting, aiEnabled, month, log, counter, tests, consentFor, tested, overtaken, faults>>
    BY <1>5 DEF Answer
  <2>4. call' \in [Caller -> CallRow]
    <3>1. call[c] \in CallRow
      BY DEF TypeOK
    <3>2. [call[c] EXCEPT !.pc = "answered", !.answer = a] \in CallRow
      BY <2>2, <3>1 DEF CallRow
    <3> QED
      BY <2>1, <3>2 DEF TypeOK
  <2>5. \A d \in Caller : call'[d].began = call[d].began /\ call'[d].asked = call[d].asked
                          /\ (call'[d].pc = "creating" => call[d].pc = "creating")
    BY <2>1 DEF TypeOK, CallRow
  <2> QED
    BY <2>3, <2>4, <2>5
       DEF TypeOK, NotFromLater, FirstAccepted, ConsentForProvider, VerifiedUnlessOvertaken, LogIsCounted
<1>6. ASSUME NEW c \in Caller, CommitSuccess(c) PROVE AiInv'
  <2>1. Ends(c) /\ UNCHANGED <<aiEnabled, month, tests, consentFor, faults>>
    BY <1>6 DEF CommitSuccess
  <2>2. call' \in [Caller -> CallRow] /\ NotFromLater' /\ FirstAccepted'
    BY <2>1, EndsKeeps
  <2>3. /\ setting' = [setting EXCEPT !.verified = TRUE]
        /\ Verified(TRUE, call[c].seen.what, What(setting) # call[c].seen.what)
        /\ Record(c, call[c].answer)
    BY <1>6 DEF CommitSuccess, Reread
  <2>4. call[c].answer \in Nat /\ call[c].seen.what \in Tried
    BY <1>6, <1>t, AiAssumption DEF CommitSuccess, TypeOK, CallRow
  <2>5. log' \in [Month -> Spent] /\ counter' \in [Month -> Spent] /\ LogIsCounted'
    BY <2>1, <2>3, <2>4, RecordKeeps
  <2>6. /\ setting' \in Setting /\ setting'.provider = setting.provider
        /\ setting'.consent = setting.consent /\ What(setting') = What(setting)
    BY <2>3 DEF TypeOK, Setting, What
  <2>7. tested' = call[c].seen.what /\ overtaken' = (What(setting) # call[c].seen.what)
    BY <2>3 DEF Verified
  <2>8. VerifiedUnlessOvertaken' /\ ConsentForProvider'
    BY <2>1, <2>6, <2>7 DEF VerifiedUnlessOvertaken, ConsentForProvider
  <2>9. TypeOK'
    BY <1>t, <2>1, <2>2, <2>4, <2>5, <2>6, <2>7 DEF TypeOK
  <2> QED
    BY <2>2, <2>5, <2>8, <2>9
<1>7. ASSUME NEW c \in Caller, CommitFailure(c) PROVE AiInv'
  <2>1. Ends(c) /\ UNCHANGED <<aiEnabled, month, tests, consentFor, faults>> /\ Record(c, 0)
    BY <1>7 DEF CommitFailure
  <2>2. call' \in [Caller -> CallRow] /\ NotFromLater' /\ FirstAccepted'
    BY <2>1, EndsKeeps
  <2>3. setting' = [setting EXCEPT !.verified = @ /\ ~Reread(c).verified]
    BY <1>7 DEF CommitFailure
  <2>4. /\ tested' = IF setting'.verified THEN tested ELSE What(FirstSetting)
        /\ overtaken' = (setting'.verified /\ overtaken)
    BY <1>7 DEF CommitFailure, Verified
  <2>5. log' \in [Month -> Spent] /\ counter' \in [Month -> Spent] /\ LogIsCounted'
    BY <2>1, RecordKeeps
  <2>6. /\ setting' \in Setting /\ setting'.provider = setting.provider
        /\ setting'.consent = setting.consent /\ What(setting') = What(setting)
        /\ (setting'.verified => setting.verified)
    BY <2>3 DEF TypeOK, Setting, What
  <2>7. VerifiedUnlessOvertaken' /\ ConsentForProvider'
    BY <2>1, <2>4, <2>6 DEF VerifiedUnlessOvertaken, ConsentForProvider
  <2>8. tested' \in Tried /\ overtaken' \in BOOLEAN
    BY <1>t, <2>4, WhatType, FirstSettingType DEF TypeOK
  <2>9. TypeOK'
    BY <1>t, <2>1, <2>2, <2>5, <2>6, <2>8 DEF TypeOK
  <2> QED
    BY <2>2, <2>5, <2>7, <2>9
<1>8. ASSUME NEW c \in Caller, Rollback(c) PROVE AiInv'
  <2>1. /\ Ends(c) /\ faults < MaxFaults /\ faults' = faults + 1
        /\ UNCHANGED <<setting, aiEnabled, month, log, counter, tests, consentFor, tested, overtaken>>
    BY <1>8 DEF Rollback
  <2>2. call' \in [Caller -> CallRow] /\ NotFromLater' /\ FirstAccepted'
    BY <2>1, EndsKeeps
  <2>3. faults' \in 0..MaxFaults
    BY <2>1, AiAssumption DEF TypeOK
  <2> QED
    BY <2>1, <2>2, <2>3 DEF TypeOK, ConsentForProvider, VerifiedUnlessOvertaken, LogIsCounted
<1>9. CASE Redeploy
  <2>1. faults' \in 0..MaxFaults /\ aiEnabled' \in BOOLEAN
    BY <1>9, AiAssumption DEF Redeploy, TypeOK
  <2> QED
    BY <1>9, <2>1 DEF Redeploy, TypeOK, ConsentForProvider, VerifiedUnlessOvertaken, NotFromLater,
                      FirstAccepted, LogIsCounted
<1>10. CASE NextMonth
  <2>1. month' = month + 1 /\ month' \in Month /\ month \in Nat /\ Month \subseteq Nat
    BY <1>10 DEF NextMonth, TypeOK, Month
  <2>2. UNCHANGED <<setting, aiEnabled, log, counter, tests, call, consentFor, tested, overtaken, faults>>
    BY <1>10 DEF NextMonth
  <2>3. NotFromLater'
    <3>1. ASSUME NEW c \in Caller PROVE call[c].began <= month + 1
      <4>1. call[c].began \in Nat /\ call[c].began <= month
        BY <2>1 DEF NotFromLater, TypeOK, CallRow
      <4> QED
        BY <2>1, <4>1
    <3> QED
      BY <2>1, <2>2, <3>1 DEF NotFromLater
  <2>4. LogIsCounted'
    <3>1. ASSUME NEW m \in Month, m >= month + 1 PROVE m >= month
      BY <2>1, <3>1
    <3> QED
      BY <2>1, <2>2, <3>1 DEF LogIsCounted
  <2> QED
    BY <2>1, <2>2, <2>3, <2>4 DEF TypeOK, ConsentForProvider, VerifiedUnlessOvertaken, FirstAccepted
<1> QED
  BY <1>0, <1>1, <1>2, <1>3, <1>4, <1>5, <1>6, <1>7, <1>8, <1>9, <1>10 DEF Next

(* services/ai_settings.py, services/ai_usage.py: the inductive invariant of the settings and *)
(* of the counters holds in every reachable state.                                            *)
THEOREM AiInvariant == Spec => []AiInv
BY InitAi, StepAi, PTL DEF Spec

(* The settings and what is recorded about them keep their types. *)
THEOREM TypeCorrect == Spec => []TypeOK
<1>1. AiInv => TypeOK
  BY DEF AiInv
<1> QED
  BY <1>1, AiInvariant, PTL

(* services/ai_settings.py update_ai_settings: consent is never carried over to a provider it *)
(* was not given for, whatever one request or two at once change.                             *)
THEOREM ConsentCorrect == Spec => []ConsentForProvider
<1>1. AiInv => ConsentForProvider
  BY DEF AiInv
<1> QED
  BY <1>1, AiInvariant, PTL

(* services/ai_settings.py test_connection: settings that count as verified are what a test has *)
(* tried, but for an update that came between the test's read and its write.                    *)
THEOREM VerificationCorrect == Spec => []VerifiedUnlessOvertaken
<1>1. AiInv => VerifiedUnlessOvertaken
  BY DEF AiInv
<1> QED
  BY <1>1, AiInvariant, PTL

(* entitlement/service.py ai_status: no feature is active without the server's leave, the consent, *)
(* the test and room below the limit, counted in the log.                                          *)
THEOREM ActiveCorrect == Spec => []ActiveOnlyWhenAllowed
<1>1. ASSUME AiInv PROVE ActiveOnlyWhenAllowed
  <2> SUFFICES ASSUME ActiveFeatures # {}
               PROVE  /\ aiEnabled /\ setting.key # NoKey
                      /\ setting.consent /\ consentFor = setting.provider
                      /\ overtaken \/ tested = What(setting)
                      /\ setting.limit > 0 => log[month].tokens < setting.limit
    BY DEF ActiveOnlyWhenAllowed
  <2>1. aiEnabled /\ Ready(setting) /\ ~LimitReached
    BY DEF ActiveFeatures
  <2>2. setting.key # NoKey /\ setting.consent /\ setting.verified
    BY <2>1 DEF Ready
  <2>3. consentFor = setting.provider
    BY <1>1, <2>2 DEF AiInv, ConsentForProvider
  <2>4. overtaken \/ tested = What(setting)
    BY <1>1, <2>2 DEF AiInv, VerifiedUnlessOvertaken
  <2>5. month \in Month /\ month \in Nat
    BY <1>1 DEF AiInv, TypeOK, Month
  <2>6. setting.limit \in Nat /\ log[month].tokens \in Nat /\ counter[month].tokens \in Nat
    BY <1>1, <2>5 DEF AiInv, TypeOK, Setting, Spent
  <2>7. log[month].tokens <= counter[month].tokens
    <3>1. month >= month
      BY <2>5
    <3> QED
      BY <1>1, <2>5, <3>1 DEF AiInv, LogIsCounted
  <2>8. setting.limit > 0 => counter[month].tokens < setting.limit
    BY <2>1, <2>6 DEF LimitReached
  <2> QED
    BY <2>1, <2>2, <2>3, <2>6, <2>7, <2>8, <2>4
<1> QED
  BY <1>1, AiInvariant, PTL

-----------------------------------------------------------------------------
(* Sums over months.                                                        *)

LEMMA UnitOf ==
  ASSUME NEW g, NEW m, NEW x
  PROVE  x \in Units(g, m) <=> \E i \in Month : i <= m /\ \E n \in 1..g[i] : x = <<i, n>>
BY DEF Units

LEMMA UnitsFinite ==
  ASSUME NEW g \in [Month -> Nat], NEW m \in Nat
  PROVE  IsFiniteSet(Units(g, m)) /\ Total(g, m) \in Nat
<1> DEFINE S == {i \in Month : i <= m}
           parts == {{i} \X (1..g[i]) : i \in S}
           f == [i \in S |-> {i} \X (1..g[i])]
<1>1. IsFiniteSet(S)
  <2>1. IsFiniteSet(1..LastMonth) /\ S \subseteq 1..LastMonth
    BY AiAssumption, FS_Interval DEF Month
  <2>2. QED
    BY <2>1, FS_Subset
<1>2. f \in Surjection(S, parts)
  BY DEF Surjection
<1>3. \A i \in S : IsFiniteSet({i} \X (1..g[i]))
  <2> TAKE i \in S
  <2>1. g[i] \in Int
    OBVIOUS
  <2>2. \A b \in Int : IsFiniteSet(1..b)
    BY FS_Interval
  <2>3. IsFiniteSet({i})
    BY FS_Singleton
  <2>4. QED
    BY <2>1, <2>2, <2>3, FS_Product
<1>4. \A T \in parts : IsFiniteSet(T)
  BY <1>3
<1>5. Units(g, m) = UNION parts
  BY DEF Units
<1> HIDE DEF S, parts, f
<1>6. IsFiniteSet(parts)
  BY <1>1, <1>2, FS_Surjection
<1>7. IsFiniteSet(UNION parts)
  BY <1>4, <1>6, FS_UNION
<1>8. QED
  BY <1>5, <1>7, FS_CardinalityType DEF Total

Exceeds(h, g, k, n) == h[k] = g[k] + n /\ \A i \in Month \ {k} : h[i] = g[i]

(* What is added in a month is in the totals up to that month and every later one. *)
LEMMA TotalAdds ==
  ASSUME NEW g \in [Month -> Nat], NEW h \in [Month -> Nat], NEW k \in Month, NEW n \in Nat,
         Exceeds(h, g, k, n), NEW m \in Nat
  PROVE  Total(h, m) = Total(g, m) + (IF k <= m THEN n ELSE 0)
<1> DEFINE extra == {k} \X ((g[k] + 1)..(g[k] + n))
<1>1. /\ g[k] \in Nat /\ k \in Nat
      /\ h[k] = g[k] + n /\ \A i \in Month \ {k} : h[i] = g[i]
  BY DEF Month, Exceeds
<1>2. IsFiniteSet(extra) /\ Cardinality(extra) = n
  <2>1. \A a, b \in Int : IsFiniteSet(a..b) /\ Cardinality(a..b) = IF a > b THEN 0 ELSE b - a + 1
    BY FS_Interval
  <2>2. g[k] + 1 \in Int /\ g[k] + n \in Int
    BY <1>1
  <2>3. IsFiniteSet((g[k] + 1)..(g[k] + n)) /\ Cardinality((g[k] + 1)..(g[k] + n)) = n
    <3>1. /\ IsFiniteSet((g[k] + 1)..(g[k] + n))
          /\ Cardinality((g[k] + 1)..(g[k] + n))
               = IF g[k] + 1 > g[k] + n THEN 0 ELSE (g[k] + n) - (g[k] + 1) + 1
      BY <2>1, <2>2
    <3>2. QED
      BY <1>1, <3>1
  <2>4. IsFiniteSet({k}) /\ Cardinality({k}) = 1
    BY FS_Singleton
  <2> DEFINE units == (g[k] + 1)..(g[k] + n)
  <2>5. IsFiniteSet(units) /\ Cardinality(units) = n
    BY <2>3
  <2> HIDE DEF units
  <2>6. IsFiniteSet({k} \X units) /\ Cardinality({k} \X units) = Cardinality({k}) * Cardinality(units)
    BY <2>4, <2>5, FS_Product
  <2>7. Cardinality({k} \X units) = n
    BY <2>4, <2>5, <2>6
  <2>8. QED
    BY <2>6, <2>7 DEF units
<1>3. IsFiniteSet(Units(g, m)) /\ Total(g, m) \in Nat
  BY UnitsFinite
<1>4. CASE k <= m
  <2>1. \A x : x \in extra <=> \E j \in (g[k] + 1)..(g[k] + n) : x = <<k, j>>
    OBVIOUS
  <2>2. 1..h[k] = (1..g[k]) \cup ((g[k] + 1)..(g[k] + n))
    BY <1>1
  <2> HIDE DEF extra
  <2>3. ASSUME NEW x PROVE x \in Units(h, m) <=> x \in Units(g, m) \cup extra
    <3>1. x \in Units(h, m) <=> \E i \in Month : i <= m /\ \E j \in 1..h[i] : x = <<i, j>>
      BY UnitOf
    <3>2. x \in Units(g, m) <=> \E i \in Month : i <= m /\ \E j \in 1..g[i] : x = <<i, j>>
      BY UnitOf
    <3>3. ASSUME x \in Units(h, m) PROVE x \in Units(g, m) \cup extra
      <4>1. PICK i \in Month : i <= m /\ \E j \in 1..h[i] : x = <<i, j>>
        BY <3>1, <3>3
      <4>2. CASE i = k
        BY <2>1, <2>2, <3>2, <4>1, <4>2
      <4>3. CASE i # k
        <5>1. h[i] = g[i]
          BY <1>1, <4>3
        <5>2. QED
          BY <3>2, <4>1, <5>1
      <4>4. QED
        BY <4>2, <4>3
    <3>4. ASSUME x \in Units(g, m) PROVE x \in Units(h, m)
      <4>1. PICK i \in Month : i <= m /\ \E j \in 1..g[i] : x = <<i, j>>
        BY <3>2, <3>4
      <4>2. 1..g[i] \subseteq 1..h[i]
        <5>1. i = k \/ h[i] = g[i]
          BY <1>1
        <5>2. QED
          BY <2>2, <5>1
      <4>3. QED
        BY <3>1, <4>1, <4>2
    <3>5. ASSUME x \in extra PROVE x \in Units(h, m)
      BY <1>4, <2>1, <2>2, <3>1, <3>5
    <3>6. QED
      BY <3>3, <3>4, <3>5
  <2>4. Units(h, m) = Units(g, m) \cup extra
    BY <2>3
  <2>5. Units(g, m) \cap extra = {}
    <3>1. ASSUME NEW x \in Units(g, m), x \in extra PROVE FALSE
      <4>1. PICK i \in Month : \E j \in 1..g[i] : x = <<i, j>>
        BY UnitOf
      <4>2. PICK j \in 1..g[i] : x = <<i, j>>
        BY <4>1
      <4>3. PICK l \in (g[k] + 1)..(g[k] + n) : x = <<k, l>>
        BY <2>1, <3>1
      <4>4. i = k /\ j = l
        BY <4>2, <4>3
      <4>5. QED
        BY <1>1, <4>2, <4>3, <4>4
    <3>2. QED
      BY <3>1
  <2>6. Cardinality(Units(h, m)) = Cardinality(Units(g, m)) + Cardinality(extra) - Cardinality({})
    BY <1>2, <1>3, <2>4, <2>5, FS_Union
  <2>7. QED
    BY <1>2, <1>3, <1>4, <2>6, FS_EmptySet DEF Total
<1>5. CASE ~(k <= m)
  <2>1. \A i \in Month : i <= m => h[i] = g[i]
    BY <1>1, <1>5
  <2>2. ASSUME NEW x PROVE x \in Units(h, m) <=> x \in Units(g, m)
    <3>1. x \in Units(h, m) <=> \E i \in Month : i <= m /\ \E j \in 1..h[i] : x = <<i, j>>
      BY UnitOf
    <3>2. x \in Units(g, m) <=> \E i \in Month : i <= m /\ \E j \in 1..g[i] : x = <<i, j>>
      BY UnitOf
    <3>3. QED
      BY <2>1, <3>1, <3>2
  <2>3. Units(h, m) = Units(g, m)
    BY <2>2
  <2>4. QED
    BY <1>3, <1>5, <2>3 DEF Total
<1>6. QED
  BY <1>4, <1>5

(* A call that is recorded is in the totals of calls and of tokens from its month on. *)
LEMMA UpToAdds ==
  ASSUME NEW f \in [Month -> Spent], NEW e \in [Month -> Spent], NEW k \in Month, NEW n \in Nat,
         e[k] = Add(f[k], n), \A i \in Month \ {k} : e[i] = f[i], NEW m \in Nat
  PROVE  /\ UpTo(f, m).calls \in Nat /\ UpTo(f, m).tokens \in Nat
         /\ UpTo(e, m).calls = UpTo(f, m).calls + (IF k <= m THEN 1 ELSE 0)
         /\ UpTo(e, m).tokens = UpTo(f, m).tokens + (IF k <= m THEN n ELSE 0)
<1> DEFINE Calls(h) == [i \in Month |-> h[i].calls]
           Tokens(h) == [i \in Month |-> h[i].tokens]
<1>1. \A h \in [Month -> Spent] : Calls(h) \in [Month -> Nat] /\ Tokens(h) \in [Month -> Nat]
  BY DEF Spent
<1>2. \A h, i : i \in Month => Calls(h)[i] = h[i].calls /\ Tokens(h)[i] = h[i].tokens
  OBVIOUS
<1>3. e[k].calls = f[k].calls + 1 /\ e[k].tokens = f[k].tokens + n
  BY DEF Add
<1>4. \A h : UpTo(h, m).calls = Total(Calls(h), m) /\ UpTo(h, m).tokens = Total(Tokens(h), m)
  BY DEF UpTo
<1> HIDE DEF Calls, Tokens
<1>5. Exceeds(Calls(e), Calls(f), k, 1) /\ Exceeds(Tokens(e), Tokens(f), k, n)
  BY <1>2, <1>3 DEF Exceeds
<1>6. /\ Calls(e) \in [Month -> Nat] /\ Tokens(e) \in [Month -> Nat]
      /\ Calls(f) \in [Month -> Nat] /\ Tokens(f) \in [Month -> Nat]
  BY <1>1
<1>7. Total(Calls(f), m) \in Nat /\ Total(Tokens(f), m) \in Nat
  BY <1>1, UnitsFinite
<1>8. Total(Calls(e), m) = Total(Calls(f), m) + (IF k <= m THEN 1 ELSE 0)
  BY <1>5, <1>6, TotalAdds
<1>9. Total(Tokens(e), m) = Total(Tokens(f), m) + (IF k <= m THEN n ELSE 0)
  BY <1>5, <1>6, TotalAdds
<1>10. QED
  BY <1>4, <1>7, <1>8, <1>9

LEMMA UpToIsNat ==
  ASSUME NEW f \in [Month -> Spent], NEW m \in Nat
  PROVE  UpTo(f, m).calls \in Nat /\ UpTo(f, m).tokens \in Nat
<1> DEFINE calls == [i \in Month |-> f[i].calls]
           tokens == [i \in Month |-> f[i].tokens]
<1>1. calls \in [Month -> Nat] /\ tokens \in [Month -> Nat]
  BY DEF Spent
<1>2. UpTo(f, m).calls = Total(calls, m) /\ UpTo(f, m).tokens = Total(tokens, m)
  BY DEF UpTo
<1> HIDE DEF calls, tokens
<1>3. QED
  BY <1>1, <1>2, UnitsFinite

-----------------------------------------------------------------------------
(* The counters and the log.                                                *)

LEMMA RecordFollows ==
  ASSUME AiInv, CountersFollowLog, NEW c \in Caller, NEW n \in Nat, Record(c, n), month' = month
  PROVE  CountersFollowLog'
<1> DEFINE b == call[c].began
<1>1. b \in Month /\ month \in Month /\ b <= month /\ Month \subseteq Nat
  BY DEF AiInv, TypeOK, CallRow, NotFromLater, Month
<1>2. log \in [Month -> Spent] /\ counter \in [Month -> Spent]
  BY DEF AiInv, TypeOK
<1>3. /\ log' \in [Month -> Spent] /\ log'[b] = Add(log[b], n) /\ \A i \in Month \ {b} : log'[i] = log[i]
      /\ counter' \in [Month -> Spent] /\ counter'[month] = Add(counter[month], n)
      /\ \A i \in Month \ {month} : counter'[i] = counter[i]
  BY <1>1, <1>2, RecordKeeps DEF Record
<1> HIDE DEF b
<1>4. ASSUME NEW m \in Month
      PROVE  /\ UpTo(counter', m).calls <= UpTo(log', m).calls /\ UpTo(counter', m).tokens <= UpTo(log', m).tokens
             /\ m >= month => UpTo(counter', m) = UpTo(log', m)
  <2>1. /\ UpTo(counter, m).calls <= UpTo(log, m).calls /\ UpTo(counter, m).tokens <= UpTo(log, m).tokens
        /\ m >= month => UpTo(counter, m) = UpTo(log, m)
    BY DEF CountersFollowLog
  <2>2. m \in Nat
    BY <1>1
  <2>3. /\ UpTo(log, m).calls \in Nat /\ UpTo(log, m).tokens \in Nat
        /\ UpTo(log', m).calls = UpTo(log, m).calls + (IF b <= m THEN 1 ELSE 0)
        /\ UpTo(log', m).tokens = UpTo(log, m).tokens + (IF b <= m THEN n ELSE 0)
    BY <1>1, <1>2, <1>3, <2>2, UpToAdds
  <2>4. /\ UpTo(counter, m).calls \in Nat /\ UpTo(counter, m).tokens \in Nat
        /\ UpTo(counter', m).calls = UpTo(counter, m).calls + (IF month <= m THEN 1 ELSE 0)
        /\ UpTo(counter', m).tokens = UpTo(counter, m).tokens + (IF month <= m THEN n ELSE 0)
    BY <1>1, <1>2, <1>3, <2>2, UpToAdds
  <2>5. month <= m => b <= m
    BY <1>1, <2>2
  <2>6. UpTo(counter', m).calls <= UpTo(log', m).calls /\ UpTo(counter', m).tokens <= UpTo(log', m).tokens
    BY <2>1, <2>3, <2>4, <2>5
  <2>7. ASSUME m >= month PROVE UpTo(counter', m) = UpTo(log', m)
    <3>1. UpTo(counter', m).calls = UpTo(log', m).calls /\ UpTo(counter', m).tokens = UpTo(log', m).tokens
      BY <1>1, <2>1, <2>2, <2>3, <2>4, <2>5, <2>7
    <3>2. QED
      BY <3>1 DEF UpTo
  <2>8. QED
    BY <2>6, <2>7
<1>5. QED
  BY <1>4 DEF CountersFollowLog

LEMMA FollowStep == AiInv /\ CountersFollowLog /\ [Next]_vars => CountersFollowLog'
<1>1. SUFFICES ASSUME AiInv, CountersFollowLog, [Next]_vars PROVE CountersFollowLog'
  OBVIOUS
<1>2. ASSUME UNCHANGED <<month, log, counter>> PROVE CountersFollowLog'
  BY <1>1, <1>2 DEF CountersFollowLog
<1>3. ASSUME NEW c \in Caller, CommitSuccess(c) PROVE CountersFollowLog'
  <2>1. call[c].answer \in Nat /\ month' = month
    BY <1>1, <1>3, AiAssumption DEF CommitSuccess, AiInv, TypeOK, CallRow
  <2>2. Record(c, call[c].answer)
    BY <1>3 DEF CommitSuccess, Reread
  <2>3. QED
    BY <1>1, <2>1, <2>2, RecordFollows
<1>4. ASSUME NEW c \in Caller, CommitFailure(c) PROVE CountersFollowLog'
  <2>1. Record(c, 0) /\ month' = month
    BY <1>4 DEF CommitFailure
  <2>2. QED
    BY <1>1, <2>1, RecordFollows
<1>5. CASE NextMonth
  <2>1. month' = month + 1 /\ log' = log /\ counter' = counter /\ month \in Nat /\ Month \subseteq Nat
    BY <1>1, <1>5 DEF NextMonth, AiInv, TypeOK, Month
  <2>2. \A m \in Month : m >= month + 1 => m >= month
    BY <2>1
  <2>3. QED
    BY <1>1, <2>1, <2>2 DEF CountersFollowLog
<1>6. ASSUME NEW c \in Caller, NEW o \in Update, UpdateSettings(c, o) \/ BeginFirst(c, o) PROVE UNCHANGED <<month, log, counter>>
  BY <1>6 DEF UpdateSettings, BeginFirst
<1>7. ASSUME NEW c \in Caller, CommitFirst(c) \/ BeginTest(c) \/ Answer(c) \/ Rollback(c)
      PROVE  UNCHANGED <<month, log, counter>>
  BY <1>7 DEF CommitFirst, BeginTest, Answer, Rollback
<1>8. CASE Redeploy \/ UNCHANGED vars
  BY <1>2, <1>8 DEF Redeploy, vars
<1>9. QED
  BY <1>1, <1>2, <1>3, <1>4, <1>5, <1>6, <1>7, <1>8 DEF Next

(* services/ai_usage.py: up to any month the counters have no more than the log has, and up to *)
(* the present one as much, whatever calls and failures overlap the end of a month.            *)
THEOREM CountersCorrect == Spec => []CountersFollowLog
<1>1. Init => CountersFollowLog
  <2>1. SUFFICES ASSUME Init PROVE CountersFollowLog
    OBVIOUS
  <2>2. log = counter /\ log \in [Month -> Spent]
    BY <2>1 DEF Init, NothingSpent, Spent
  <2>3. \A m \in Month : UpTo(log, m).calls \in Nat /\ UpTo(log, m).tokens \in Nat
    <3> TAKE m \in Month
    <3>1. m \in Nat
      BY DEF Month
    <3>2. QED
      BY <2>2, <3>1, UpToIsNat
  <2>4. QED
    BY <2>2, <2>3 DEF CountersFollowLog
<1>2. QED
  BY <1>1, FollowStep, AiInvariant, PTL DEF Spec
=============================================================================
