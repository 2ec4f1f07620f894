---------------------------- MODULE WritingProofs ----------------------------
(***************************************************************************)
(* Settings and writing help: the file is what is in force, a text goes    *)
(* only where the policy lets it, and an answer changes only the text it   *)
(* was made for.                                                           *)
(***************************************************************************)
EXTENDS Panels, Sequences, TLAPS

-----------------------------------------------------------------------------
(* Settings. *)

SettingsTypes ==
  /\ cfg \in A!Config /\ saved \in A!Config /\ saving \in A!Config \cup {None}
  /\ lists \subseteq A!Providers /\ offer \in A!Providers
  /\ built = A!Build(cfg)
  /\ wModal \in {"", "settings", "ai-models", "ai-review", "ai-edit"}

\* Outside the panel the file is what is in force; under the panel it is what
\* Esc puts back.
Forced ==
  ~stray /\ saving = None =>
    /\ wModal \in {"", "ai-review", "ai-edit"} => cfg = file
    /\ wModal \in {"settings", "ai-models"} => saved = file
SettingsInv == SettingsTypes /\ Forced

LEMMA WritingMoves == [Next]_vars => A!AssistantNext \/ UNCHANGED writingVars
BY DEF Next, vars, HistoryNext, AssistantNext, AttachNext, MediaNext, ContactsNext, ReplyNext,
       EchoNext, writingVars

\* What the rows of the panel make of a configuration.
LEMMA ConfigTypes ==
  ASSUME NEW c \in A!Config
  PROVE  /\ c # None /\ c.pol # None
         /\ [c EXCEPT !.on = ~@] \in A!Config /\ [c EXCEPT !.look = ~@] \in A!Config
         /\ [c EXCEPT !.phone = TRUE] \in A!Config
         /\ \A q \in Policies : [c EXCEPT !.pol = q] \in A!Config
         /\ \A k \in BOOLEAN : [c EXCEPT !.ai.key = k] \in A!Config
         /\ \A v \in A!Providers \cup {None} : [c EXCEPT !.ai.model = v] \in A!Config
<1>1. c.ai \in A!Profile
  BY DEF A!Config
<1>2. \A k \in BOOLEAN : [c.ai EXCEPT !.key = k] \in A!Profile
  BY <1>1 DEF A!Profile
<1>3. \A v \in A!Providers \cup {None} : [c.ai EXCEPT !.model = v] \in A!Profile
  BY <1>1 DEF A!Profile
<1>4. \A a \in A!Profile : [c EXCEPT !.ai = a] \in A!Config
  BY DEF A!Config
<1>5. /\ \A k \in BOOLEAN : [c EXCEPT !.ai.key = k] = [c EXCEPT !.ai = [c.ai EXCEPT !.key = k]]
      /\ \A v : [c EXCEPT !.ai.model = v] = [c EXCEPT !.ai = [c.ai EXCEPT !.model = v]]
  BY DEF A!Config
<1>6. /\ [c EXCEPT !.on = ~@] \in A!Config /\ [c EXCEPT !.look = ~@] \in A!Config
      /\ [c EXCEPT !.phone = TRUE] \in A!Config
      /\ \A q \in Policies : [c EXCEPT !.pol = q] \in A!Config
  BY DEF A!Config
<1>7. c # None /\ c.pol # None
  BY WritingAssumption DEF A!Config
<1> QED
  BY <1>2, <1>3, <1>4, <1>5, <1>6, <1>7

LEMMA SwitchTypes ==
  ASSUME NEW c \in A!Config, NEW p \in A!Providers
  PROVE  [A!Switch(c, p) EXCEPT !.on = @ /\ p # Off] \in A!Config
<1> DEFINE left == IF c.prov = Off THEN c.profiles ELSE [c.profiles EXCEPT ![c.prov] = c.ai]
           d == [c EXCEPT !.prov = p, !.ai = left[p], !.profiles = left]
<1>1. left \in [A!Providers -> A!Profile]
  BY DEF A!Config
<1> HIDE DEF left
<1>2. d \in A!Config
  BY <1>1 DEF A!Config
<1>3. A!Switch(c, p) = d
  BY DEF A!Switch, left
<1> HIDE DEF d
<1>4. [d EXCEPT !.on = @ /\ p # Off] \in A!Config
  <2>1. (d.on /\ p # Off) \in BOOLEAN
    OBVIOUS
  <2>2. \A b \in BOOLEAN : [d EXCEPT !.on = b] \in A!Config
    BY <1>2 DEF A!Config
  <2> QED
    BY <2>1, <2>2
<1> QED
  BY <1>3, <1>4

LEMMA SettingsStart == A!SettingsInit(StartConfig) => SettingsInv
<1> SUFFICES ASSUME A!SettingsInit(StartConfig) PROVE SettingsInv
  OBVIOUS
<1>1. SettingsTypes
  BY WritingAssumption DEF A!SettingsInit, SettingsTypes, A!Providers
<1>2. Forced
  BY DEF A!SettingsInit, Forced
<1> QED
  BY <1>1, <1>2 DEF SettingsInv

\* The steps of the writing help that touch what the settings keep do so to the
\* modal only: a review opens over anything, and closes.
HelpStep ==
  /\ UNCHANGED <<cfg, file, saved, built, saving, lists, offer>>
  /\ \/ UNCHANGED <<wModal, stray>>
     \/ wModal' = "ai-review" /\ stray' = (stray \/ wModal \in {"settings", "ai-models"})
     \/ wModal = "ai-review" /\ wModal' \in {"", "ai-edit"} /\ stray' = stray
     \/ wModal = "ai-edit" /\ wModal' = "ai-review" /\ stray' = stray

LEMMA HelpSteps ==
  ASSUME A!AssistantNext PROVE (A!SettingsNext /\ UNCHANGED A!writing) \/ HelpStep
<1>1. \A kind : A!StartAI(kind) => HelpStep
  BY DEF A!StartAI, A!settings, HelpStep
<1>2. A!GiveUp \/ A!Type \/ A!OpenThread \/ A!Send \/ A!Sent \/ A!CommitAIPolicy \/ A!Decide => HelpStep
  BY DEF A!GiveUp, A!Type, A!OpenThread, A!Send, A!Sent, A!CommitAIPolicy, A!Decide, A!settings,
         HelpStep
<1>3. ASSUME NEW r, A!Result(r) PROVE HelpStep
  BY <1>3 DEF A!Result, HelpStep
<1>4. A!AcceptAll \/ A!CloseReview \/ A!EditSuggestion => HelpStep
  BY DEF A!AcceptAll, A!CloseReview, A!EditSuggestion, HelpStep
<1> QED
  BY <1>1, <1>2, <1>3, <1>4 DEF A!AssistantNext

LEMMA SameSettings == SettingsInv /\ (HelpStep \/ UNCHANGED writingVars) => SettingsInv'
<1> SUFFICES ASSUME SettingsInv, HelpStep \/ UNCHANGED writingVars PROVE SettingsInv'
  OBVIOUS
<1>1. SettingsTypes'
  BY DEF SettingsInv, SettingsTypes, HelpStep, writingVars
<1>2. Forced'
  BY DEF SettingsInv, SettingsTypes, Forced, HelpStep, writingVars
<1> QED
  BY <1>1, <1>2 DEF SettingsInv

\* A change in the open panel leaves file, saved copy and modal alone.
LEMMA PanelChange ==
  ASSUME SettingsInv, UNCHANGED <<file, saved, wModal, saving, offer, stray>>,
         wModal = "settings", lists' \subseteq A!Providers,
         UNCHANGED <<cfg, built>> \/ (\E c \in A!Config : A!Applied(c))
  PROVE  SettingsInv'
<1>1. SettingsTypes'
  BY DEF SettingsInv, SettingsTypes, A!Applied
<1>2. Forced'
  BY DEF SettingsInv, Forced
<1> QED
  BY <1>1, <1>2 DEF SettingsInv

LEMMA PanelSteps ==
  ASSUME SettingsInv,
         A!ChooseModel \/ A!Adjust \/ A!EditKey \/ A!SettingsEditKey
  PROVE  SettingsInv'
<1>0. cfg \in A!Config /\ lists \subseteq A!Providers /\ cfg.prov \in A!Providers
  BY DEF SettingsInv, SettingsTypes, A!Config
<1>1. ASSUME A!ChooseModel PROVE SettingsInv'
  <2>1. UNCHANGED <<file, saved, wModal, saving, offer, stray, cfg, built>> /\ wModal = "settings"
        /\ lists' \subseteq A!Providers
    BY <1>0, <1>1 DEF A!ChooseModel, A!InPanel
  <2> QED
    BY <2>1, PanelChange
<1>2. ASSUME A!Adjust PROVE SettingsInv'
  <2>1. UNCHANGED <<file, saved, wModal, saving, offer, stray, lists>> /\ wModal = "settings"
    BY <1>2 DEF A!Adjust, A!InPanel
  <2>2. \E c \in A!Config : A!Applied(c)
    <3>1. A!Changed
      BY <1>2 DEF A!Adjust
    <3>2. ASSUME NEW p \in A!Providers, A!Applied([A!Switch(cfg, p) EXCEPT !.on = @ /\ p # Off])
          PROVE  \E c \in A!Config : A!Applied(c)
      BY <1>0, <3>2, SwitchTypes
    <3>3. ASSUME NEW c \in {[cfg EXCEPT !.on = ~@], [cfg EXCEPT !.look = ~@]}
                   \cup {[cfg EXCEPT !.pol = q] : q \in Policies \ {cfg.pol}}
          PROVE  c \in A!Config
      BY <1>0, <3>3, ConfigTypes
    <3> QED
      BY <3>1, <3>2, <3>3 DEF A!Changed
  <2> QED
    BY <1>0, <2>1, <2>2, PanelChange
<1>3. ASSUME A!EditKey PROVE SettingsInv'
  <2>1. UNCHANGED <<file, saved, wModal, saving, offer, stray, cfg, built, lists>>
        /\ wModal = "settings"
    BY <1>3 DEF A!EditKey, A!InPanel
  <2> QED
    BY <1>0, <2>1, PanelChange
<1>4. ASSUME A!CommitEdit PROVE SettingsInv'
  <2>1. UNCHANGED <<file, saved, wModal, saving, offer, stray>> /\ wModal = "settings"
    BY <1>4 DEF A!CommitEdit
  <2>2. lists' \subseteq A!Providers
    BY <1>0, <1>4 DEF A!CommitEdit
  <2>3. \E c \in A!Config : A!Applied(c)
    <3>1. \/ \E v \in {cfg.prov, None} : A!Applied([cfg EXCEPT !.ai.model = v])
          \/ \E k \in BOOLEAN : A!Applied([cfg EXCEPT !.ai.key = k])
      BY <1>4 DEF A!CommitEdit
    <3> QED
      BY <1>0, <3>1, ConfigTypes
  <2> QED
    BY <2>1, <2>2, <2>3, PanelChange
<1>5. ASSUME A!CancelEdit PROVE SettingsInv'
  <2>1. UNCHANGED <<file, saved, wModal, saving, offer, stray, cfg, built, lists>>
        /\ wModal = "settings"
    BY <1>5 DEF A!CancelEdit
  <2> QED
    BY <1>0, <2>1, PanelChange
<1> QED
  BY <1>1, <1>2, <1>3, <1>4, <1>5 DEF A!SettingsEditKey

LEMMA OtherSettings ==
  ASSUME SettingsInv,
         A!OpenSettings \/ (\E p \in A!Providers : A!Listed(p)) \/ A!PickModel \/ A!Save
           \/ A!Discard \/ A!Toggle \/ A!Adopt \/ A!Written
  PROVE  SettingsInv'
<1>0. /\ cfg \in A!Config /\ saved \in A!Config /\ lists \subseteq A!Providers
      /\ offer \in A!Providers /\ cfg # None /\ saving \in A!Config \cup {None}
  BY ConfigTypes DEF SettingsInv, SettingsTypes
<1>1. ASSUME A!OpenSettings PROVE SettingsInv'
  <2>1. SettingsTypes'
    BY <1>1 DEF A!OpenSettings, SettingsInv, SettingsTypes
  <2>2. Forced'
    BY <1>1 DEF A!OpenSettings, SettingsInv, Forced
  <2> QED
    BY <2>1, <2>2 DEF SettingsInv
<1>2. ASSUME NEW p \in A!Providers, A!Listed(p) PROVE SettingsInv'
  <2>1. SettingsTypes'
    BY <1>2 DEF A!Listed, SettingsInv, SettingsTypes
  <2>2. /\ UNCHANGED <<cfg, file, saved, saving, stray>>
        /\ wModal' = wModal \/ (wModal = "settings" /\ wModal' = "ai-models")
    BY <1>2 DEF A!Listed
  <2>3. Forced'
    BY <2>2 DEF SettingsInv, Forced
  <2> QED
    BY <2>1, <2>3 DEF SettingsInv
<1>3. ASSUME A!PickModel PROVE SettingsInv'
  <2>1. \/ A!Applied([cfg EXCEPT !.ai.model = offer])
        \/ UNCHANGED <<cfg, built>>
    BY <1>3 DEF A!PickModel
  <2>2. UNCHANGED <<file, saved, saving, lists, offer, stray>> /\ wModal = "ai-models"
        /\ wModal' = "settings"
    BY <1>3 DEF A!PickModel
  <2>3. [cfg EXCEPT !.ai.model = offer] \in A!Config
    BY <1>0, ConfigTypes
  <2>4. SettingsTypes'
    BY <2>1, <2>2, <2>3 DEF A!Applied, SettingsInv, SettingsTypes
  <2>5. Forced'
    BY <2>2 DEF SettingsInv, Forced
  <2> QED
    BY <2>4, <2>5 DEF SettingsInv
<1>4. ASSUME A!Save PROVE SettingsInv'
  <2>1. SettingsTypes'
    BY <1>4 DEF A!Save, A!SaveConfig, SettingsInv, SettingsTypes
  <2>2. Forced'
    BY <1>0, <1>4 DEF A!Save, A!SaveConfig, Forced
  <2> QED
    BY <2>1, <2>2 DEF SettingsInv
<1>5. ASSUME A!Discard PROVE SettingsInv'
  <2>1. SettingsTypes'
    BY <1>5 DEF A!Discard, A!Applied, A!Restored, SettingsInv, SettingsTypes
  <2>2. Forced'
    BY <1>5 DEF A!Discard, A!Applied, A!Restored, A!InPanel, SettingsInv, Forced
  <2> QED
    BY <2>1, <2>2 DEF SettingsInv
<1>6. ASSUME A!Toggle \/ A!Adopt PROVE SettingsInv'
  <2>1. /\ UNCHANGED <<cfg, saved, built, wModal, lists, offer>>
        /\ saving' \in {[cfg EXCEPT !.look = ~@], [cfg EXCEPT !.phone = TRUE]}
    BY <1>6 DEF A!Toggle, A!Adopt, A!SaveConfig
  <2>2. saving' \in A!Config /\ saving' # None
    BY <1>0, <2>1, ConfigTypes
  <2>3. SettingsTypes'
    BY <2>1, <2>2 DEF SettingsInv, SettingsTypes
  <2>4. Forced'
    BY <2>2 DEF Forced
  <2> QED
    BY <2>3, <2>4 DEF SettingsInv
<1>7. ASSUME A!Written PROVE SettingsInv'
  <2>1. /\ saving \in A!Config /\ saving' = None /\ UNCHANGED <<saved, wModal, lists, offer>>
        /\ (cfg' = saving /\ built' = A!Build(saving)) \/ UNCHANGED <<cfg, built>>
    BY <1>0, <1>7 DEF A!Written, A!Applied
  <2>3. SettingsTypes'
    BY <2>1 DEF SettingsInv, SettingsTypes
  <2>2. Forced'
    BY <1>7 DEF A!Written, A!WriteFile, A!Applied, Forced
  <2> QED
    BY <2>3, <2>2 DEF SettingsInv
<1> QED
  BY <1>1, <1>2, <1>3, <1>4, <1>5, <1>6, <1>7

LEMMA SettingsStep == SettingsInv /\ [Next]_vars => SettingsInv'
<1> SUFFICES ASSUME SettingsInv, A!AssistantNext \/ UNCHANGED writingVars PROVE SettingsInv'
  BY WritingMoves
<1>1. ASSUME A!SettingsNext PROVE SettingsInv'
  BY <1>1, PanelSteps, OtherSettings DEF A!SettingsNext
<1> QED
  BY <1>1, HelpSteps, SameSettings

\* InForceIsFile: with the panel closed and nothing being written config.toml is
\* what is in force (settings.go).
THEOREM FileInForce == Spec => []InForceIsFile
<1>1. Init => SettingsInv
  BY SettingsStart DEF Init, A!AssistantInit
<1>2. SettingsInv => InForceIsFile
  BY DEF SettingsInv, Forced, InForceIsFile, A!InForceIsFile
<1> QED
  BY <1>1, <1>2, SettingsStep, PTL DEF Spec
-----------------------------------------------------------------------------
(* What the writing help keeps. *)

\* The words of a request, and of a review, are a selection or the text.
About(r) == r.original \in IF r.kind = "selection" THEN [at : Spots, fixed : BOOLEAN] ELSE A!Text

HelpTypes ==
  /\ conv \in Convs /\ wEditor \in A!Text /\ sel \in Spots \cup {None}
  /\ drafts \in [Convs -> A!Text] /\ policies \in [Convs -> A!Overrides] /\ wEpoch \in Nat
  /\ wSending # None => wSending \in [to : Convs, body : A!Text]
  /\ reqs \subseteq A!Request /\ \A r \in reqs : About(r)
  /\ review # None => review \in A!Review /\ About(review)
  /\ wModal \in {"ai-review", "ai-edit"} => review # None
HelpInv == SettingsInv /\ HelpTypes

LEMMA HelpStarts == A!AssistantInit(StartConfig) => HelpInv
<1> SUFFICES ASSUME A!AssistantInit(StartConfig) PROVE HelpInv
  OBVIOUS
<1>1. HelpTypes
  BY DEF A!AssistantInit, A!SettingsInit, HelpTypes, A!Text, A!Nothing, A!Overrides
<1> QED
  BY <1>1, SettingsStart DEF HelpInv, A!AssistantInit

\* A request that is given up stays the request it was.
LEMMA GivenUp ==
  ASSUME NEW r \in A!Request, NEW b \in BOOLEAN
  PROVE  /\ [r EXCEPT !.dead = b] \in A!Request /\ [r EXCEPT !.dead = b].dead = b
         /\ [r EXCEPT !.dead = b].epoch = r.epoch /\ [r EXCEPT !.dead = b].to = r.to
         /\ [r EXCEPT !.dead = b].said = r.said /\ [r EXCEPT !.dead = b].kind = r.kind
         /\ [r EXCEPT !.dead = b].original = r.original
         /\ About(r) => About([r EXCEPT !.dead = b])
BY DEF A!Request, About

LEMMA GiveUpTypes == HelpInv /\ A!GiveUp => HelpTypes'
<1> SUFFICES ASSUME HelpInv, A!GiveUp PROVE HelpTypes'
  OBVIOUS
<1>1. /\ UNCHANGED <<conv, wEditor, sel, drafts, policies, wSending, review, wModal>>
      /\ wEpoch' = wEpoch + 1 /\ reqs' = {[r EXCEPT !.dead = TRUE] : r \in reqs}
  BY DEF A!GiveUp, A!CancelAI, A!settings
<1>2. reqs' \subseteq A!Request /\ \A r \in reqs' : About(r)
  <2>1. ASSUME NEW x \in reqs' PROVE x \in A!Request /\ About(x)
    <3>1. PICK r \in reqs : x = [r EXCEPT !.dead = TRUE]
      BY <1>1, <2>1
    <3>2. r \in A!Request /\ About(r)
      BY DEF HelpInv, HelpTypes
    <3> QED
      BY <3>1, <3>2, GivenUp
  <2> QED
    BY <2>1
<1> QED
  BY <1>1, <1>2 DEF HelpInv, HelpTypes

LEMMA StartTypes ==
  ASSUME HelpInv, NEW kind \in A!Kinds, A!StartAI(kind)
  PROVE  HelpTypes'
<1> DEFINE gone == IF wBusy THEN 2 ELSE 1
           new == [epoch |-> wEpoch + gone, kind |-> kind, original |-> A!Target(kind), to |-> built,
                   said |-> <<policies[conv].thread, policies[conv].contact, cfg.pol>>,
                   dead |-> FALSE]
<1>1. /\ UNCHANGED <<conv, wEditor, sel, drafts, policies, wSending, review, wModal>>
      /\ wEpoch' = wEpoch + gone
      /\ kind = "selection" <=> sel # None /\ kind # "review"
      /\ reqs' = {[r EXCEPT !.dead = @ \/ wBusy] : r \in reqs} \cup {new}
  BY DEF A!StartAI, A!settings
<1>2. gone \in Nat
  OBVIOUS
<1>3. A!Target(kind) \in IF kind = "selection" THEN [at : Spots, fixed : BOOLEAN] ELSE A!Text
  <2>1. CASE kind = "selection"
    <3>1. sel \in Spots
      BY <1>1, <2>1 DEF HelpInv, HelpTypes
    <3>2. A!Words(wEditor, sel) \in [at : Spots, fixed : BOOLEAN]
      BY <3>1 DEF A!Words
    <3> QED
      BY <2>1, <3>2 DEF A!Target
  <2>2. CASE kind # "selection"
    BY <2>2 DEF A!Target, HelpInv, HelpTypes
  <2> QED
    BY <2>1, <2>2
<1>4. <<policies[conv].thread, policies[conv].contact, cfg.pol>> \in Seq(Policies \cup {None})
  <2>1. policies[conv] \in A!Overrides /\ cfg \in A!Config
    BY DEF HelpInv, HelpTypes, SettingsInv, SettingsTypes
  <2>2. /\ policies[conv].thread \in Policies \cup {None}
        /\ policies[conv].contact \in Policies \cup {None} /\ cfg.pol \in Policies \cup {None}
    BY <2>1 DEF A!Overrides, A!Config
  <2> QED
    BY <2>2
<1>5. built \in A!Providers
  BY DEF HelpInv, SettingsInv, SettingsTypes, A!Build, A!Config, A!Providers
<1>6. wEpoch + gone \in Nat
  BY <1>2 DEF HelpInv, HelpTypes
<1> HIDE DEF gone
<1>7. new \in A!Request /\ About(new)
  BY <1>3, <1>4, <1>5, <1>6 DEF A!Request, About, A!Original
<1> HIDE DEF new
<1>8. reqs' \subseteq A!Request /\ \A r \in reqs' : About(r)
  <2>1. ASSUME NEW r \in reqs PROVE [r EXCEPT !.dead = @ \/ wBusy] \in A!Request /\ About([r EXCEPT !.dead = @ \/ wBusy])
    <3>1. r \in A!Request /\ About(r) /\ (r.dead \/ wBusy) \in BOOLEAN
      BY DEF HelpInv, HelpTypes
    <3> QED
      BY <3>1, GivenUp
  <2>2. ASSUME NEW x \in reqs' PROVE x \in A!Request /\ About(x)
    BY <1>1, <1>7, <2>1, <2>2
  <2> QED
    BY <2>2
<1> QED
  BY <1>1, <1>6, <1>8 DEF HelpInv, HelpTypes

\* A review is opened for the request it answers.
LEMMA AnswerTypes ==
  ASSUME NEW r \in A!Request, About(r), NEW changes \in A!Chat(r)
  PROVE  A!NewReview(r, changes) \in A!Review /\ About(A!NewReview(r, changes))
<1>1. changes \in SUBSET (Spots \cup {Whole})
  <2>1. CASE r.to = Off
    BY <2>1 DEF A!Chat
  <2>2. CASE r.to # Off /\ r.kind = "review"
    BY <2>2 DEF A!Chat, A!Suggested
  <2>3. CASE r.to # Off /\ r.kind = "rewrite"
    BY <2>3 DEF A!Chat, A!Suggested
  <2>4. CASE r.to # Off /\ r.kind = "selection"
    <3>1. r.original.at \in Spots
      BY <2>4 DEF About
    <3> QED
      BY <2>4, <3>1 DEF A!Chat, A!Suggested
  <2> QED
    BY <2>1, <2>2, <2>3, <2>4 DEF A!Request, A!Kinds
<1>2. r.kind \in A!Kinds /\ r.original \in A!Original /\ r.dead \in BOOLEAN
  BY DEF A!Request
<1> QED
  BY <1>1, <1>2 DEF A!NewReview, A!Review, About

LEMMA ResultTypes ==
  ASSUME HelpInv, NEW r \in reqs, A!Result(r)
  PROVE  HelpTypes'
<1>1. /\ UNCHANGED <<conv, wEditor, sel, drafts, policies, wSending, wEpoch>>
      /\ reqs' \subseteq reqs
      /\ \/ UNCHANGED <<review, wModal>>
         \/ wModal' = "ai-review" /\ \E changes \in A!Chat(r) : review' = A!NewReview(r, changes)
  BY DEF A!Result
<1>2. r \in A!Request /\ About(r)
  BY DEF HelpInv, HelpTypes
<1>3. CASE UNCHANGED <<review, wModal>>
  BY <1>1, <1>3 DEF HelpInv, HelpTypes, About
<1>4. CASE wModal' = "ai-review" /\ \E changes \in A!Chat(r) : review' = A!NewReview(r, changes)
  <2>1. review' \in A!Review /\ About(review)'
    BY <1>2, <1>4, AnswerTypes DEF About
  <2>2. review' # None
    BY <2>1, WritingAssumption
  <2> QED
    BY <1>1, <2>1, <2>2 DEF HelpInv, HelpTypes, About
<1> QED
  BY <1>1, <1>3, <1>4

LEMMA AppliesTypes ==
  ASSUME wEditor \in A!Text, sel \in Spots \cup {None},
         NEW v \in A!Review, About(v), A!Applies(v)
  PROVE  wEditor' \in A!Text /\ sel' \in Spots \cup {None}
<1>1. v.accepted \in SUBSET (Spots \cup {Whole})
  BY DEF A!Review
<1>2. CASE v.kind # "selection"
  <2>1. v.original \in A!Text
    BY <1>2 DEF About
  <2>2. [v.original EXCEPT !.fix = @ \cup v.accepted] \in A!Text
    BY <1>1, <2>1 DEF A!Text
  <2> QED
    BY <1>2, <2>2 DEF A!Applies, A!Apply
<1>3. CASE v.kind = "selection"
  <2>1. [wEditor EXCEPT !.fix = (@ \ {sel}) \cup v.accepted] \in A!Text
    BY <1>1 DEF A!Text
  <2> QED
    BY <1>3, <2>1 DEF A!Applies, A!ApplySelection
<1> QED
  BY <1>2, <1>3

\* What the user accepts is taken from what was suggested.
LEMMA DecideTypes == HelpInv /\ A!Decide => HelpTypes'
<1> SUFFICES ASSUME HelpInv, A!Decide PROVE HelpTypes'
  OBVIOUS
<1>1. /\ UNCHANGED <<conv, drafts, policies, wSending, wEpoch, reqs, wModal>>
      /\ wModal = "ai-review" /\ A!Applies(review')
      /\ \E c \in review.changes :
           \/ review' = [review EXCEPT !.accepted = @ \cup {c}, !.used = TRUE]
           \/ review' = [review EXCEPT !.accepted = @ \ {c}, !.used = TRUE]
  BY DEF A!Decide, A!settings
<1>2. review \in A!Review /\ About(review) /\ wEditor \in A!Text /\ sel \in Spots \cup {None}
  BY <1>1 DEF HelpInv, HelpTypes
<1>3. review' \in A!Review /\ review'.kind = review.kind /\ review'.original = review.original
  BY <1>1, <1>2 DEF A!Review
<1>4. About(review)' /\ review' # None
  BY <1>2, <1>3, WritingAssumption DEF About
<1>5. wEditor' \in A!Text /\ sel' \in Spots \cup {None}
  BY <1>1, <1>2, <1>3, <1>4, AppliesTypes DEF About
<1> QED
  BY <1>1, <1>3, <1>4, <1>5 DEF HelpInv, HelpTypes

LEMMA CloseTypes ==
  HelpInv /\ (A!AcceptAll \/ A!CloseReview \/ A!EditSuggestion) => HelpTypes'
<1> SUFFICES ASSUME HelpInv, A!AcceptAll \/ A!CloseReview \/ A!EditSuggestion PROVE HelpTypes'
  OBVIOUS
<1>1. ASSUME A!AcceptAll PROVE HelpTypes'
  <2> DEFINE v == [review EXCEPT !.accepted = review.changes]
  <2>1. /\ UNCHANGED <<conv, drafts, policies, wSending, wEpoch, reqs>>
        /\ wModal = "ai-review" /\ wModal' = "" /\ review' = None /\ A!Applies(v)
    BY <1>1 DEF A!AcceptAll
  <2>2. review \in A!Review /\ About(review) /\ wEditor \in A!Text /\ sel \in Spots \cup {None}
    BY <2>1 DEF HelpInv, HelpTypes
  <2>3. v \in A!Review /\ About(v)
    BY <2>2 DEF A!Review, About
  <2> HIDE DEF v
  <2>4. wEditor' \in A!Text /\ sel' \in Spots \cup {None}
    BY <2>1, <2>2, <2>3, AppliesTypes
  <2> QED
    BY <2>1, <2>4 DEF HelpInv, HelpTypes
<1>2. ASSUME A!CloseReview PROVE HelpTypes'
  BY <1>2 DEF A!CloseReview, HelpInv, HelpTypes
<1>3. ASSUME A!EditSuggestion PROVE HelpTypes'
  BY <1>3 DEF A!EditSuggestion, A!writing, HelpInv, HelpTypes, About
<1> QED
  BY <1>1, <1>2, <1>3

LEMMA TypingTypes ==
  HelpInv /\ (A!Type \/ A!OpenThread \/ A!Send \/ A!Sent \/ A!CommitAIPolicy) => HelpTypes'
<1> SUFFICES ASSUME HelpInv, A!Type \/ A!OpenThread \/ A!Send \/ A!Sent \/ A!CommitAIPolicy
             PROVE  HelpTypes'
  OBVIOUS
<1>1. UNCHANGED <<wModal, reqs, review, wEpoch>>
  BY DEF A!Type, A!OpenThread, A!Send, A!Sent, A!CommitAIPolicy, A!settings
<1>2. SUFFICES /\ conv' \in Convs /\ wEditor' \in A!Text /\ sel' \in Spots \cup {None}
               /\ drafts' \in [Convs -> A!Text] /\ policies' \in [Convs -> A!Overrides]
               /\ wSending' # None => wSending' \in [to : Convs, body : A!Text]
  BY <1>1 DEF HelpInv, HelpTypes, About
<1> USE DEF HelpInv, HelpTypes
<1>3. A!Nothing \in A!Text
  BY DEF A!Nothing, A!Text
<1>4. CASE A!Type
  <2>1. UNCHANGED <<conv, policies, wSending>>
    BY <1>4 DEF A!Type
  <2>2. /\ wEditor' \in A!Text /\ sel' \in Spots \cup {None}
        /\ drafts' = drafts \/ drafts' = [drafts EXCEPT ![conv] = wEditor']
    <3>1. ASSUME NEW t \in {0} \cup Typed PROVE [typed |-> t, fix |-> {}] \in A!Text
      BY <3>1 DEF A!Text
    <3>2. CASE UNCHANGED <<wEditor, drafts>> /\ sel' \in Spots \cup {None}
      BY <3>2
    <3>3. CASE \E t \in {0} \cup Typed :
                 /\ wEditor' = [typed |-> t, fix |-> {}] /\ sel' = None
                 /\ drafts' = [drafts EXCEPT ![conv] = wEditor']
      BY <3>1, <3>3
    <3> QED
      BY <1>4, <3>2, <3>3 DEF A!Type
  <2> QED
    BY <2>1, <2>2
<1>5. CASE A!OpenThread
  BY <1>5 DEF A!OpenThread
<1>6. CASE A!Send
  BY <1>6 DEF A!Send
<1>7. CASE A!Sent
  BY <1>3, <1>7 DEF A!Sent
<1>8. CASE A!CommitAIPolicy
  <2>1. UNCHANGED <<conv, wEditor, sel, drafts, wSending>>
    BY <1>8 DEF A!CommitAIPolicy
  <2>2. PICK scope \in {"thread", "contact"}, p \in Policies \cup {None} :
          policies' = [policies EXCEPT ![conv][scope] = p]
    BY <1>8 DEF A!CommitAIPolicy, A!SetAIPolicy
  <2>3. [policies[conv] EXCEPT ![scope] = p] \in A!Overrides
    BY DEF A!Overrides
  <2>4. policies' = [policies EXCEPT ![conv] = [policies[conv] EXCEPT ![scope] = p]]
    BY <2>2
  <2>5. policies' \in [Convs -> A!Overrides]
    BY <2>3, <2>4
  <2> QED
    BY <2>1, <2>5
<1> QED
  BY <1>4, <1>5, <1>6, <1>7, <1>8

\* Nothing in the settings opens a review.
LEMMA SettingsKeepHelp ==
  A!SettingsNext => wModal' = wModal \/ wModal' \in {"", "settings", "ai-models"}
<1>1. \A p : A!Listed(p) => wModal' = wModal \/ wModal' = "ai-models"
  BY DEF A!Listed
<1> QED
  BY <1>1 DEF A!SettingsNext, A!OpenSettings, A!ChooseModel, A!Adjust, A!EditKey, A!SettingsEditKey,
     A!CommitEdit, A!CancelEdit, A!PickModel, A!Save, A!Discard, A!Toggle, A!Adopt, A!Written

LEMMA HelpTypesStep == HelpInv /\ [Next]_vars => HelpInv'
<1> SUFFICES ASSUME HelpInv, A!AssistantNext \/ UNCHANGED writingVars PROVE HelpTypes'
  BY WritingMoves, SettingsStep DEF HelpInv
<1>1. CASE A!SettingsNext /\ UNCHANGED A!writing
  BY <1>1, SettingsKeepHelp DEF A!writing, HelpInv, HelpTypes, About
<1>2. CASE UNCHANGED writingVars
  BY <1>2 DEF writingVars, HelpInv, HelpTypes, About
<1> QED
  BY <1>1, <1>2, GiveUpTypes, StartTypes, ResultTypes, DecideTypes, CloseTypes, TypingTypes
     DEF A!AssistantNext, A!Kinds
-----------------------------------------------------------------------------
(* The privacy policy. *)

\* The place of the nearest policy that says something.
Says(s, i) == s[i] # None /\ \A j \in 1 .. (i - 1) : s[j] = None
Nearest(s) == CHOOSE i \in 1 .. 3 : Says(s, i)

\* The nearest of three policies is the one ResolvePolicy takes.
LEMMA NearestPolicy ==
  ASSUME NEW t, NEW c, NEW g, g # None, NEW s, s = <<t, c, g>>
  PROVE  s[Nearest(s)] = IF t # None THEN t ELSE IF c # None THEN c ELSE g
<1>1. s[1] = t /\ s[2] = c /\ s[3] = g
  OBVIOUS
<1>2. \E i \in 1 .. 3 : Says(s, i)
  <2>1. CASE t # None
    <3>1. Says(s, 1)
      BY <1>1, <2>1 DEF Says
    <3> QED
      BY <3>1
  <2>2. CASE t = None /\ c # None
    <3>1. Says(s, 2)
      BY <1>1, <2>2 DEF Says
    <3> QED
      BY <3>1
  <2>3. CASE t = None /\ c = None
    <3>1. Says(s, 3)
      BY <1>1, <2>3 DEF Says
    <3> QED
      BY <3>1
  <2> QED
    BY <2>1, <2>2, <2>3
<1>3. Nearest(s) \in 1 .. 3 /\ Says(s, Nearest(s))
  BY <1>2 DEF Nearest
<1> QED
  BY <1>1, <1>3 DEF Says

\* The requests that are under way, apart from whether they were given up.
LEMMA RequestsStay ==
  ASSUME HelpInv, A!AssistantNext \/ UNCHANGED writingVars,
         \A kind \in A!Kinds : ~ A!StartAI(kind)
  PROVE  \A r \in reqs' : \E q \in reqs : r.to = q.to /\ r.said = q.said
<1>0. \A q \in reqs : q \in A!Request
  BY DEF HelpInv, HelpTypes
<1>1. CASE A!GiveUp
  <2>1. reqs' = {[r EXCEPT !.dead = TRUE] : r \in reqs}
    BY <1>1 DEF A!GiveUp, A!CancelAI
  <2>2. ASSUME NEW q \in reqs
        PROVE  [q EXCEPT !.dead = TRUE].to = q.to /\ [q EXCEPT !.dead = TRUE].said = q.said
    BY <1>0 DEF A!Request
  <2> QED
    BY <2>1, <2>2
<1>2. CASE reqs' \subseteq reqs
  BY <1>2
<1>3. ASSUME NEW r \in reqs, A!Result(r) PROVE reqs' \subseteq reqs
  BY <1>3 DEF A!Result
<1>4. (A!SettingsNext /\ UNCHANGED A!writing) \/ UNCHANGED writingVars \/ A!Decide \/ A!AcceptAll
        \/ A!CloseReview \/ A!EditSuggestion \/ A!Type \/ A!OpenThread \/ A!Send \/ A!Sent
        \/ A!CommitAIPolicy => reqs' \subseteq reqs
  BY DEF A!writing, writingVars, A!Decide, A!AcceptAll, A!CloseReview, A!EditSuggestion, A!Type,
         A!OpenThread, A!Send, A!Sent, A!CommitAIPolicy
<1>5. A!GiveUp \/ reqs' \subseteq reqs
  BY <1>3, <1>4 DEF A!AssistantNext, A!Kinds
<1> QED
  BY <1>1, <1>2, <1>5

LEMMA SentByPolicy ==
  ASSUME HelpInv, A!PolicyRespected, A!AssistantNext \/ UNCHANGED writingVars
  PROVE  A!PolicyRespected'
<1> DEFINE said == <<policies[conv].thread, policies[conv].contact, cfg.pol>>
           Fine(r) == r.to # Off =>
             /\ r.said[Nearest(r.said)] # "disabled"
             /\ r.to \in Cloud => r.said[Nearest(r.said)] = "cloud"
<1>1. cfg.pol # None /\ built = A!Build(cfg)
  BY ConfigTypes DEF HelpInv, SettingsInv, SettingsTypes
<1>2. said[Nearest(said)] = A!AIPolicy
  BY <1>1, NearestPolicy DEF A!AIPolicy, A!ResolvePolicy
<1>3. ASSUME NEW kind \in A!Kinds, A!StartAI(kind), NEW r \in reqs'
      PROVE  (r.to = built /\ r.said = said) \/ \E q \in reqs : r.to = q.to /\ r.said = q.said
  <2> DEFINE new == [epoch |-> wEpoch + (IF wBusy THEN 2 ELSE 1), kind |-> kind,
                     original |-> A!Target(kind), to |-> built, said |-> said, dead |-> FALSE]
  <2>1. reqs' = {[q EXCEPT !.dead = @ \/ wBusy] : q \in reqs} \cup {new}
    BY <1>3 DEF A!StartAI
  <2>2. new.to = built /\ new.said = said
    OBVIOUS
  <2> HIDE DEF new, said
  <2>3. ASSUME NEW q \in reqs
        PROVE  /\ [q EXCEPT !.dead = @ \/ wBusy].to = q.to
               /\ [q EXCEPT !.dead = @ \/ wBusy].said = q.said
    <3>1. q \in A!Request
      BY DEF HelpInv, HelpTypes
    <3> QED
      BY <3>1 DEF A!Request
  <2> QED
    BY <1>3, <2>1, <2>2, <2>3
<1>4. ASSUME NEW kind, A!StartAI(kind)
      PROVE  A!AIPolicy # "disabled" /\ (built \in Cloud => A!AIPolicy = "cloud")
  <2>1. A!Allowed(A!AIPolicy, cfg.prov) /\ cfg.on /\ cfg.ai.model # None
    BY <1>4 DEF A!StartAI, A!Refused, A!Configured
  <2> QED
    BY <1>1, <2>1, WritingAssumption DEF A!Build, A!Allowed
<1> HIDE DEF said
<1>5. A!PolicyRespected <=> \A r \in reqs : Fine(r)
  BY DEF A!PolicyRespected, Nearest, Says
<1>6. A!PolicyRespected' <=> \A r \in reqs' : Fine(r)
  BY DEF A!PolicyRespected, Nearest, Says
<1>7. CASE \E kind \in A!Kinds : A!StartAI(kind)
  BY <1>2, <1>3, <1>4, <1>5, <1>6, <1>7
<1>8. CASE \A kind \in A!Kinds : ~ A!StartAI(kind)
  BY <1>5, <1>6, <1>8, RequestsStay
<1> QED
  BY <1>7, <1>8

LEMMA HelpHolds == Spec => []HelpInv
<1>1. Init => HelpInv
  BY HelpStarts DEF Init
<1> QED
  BY <1>1, HelpTypesStep, PTL DEF Spec

\* PolicyRespected: a text is with a provider only if the nearest of the three
\* policies let that provider have it when it was sent (ai.go).
THEOREM PolicyHolds == Spec => []PolicyRespected
<1>1. Init => A!PolicyRespected
  BY DEF Init, A!AssistantInit, A!PolicyRespected
<1>2. HelpInv /\ A!PolicyRespected /\ [Next]_vars => A!PolicyRespected'
  BY WritingMoves, SentByPolicy
<1>3. A!PolicyRespected => PolicyRespected
  BY DEF PolicyRespected
<1> QED
  BY <1>1, <1>2, <1>3, HelpHolds, PTL DEF Spec
-----------------------------------------------------------------------------
(* Answers that come late. *)

\* A request of the present epoch was not given up, nor was the one the open
\* review answers.
Awaited ==
  /\ \A r \in reqs : r.epoch <= wEpoch /\ (r.epoch = wEpoch => ~ r.dead)
  /\ review # None => ~ review.dead

LEMMA AwaitedStep ==
  ASSUME HelpInv, Awaited, A!AssistantNext \/ UNCHANGED writingVars
  PROVE  Awaited'
<1>0. wEpoch \in Nat /\ \A r \in reqs : r \in A!Request /\ r.epoch \in Nat
  BY DEF HelpInv, HelpTypes, A!Request
<1>1. ASSUME A!GiveUp PROVE Awaited'
  <2>1. /\ wEpoch' = wEpoch + 1 /\ review' = review
        /\ reqs' = {[r EXCEPT !.dead = TRUE] : r \in reqs}
    BY <1>1 DEF A!GiveUp, A!CancelAI
  <2>2. \A r \in reqs : [r EXCEPT !.dead = TRUE].epoch = r.epoch
    BY <1>0 DEF A!Request
  <2>3. ASSUME NEW x \in reqs' PROVE x.epoch <= wEpoch
    BY <2>1, <2>2, <2>3 DEF Awaited
  <2>4. ASSUME NEW x \in reqs' PROVE x.epoch \in Nat
    BY <1>0, <2>1, <2>2, <2>4
  <2> QED
    BY <1>0, <2>1, <2>3, <2>4 DEF Awaited
<1>2. ASSUME NEW kind \in A!Kinds, A!StartAI(kind) PROVE Awaited'
  <2> DEFINE gone == IF wBusy THEN 2 ELSE 1
             new == [epoch |-> wEpoch + gone, kind |-> kind, original |-> A!Target(kind),
                     to |-> built,
                     said |-> <<policies[conv].thread, policies[conv].contact, cfg.pol>>,
                     dead |-> FALSE]
  <2>1. /\ wEpoch' = wEpoch + gone /\ review' = review
        /\ reqs' = {[r EXCEPT !.dead = @ \/ wBusy] : r \in reqs} \cup {new}
    BY <1>2 DEF A!StartAI
  <2>2. gone \in {1, 2} /\ new.epoch = wEpoch + gone /\ new.dead = FALSE
    OBVIOUS
  <2> HIDE DEF gone, new
  <2>3. \A r \in reqs : [r EXCEPT !.dead = @ \/ wBusy].epoch = r.epoch
    BY <1>0 DEF A!Request
  <2>4. ASSUME NEW x \in reqs' PROVE x = new \/ (x.epoch \in Nat /\ x.epoch <= wEpoch)
    BY <1>0, <2>1, <2>3, <2>4 DEF Awaited
  <2>5. ASSUME NEW x \in reqs' PROVE x.epoch <= wEpoch' /\ (x.epoch = wEpoch' => ~ x.dead)
    BY <1>0, <2>1, <2>2, <2>4, <2>5
  <2> QED
    BY <2>1, <2>5 DEF Awaited
<1>3. ASSUME NEW r \in reqs, A!Result(r) PROVE Awaited'
  <2>1. /\ wEpoch' = wEpoch /\ reqs' \subseteq reqs
        /\ review' = review \/ (r.epoch = wEpoch /\ \E c : review' = A!NewReview(r, c))
    BY <1>3 DEF A!Result
  <2>2. (\E c : review' = A!NewReview(r, c)) => review'.dead = r.dead
    BY DEF A!NewReview
  <2> QED
    BY <2>1, <2>2 DEF Awaited
<1>4. ASSUME A!Decide PROVE Awaited'
  <2>1. /\ UNCHANGED <<reqs, wEpoch>> /\ wModal = "ai-review"
        /\ \E c \in review.changes :
             \/ review' = [review EXCEPT !.accepted = @ \cup {c}, !.used = TRUE]
             \/ review' = [review EXCEPT !.accepted = @ \ {c}, !.used = TRUE]
    BY <1>4 DEF A!Decide
  <2>2. review # None /\ review \in A!Review
    BY <2>1 DEF HelpInv, HelpTypes
  <2>3. review'.dead = review.dead
    BY <2>1, <2>2 DEF A!Review
  <2> QED
    BY <2>1, <2>2, <2>3 DEF Awaited
<1>5. ASSUME UNCHANGED <<reqs, wEpoch>>, review' = review \/ review' = None PROVE Awaited'
  BY <1>5 DEF Awaited
<1>6. (A!SettingsNext /\ UNCHANGED A!writing) \/ UNCHANGED writingVars \/ A!AcceptAll
        \/ A!CloseReview \/ A!EditSuggestion \/ A!Type \/ A!OpenThread \/ A!Send \/ A!Sent
        \/ A!CommitAIPolicy => UNCHANGED <<reqs, wEpoch>> /\ (review' = review \/ review' = None)
  BY DEF A!writing, writingVars, A!AcceptAll, A!CloseReview, A!EditSuggestion, A!Type,
         A!OpenThread, A!Send, A!Sent, A!CommitAIPolicy
<1>7. CASE \E kind \in A!Kinds : A!StartAI(kind)
  BY <1>2, <1>7
<1>8. CASE \E r \in reqs : A!Result(r)
  BY <1>3, <1>8
<1>9. CASE /\ \A kind \in A!Kinds : ~ A!StartAI(kind)
           /\ \A r \in reqs : ~ A!Result(r)
  <2>1. A!GiveUp \/ A!Decide
          \/ (UNCHANGED <<reqs, wEpoch>> /\ (review' = review \/ review' = None))
    BY <1>6, <1>9 DEF A!AssistantNext, A!Kinds
  <2> QED
    BY <2>1, <1>1, <1>4, <1>5
<1> QED
  BY <1>7, <1>8, <1>9

\* CancelledStays: no review is of a request that was given up (ai.go).
THEOREM CancelledAnswersNothing == Spec => []CancelledStays
<1>1. Init => Awaited
  BY DEF Init, A!AssistantInit, Awaited
<1>2. HelpInv /\ Awaited /\ [Next]_vars => Awaited'
  BY WritingMoves, AwaitedStep
<1>3. Awaited => CancelledStays
  BY DEF Awaited, CancelledStays, A!CancelledStays
<1> QED
  BY <1>1, <1>2, <1>3, HelpHolds, PTL DEF Spec

\* The open review is about the text in the composer.
Current == A!NoStaleReview

LEMMA Untouched ==
  ASSUME Current, UNCHANGED <<wEditor, sel, review>>,
         wModal' \in {"ai-review", "ai-edit"} => wModal \in {"ai-review", "ai-edit"} /\ moved' = moved
  PROVE  Current'
BY DEF Current, A!NoStaleReview, A!Apply, A!Words

LEMMA ResultCurrent ==
  ASSUME HelpInv, Current, NEW r \in reqs, A!Result(r)
  PROVE  Current'
<1>1. UNCHANGED <<wEditor, sel>>
  BY DEF A!Result
<1>2. CASE UNCHANGED <<review, wModal, moved>>
  BY <1>1, <1>2, Untouched
<1>3. ASSUME NEW changes, review' = A!NewReview(r, changes), A!Unchanged(r) PROVE Current'
  <2>1. /\ review'.kind = r.kind /\ review'.original = r.original /\ review'.accepted = {}
    BY <1>3 DEF A!NewReview
  <2>2. CASE r.kind = "selection"
    BY <1>1, <1>3, <2>1, <2>2 DEF A!Unchanged, A!Words, Current, A!NoStaleReview
  <2>3. CASE r.kind # "selection"
    <3>1. wEditor = r.original /\ wEditor \in A!Text
      BY <1>3, <2>3 DEF A!Unchanged, HelpInv, HelpTypes
    <3>2. [wEditor EXCEPT !.fix = @ \cup {}] = wEditor
      BY <3>1 DEF A!Text
    <3>3. A!Apply(review)' = wEditor
      BY <2>1, <3>1, <3>2 DEF A!Apply
    <3> QED
      BY <1>1, <2>1, <2>3, <3>3 DEF Current, A!NoStaleReview
  <2> QED
    BY <2>2, <2>3
<1> QED
  BY <1>2, <1>3 DEF A!Result

LEMMA DecideCurrent == HelpInv /\ A!Decide => Current'
<1> SUFFICES ASSUME HelpInv, A!Decide PROVE Current'
  OBVIOUS
<1>1. /\ wModal = "ai-review" /\ A!Applies(review')
      /\ \E c \in review.changes :
           \/ review' = [review EXCEPT !.accepted = @ \cup {c}, !.used = TRUE]
           \/ review' = [review EXCEPT !.accepted = @ \ {c}, !.used = TRUE]
  BY DEF A!Decide
<1>2. review \in A!Review
  BY <1>1 DEF HelpInv, HelpTypes
<1>3. review'.used = TRUE
  BY <1>1, <1>2 DEF A!Review
<1>4. review'.kind # "selection" => wEditor' = A!Apply(review)'
  BY <1>1 DEF A!Applies, A!Apply
<1> QED
  BY <1>3, <1>4 DEF Current, A!NoStaleReview

LEMMA CurrentStep ==
  ASSUME HelpInv, Current, A!AssistantNext \/ UNCHANGED writingVars
  PROVE  Current'
<1>1. CASE \E r \in reqs : A!Result(r)
  BY <1>1, ResultCurrent
<1>2. CASE A!Decide
  BY <1>2, DecideCurrent
<1>3. ASSUME wModal' \notin {"ai-review", "ai-edit"} PROVE Current'
  BY <1>3 DEF Current, A!NoStaleReview
<1>4. A!Type \/ A!OpenThread \/ A!AcceptAll \/ A!CloseReview
        => wModal' \notin {"ai-review", "ai-edit"}
  BY DEF A!Type, A!OpenThread, A!AcceptAll, A!CloseReview, A!settings
<1>5. CASE A!EditSuggestion
  BY <1>5, Untouched DEF A!EditSuggestion, A!writing
<1>6. CASE A!Sent
  <2>1. UNCHANGED <<review, wModal>>
    BY <1>6 DEF A!Sent, A!settings
  <2>2. UNCHANGED <<wEditor, sel, moved>> \/ moved' = (review # None)
    BY <1>6 DEF A!Sent
  <2>3. CASE UNCHANGED <<wEditor, sel, moved>>
    BY <2>1, <2>3, Untouched
  <2>4. CASE moved' = (review # None)
    BY <2>1, <2>4 DEF HelpInv, HelpTypes, Current, A!NoStaleReview
  <2> QED
    BY <2>2, <2>3, <2>4
<1>7. CASE A!GiveUp \/ A!Send \/ A!CommitAIPolicy \/ (\E kind \in A!Kinds : A!StartAI(kind))
             \/ UNCHANGED writingVars
  <2>1. UNCHANGED <<wEditor, sel, review, wModal, moved>>
    BY <1>7 DEF A!GiveUp, A!Send, A!CommitAIPolicy, A!StartAI, A!settings, writingVars
  <2> QED
    BY <2>1, Untouched
<1>8. CASE A!SettingsNext /\ UNCHANGED A!writing
  <2>1. UNCHANGED <<wEditor, sel, review, moved>>
    BY <1>8 DEF A!writing
  <2> QED
    BY <1>8, <2>1, SettingsKeepHelp, Untouched
<1> QED
  BY <1>1, <1>2, <1>3, <1>4, <1>5, <1>6, <1>7, <1>8 DEF A!AssistantNext, A!Kinds

\* NoStaleReview: while a review is open, the composer holds the text it is about
\* with what was accepted (ai.go).
THEOREM ReviewOfTheText == Spec => []NoStaleReview
<1>1. Init => Current
  BY DEF Init, A!AssistantInit, A!SettingsInit, Current, A!NoStaleReview
<1>2. HelpInv /\ Current /\ [Next]_vars => Current'
  BY WritingMoves, CurrentStep
<1>3. Current => NoStaleReview
  BY DEF Current, NoStaleReview
<1> QED
  BY <1>1, <1>2, <1>3, HelpHolds, PTL DEF Spec
-----------------------------------------------------------------------------
(* What of TypeOK the proofs above leave open: what the settings keep beside. *)

SettingsBounded ==
  /\ file \in A!Config /\ edit \in {None, "model", "key"}
  /\ lists \subseteq A!Providers \ {Off} /\ down \subseteq LocalProviders /\ wBusy \in BOOLEAN

LEMMA SettingsBoundedStart == A!AssistantInit(StartConfig) => SettingsBounded
BY WritingAssumption DEF A!AssistantInit, A!SettingsInit, SettingsBounded

\* Of Off no models are listed.
LEMMA ListsStep ==
  ASSUME SettingsTypes, SettingsBounded, A!SettingsNext
  PROVE  lists' \subseteq A!Providers \ {Off}
<1>1. cfg.prov \in A!Providers /\ (cfg.prov \in Cloud => cfg.prov # Off)
  BY WritingAssumption DEF SettingsTypes, A!Config
<1>2. CASE A!ChooseModel
  BY <1>1, <1>2 DEF A!ChooseModel, SettingsBounded
<1>3. CASE A!CommitEdit
  BY <1>1, <1>3 DEF A!CommitEdit, SettingsBounded
<1>4. CASE \E p \in A!Providers : A!Listed(p)
  BY <1>4 DEF A!Listed, SettingsBounded
<1>5. CASE lists' = lists
  BY <1>5 DEF SettingsBounded
<1> QED
  BY <1>2, <1>3, <1>4, <1>5 DEF A!SettingsNext, A!OpenSettings, A!Adjust, A!EditKey, A!SettingsEditKey,
     A!CancelEdit, A!PickModel, A!Save, A!Discard, A!Toggle, A!Adopt, A!Written

LEMMA SettingsBoundedSettings ==
  ASSUME SettingsTypes, SettingsBounded, A!SettingsNext, wBusy' = wBusy
  PROVE  SettingsBounded'
<1>1. file' \in A!Config
  BY DEF A!SettingsNext, A!OpenSettings, A!ChooseModel, A!Adjust, A!EditKey, A!SettingsEditKey, A!CommitEdit,
     A!CancelEdit, A!Listed, A!PickModel, A!Save, A!Discard, A!Toggle, A!Adopt, A!Written, A!WriteFile,
     SettingsTypes, SettingsBounded
<1>2. edit' \in {None, "model", "key"}
  BY DEF A!SettingsNext, A!OpenSettings, A!ChooseModel, A!Adjust, A!EditKey, A!SettingsEditKey, A!CommitEdit,
     A!CancelEdit, A!Listed, A!PickModel, A!Save, A!Discard, A!Toggle, A!Adopt, A!Written, SettingsBounded
<1>3. down' \subseteq LocalProviders
  BY DEF A!SettingsNext, A!OpenSettings, A!ProbeLocalProviders, A!ChooseModel, A!Adjust, A!EditKey,
     A!SettingsEditKey, A!CommitEdit, A!CancelEdit, A!Listed, A!PickModel, A!Save, A!Discard, A!Toggle,
     A!Adopt, A!Written, SettingsBounded
<1> QED
  BY <1>1, <1>2, <1>3, ListsStep DEF SettingsBounded

LEMMA SettingsBoundedHelp ==
  ASSUME SettingsBounded, A!AssistantNext, HelpStep
  PROVE  (A!SettingsNext /\ UNCHANGED A!writing) \/ SettingsBounded'
<1>1. ASSUME NEW kind, A!StartAI(kind) PROVE SettingsBounded'
  BY <1>1 DEF A!StartAI, A!settings, SettingsBounded
<1>2. CASE A!GiveUp \/ A!Type \/ A!OpenThread \/ A!Send \/ A!Sent \/ A!CommitAIPolicy \/ A!Decide
  BY <1>2 DEF A!GiveUp, A!Type, A!OpenThread, A!Send, A!Sent, A!CommitAIPolicy, A!Decide, A!settings, SettingsBounded
<1>3. ASSUME NEW r, A!Result(r) PROVE SettingsBounded'
  BY <1>3 DEF A!Result, SettingsBounded
<1>4. CASE A!AcceptAll \/ A!CloseReview \/ A!EditSuggestion
  BY <1>4 DEF A!AcceptAll, A!CloseReview, A!EditSuggestion, A!writing, SettingsBounded
<1> QED
  BY <1>1, <1>2, <1>3, <1>4 DEF A!AssistantNext

LEMMA SettingsBoundedStep == HelpInv /\ SettingsBounded /\ [Next]_vars => SettingsBounded'
<1> SUFFICES ASSUME HelpInv, SettingsBounded, A!AssistantNext \/ UNCHANGED writingVars PROVE SettingsBounded'
  BY WritingMoves
<1>1. CASE A!SettingsNext /\ UNCHANGED A!writing
  BY <1>1, SettingsBoundedSettings DEF A!writing, HelpInv, SettingsInv
<1>2. CASE UNCHANGED writingVars
  BY <1>2 DEF writingVars, SettingsBounded
<1> QED
  BY <1>1, <1>2, HelpSteps, SettingsBoundedHelp

LEMMA AssistantTyped == Spec => []A!AssistantOK
<1>1. Init => SettingsBounded
  BY SettingsBoundedStart DEF Init
<1>2. HelpInv /\ SettingsBounded => A!AssistantOK
  <2> SUFFICES ASSUME HelpInv, SettingsBounded PROVE A!AssistantOK
    OBVIOUS
  <2> USE DEF HelpInv, SettingsInv
  <2>1. built \in A!Providers
    BY DEF SettingsTypes, A!Build, A!Config, A!Providers
  <2>2. A!SettingsOK
    BY <2>1 DEF A!SettingsOK, SettingsTypes, SettingsBounded
  <2> QED
    BY <2>2 DEF A!AssistantOK, HelpTypes, SettingsBounded
<1> QED
  BY <1>1, <1>2, HelpHolds, SettingsBoundedStep, PTL DEF Spec
==============================================================================
