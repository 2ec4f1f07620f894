------------------------------ MODULE Settings ------------------------------
(***************************************************************************)
(* The settings panel and the configuration file (internal/app/settings.go,*)
(* ai_models.go, ai_availability.go, internal/config/config.go).           *)
(*                                                                         *)
(* The panel edits m.cfg itself: a change takes effect everywhere at once, *)
(* Ctrl+S writes it and Esc puts settingsSaved back.  Beside the panel the *)
(* event loop handles what comes back later: a saved file, a provider's    *)
(* list of models, the lone phone that is adopted as the preferred one.    *)
(*                                                                         *)
(* The rows differ here by what depends on them.  The writing assistant's  *)
(* are told apart; an endpoint goes with its key; all the others are one   *)
(* row, `look`.  A model is known by the provider that lists it.           *)
(***************************************************************************)
EXTENDS Naturals, FiniteSets

CONSTANTS
  Local, Cloud,  \* providers on this machine, and elsewhere
  Policies,      \* "local", "cloud", "disabled"
  MaxKeys,       \* bound: what the user does
  MaxFaults,     \* bound: writes and listings that fail
  Off, None

VARIABLES
  cfg,           \* m.cfg: in force, a draft while the panel is open
  file,          \* config.toml
  saved,         \* settingsSaved
  built,         \* m.assistant: the provider it was built for, Off for Disabled{}
  modal,         \* m.modal: "", "settings", "ai-models", "ai-review" or "ai-edit"
  edit,          \* settingEditing while settingEdit, else None
  saving,        \* the configuration being written, None unless busy
  adopted,       \* m.deviceID # ""
  lists,         \* providers that were asked for their models
  failedList,    \* modelListFailed: provider and key of the listing that failed
  offer,         \* m.choices of the model picker: the provider that was listed
  down,          \* localProviderStatus: the local providers that did not answer
  stray,         \* history: the panel and the file parted (InForceIsFile says when)
  keys, faults   \* how much the user did, and what failed, for the bounds

settings == <<cfg, file, saved, built, modal, edit, saving, adopted, lists, failedList,
              offer, down, stray>>

Providers == Local \cup Cloud \cup {Off}
Profile == [model : Providers \cup {None}, key : BOOLEAN]
Fresh == [model |-> None, key |-> FALSE]

\* config.Default.
Default == [on |-> FALSE, prov |-> Off, ai |-> Fresh, profiles |-> [p \in Providers |-> Fresh],
            pol |-> "local", look |-> FALSE, phone |-> FALSE]

\* buildAssistant and ai.New: without a model there is no assistant either.
Build(c) == IF c.on /\ c.ai.model # None THEN c.prov ELSE Off

Fault == faults < MaxFaults /\ faults' = faults + 1
Pressed == keys < MaxKeys /\ keys' = keys + 1

SettingsInit(c) ==
  /\ cfg = c /\ file = c /\ saved = c /\ built = Build(c)
  /\ modal = "" /\ edit = None /\ saving = None /\ adopted = FALSE
  /\ lists = {} /\ failedList = None /\ offer = Off /\ down = {}
  /\ stray = FALSE /\ keys = 0 /\ faults = 0

\* SwitchAIProvider: the provider that is left keeps its profile, except Off, in
\* a map of its own.
Switch(c, p) ==
  LET kept == IF c.prov = Off THEN c.profiles ELSE [c.profiles EXCEPT ![c.prov] = c.ai]
  IN [c EXCEPT !.prov = p, !.ai = kept[p], !.profiles = kept]

\* Mutant of Restored: the profiles are shared with the draft, not copied.
Restored_Shared == [saved EXCEPT !.profiles = cfg.profiles]
Restored == saved

\* applyConfig: whatever is in force, the assistant is built for it.
Applied(c) == cfg' = c /\ built' = Build(c)

\* saveConfig hands the configuration to a goroutine, which writes a new file and
\* renames it over the old one.
SaveConfig(c) == saving' = c
WriteFile(c) == file' = c

\* Each local provider answers or does not; nothing is asked of the others.
ProbeLocalProviders == down' \in SUBSET Local

\* What asking a provider for its models comes to: names, or a key that is
\* rejected, or anything else that goes wrong.
ListModels(p) == IF p = Off THEN {"unavailable"} ELSE {"names", "refused", "unavailable"}

ListKey == <<cfg.prov, cfg.ai.key>>
InPanel == modal = "settings" /\ saving = None /\ edit = None
-----------------------------------------------------------------------------
OpenSettings ==
  /\ modal = "" /\ Pressed
  /\ modal' = "settings" /\ saved' = cfg /\ edit' = None
  /\ ProbeLocalProviders
  /\ UNCHANGED <<cfg, file, built, saving, adopted, lists, failedList, offer, stray, faults>>

\* The row of the models: what is not known yet is asked of the provider.
ChooseModel ==
  /\ InPanel /\ Pressed
  /\ IF failedList = ListKey
       THEN edit' = "model" /\ UNCHANGED <<lists, failedList>>
     ELSE IF cfg.prov = Off
       THEN UNCHANGED <<edit, lists, failedList>>
     ELSE IF cfg.prov \in Cloud /\ ~cfg.ai.key
       THEN edit' = "key" /\ UNCHANGED <<lists, failedList>>
     ELSE lists' = lists \cup {cfg.prov} /\ failedList' = None /\ UNCHANGED edit
  /\ UNCHANGED <<cfg, file, saved, built, modal, saving, adopted, offer, down, stray, faults>>

\* The other rows change in place.
Changed ==
  \/ \E p \in Providers \ {cfg.prov} :
       /\ Applied([Switch(cfg, p) EXCEPT !.on = @ /\ p # Off])
       /\ failedList' = None
  \/ \E c \in {[cfg EXCEPT !.on = ~@], [cfg EXCEPT !.look = ~@]}
         \cup {[cfg EXCEPT !.pol = q] : q \in Policies \ {cfg.pol}} :
       Applied(c) /\ UNCHANGED failedList

Adjust ==
  /\ InPanel /\ Pressed /\ Changed
  /\ UNCHANGED <<file, saved, modal, edit, saving, adopted, lists, offer, down, stray, faults>>

EditKey ==
  /\ InPanel /\ Pressed /\ edit' = "key"
  /\ UNCHANGED <<cfg, file, saved, built, modal, saving, adopted, lists, failedList,
                 offer, down, stray, faults>>

\* A row that is typed.  A key for a cloud provider goes straight on to its
\* models.
CommitEdit ==
  /\ modal = "settings" /\ edit # None /\ saving = None /\ Pressed
  /\ edit' = None
  /\ \/ /\ edit = "model"
        /\ \E v \in {cfg.prov, None} : Applied([cfg EXCEPT !.ai.model = v])
        /\ UNCHANGED <<lists, failedList>>
     \/ /\ edit = "key"
        /\ \E k \in BOOLEAN :
             /\ Applied([cfg EXCEPT !.ai.key = k])
             /\ failedList' = None
             /\ lists' = IF k /\ cfg.prov \in Cloud THEN lists \cup {cfg.prov} ELSE lists
  /\ UNCHANGED <<file, saved, modal, saving, adopted, offer, down, stray, faults>>

CancelEdit ==
  /\ modal = "settings" /\ edit # None /\ saving = None /\ Pressed /\ edit' = None
  /\ UNCHANGED <<cfg, file, saved, built, modal, saving, adopted, lists, failedList,
                 offer, down, stray, faults>>

\* Every other key of the row is text.
SettingsEditKey == CommitEdit \/ CancelEdit

\* applyAIModels: the list opens its picker over the panel, whatever the panel
\* is at by now; a failed one leads to typing, a refused key to the key's row.
Listed(p) ==
  /\ p \in lists /\ lists' = lists \ {p}
  /\ IF modal # "settings" THEN UNCHANGED <<modal, edit, offer, failedList, faults>>
     ELSE \E answer \in ListModels(p) :
       \/ /\ answer = "names"
          /\ modal' = "ai-models" /\ offer' = p /\ failedList' = None /\ UNCHANGED <<edit, faults>>
       \/ /\ answer = "unavailable"
          /\ Fault /\ edit' = "model" /\ failedList' = ListKey /\ UNCHANGED <<modal, offer>>
       \/ /\ answer = "refused"
          /\ Fault /\ failedList' = None /\ UNCHANGED <<modal, edit, offer>>
  /\ UNCHANGED <<cfg, file, saved, built, saving, adopted, down, stray, keys>>

\* A choice of the picker, its "type a model name", or Esc.
PickModel ==
  /\ modal = "ai-models" /\ saving = None /\ Pressed
  /\ modal' = "settings"
  /\ \/ Applied([cfg EXCEPT !.ai.model = offer]) /\ UNCHANGED edit
     \/ edit' = "model" /\ UNCHANGED <<cfg, built>>
     \/ UNCHANGED <<cfg, built, edit>>
  /\ UNCHANGED <<file, saved, saving, adopted, lists, failedList, offer, down, stray, faults>>

\* Ctrl+S.  A local provider that is newly chosen must have answered.
Save ==
  /\ InPanel /\ Pressed /\ cfg # saved
  /\ ~(cfg.prov # saved.prov /\ cfg.prov \in down)
  /\ SaveConfig(cfg) /\ saved' = cfg
  /\ UNCHANGED <<cfg, file, built, modal, edit, adopted, lists, failedList, offer, down,
                 stray, faults>>

\* Esc.
Discard ==
  /\ InPanel /\ Pressed
  /\ Applied(Restored) /\ modal' = ""
  /\ UNCHANGED <<file, saved, edit, saving, adopted, lists, failedList, offer, down, stray, faults>>

\* A command of the palette that toggles one setting and saves it.
Toggle ==
  /\ modal = "" /\ saving = None /\ Pressed
  /\ SaveConfig([cfg EXCEPT !.look = ~@])
  /\ UNCHANGED <<cfg, file, saved, built, modal, edit, adopted, lists, failedList, offer,
                 down, stray, faults>>

\* devicesMsg: the only phone that is online is adopted, with what is in force.
Adopt ==
  /\ ~adopted /\ saving = None
  /\ adopted' = TRUE /\ SaveConfig([cfg EXCEPT !.phone = TRUE])
  /\ UNCHANGED <<cfg, file, saved, built, modal, edit, lists, failedList, offer, down,
                 stray, keys, faults>>

\* config.Save replaces the file or fails, and configMsg puts in force what was
\* written.
Written ==
  /\ saving # None /\ saving' = None
  /\ \/ /\ WriteFile(saving) /\ Applied(saving)
        /\ stray' = (stray \/ (modal # "" /\ saving # saved))
        /\ UNCHANGED faults
     \/ Fault /\ stray' = TRUE /\ UNCHANGED <<file, cfg, built>>
  /\ UNCHANGED <<saved, modal, edit, adopted, lists, failedList, offer, down, keys>>

SettingsNext ==
  \/ OpenSettings \/ ChooseModel \/ Adjust \/ EditKey \/ SettingsEditKey
  \/ \E p \in Providers : Listed(p)
  \/ PickModel \/ Save \/ Discard \/ Toggle \/ Adopt \/ Written
-----------------------------------------------------------------------------
Config == [on : BOOLEAN, prov : Providers, ai : Profile, profiles : [Providers -> Profile],
           pol : Policies, look : BOOLEAN, phone : BOOLEAN]

SettingsOK ==
  /\ {cfg, file, saved} \subseteq Config /\ saving \in Config \cup {None}
  /\ built \in Providers /\ edit \in {None, "model", "key"}
  /\ modal \in {"", "settings", "ai-models", "ai-review", "ai-edit"}
  /\ lists \subseteq Providers \ {Off} /\ offer \in Providers /\ down \subseteq Local

\* "Nothing is written until Ctrl+S saves the whole panel; Esc closes it and puts
\* back what was last saved": with the panel closed and no write under way, what
\* is in force is what the file holds, the profiles of all providers included.
\* (Not after a failed write, nor when a draft got out: by a review that opened
\* over the panel, or by a write the panel did not ask for that ended under it.)
InForceIsFile ==
  (modal \in {"", "ai-review", "ai-edit"} /\ saving = None /\ ~stray) => cfg = file
=============================================================================
