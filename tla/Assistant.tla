------------------------------ MODULE Assistant ------------------------------
(***************************************************************************)
(* The writing assistant (internal/app/ai.go, internal/ai): a text goes to *)
(* the provider the settings name, if the privacy policy of the            *)
(* conversation permits it, and what comes back is a set of changes the    *)
(* user accepts or rejects one by one.                                     *)
(*                                                                         *)
(* The request runs beside the event loop, which goes on handling keys:    *)
(* the user types, sends, opens another conversation, asks again or        *)
(* changes the settings meanwhile.  The epoch tells an answer that is      *)
(* still wanted from one that is not.                                      *)
(*                                                                         *)
(* A text is what the user typed, `typed` (0 is nothing), with the         *)
(* suggestions applied to it, `fix`.  A suggestion of a review is a spot   *)
(* of the text; a rewrite of the whole text is the suggestion `Whole`.     *)
(* What is accepted goes to the editor and not to m.drafts, as in the      *)
(* code.  A selection is one spot.  The undo window is left to Compose.    *)
(***************************************************************************)
EXTENDS Settings, Sequences

CONSTANTS
  Convs,         \* conversations, each with a recipient of its own
  Typed,         \* texts a user types
  Spots, Whole   \* what a provider may suggest

VARIABLES
  conv,          \* the open conversation
  editor,        \* the text in the composer
  sel,           \* the spot that is selected, or None
  drafts,        \* m.drafts
  policies,      \* ai_preferences: per conversation the thread's and the contact's override
  epoch,         \* m.aiEpoch
  busy,          \* m.aiBusy
  reqs,          \* requests at the provider, or answered and not yet handled
  review,        \* m.review
  sending,       \* the message being handed over, None unless m.sending
  moved          \* history: the editor was emptied under the open review

writing == <<conv, editor, sel, drafts, policies, epoch, busy, reqs, review, sending, moved>>
assistant == <<settings, writing, keys, faults>>

Text == [typed : {0} \cup Typed, fix : SUBSET (Spots \cup {Whole})]
Nothing == [typed |-> 0, fix |-> {}]
Overrides == [thread : Policies \cup {None}, contact : Policies \cup {None}]

AssistantInit(c) ==
  /\ SettingsInit(c)
  /\ conv \in Convs /\ editor = Nothing /\ sel = None
  /\ drafts = [d \in Convs |-> Nothing]
  /\ policies = [d \in Convs |-> [thread |-> None, contact |-> None]]
  /\ epoch = 0 /\ busy = FALSE /\ reqs = {} /\ review = None
  /\ sending = None /\ moved = FALSE

\* Mutant of ResolvePolicy: the contact's override beats the thread's.
ResolvePolicy_ContactFirst(global, p) ==
  IF p.contact # None THEN p.contact ELSE IF p.thread # None THEN p.thread ELSE global
\* A thread's override beats a contact's, which beats the default.
ResolvePolicy(global, p) ==
  IF p.thread # None THEN p.thread ELSE IF p.contact # None THEN p.contact ELSE global

Allowed(policy, provider) ==
  \/ policy = "local" /\ provider \in Local
  \/ policy = "cloud" /\ provider # Off

\* aiPolicy, of the open conversation.
AIPolicy == ResolvePolicy(cfg.pol, policies[conv])

\* What a request is about: the selected words, as they are, or the text.
Words(t, s) == [at |-> s, fixed |-> s \in t.fix]
Target(kind) == IF kind = "selection" THEN Words(editor, sel) ELSE editor

\* Mutant of CancelAI: the answer of the cancelled request is still awaited.
CancelAI_KeepEpoch(n) == epoch' = epoch + (n - 1) /\ reqs' = {[r EXCEPT !.dead = TRUE] : r \in reqs}
\* cancelAI, when a request is awaited, and n - 1 further epochs.
CancelAI(n) == epoch' = epoch + n /\ reqs' = {[r EXCEPT !.dead = TRUE] : r \in reqs}

Configured == cfg.on /\ cfg.prov # Off /\ cfg.ai.model # None
-----------------------------------------------------------------------------
\* Ctrl+G gives up the pending request before it looks whether a new one may be
\* made; the commands of the palette give it up only for a new one.
Refused ==
  \/ ~Configured
  \/ ~Allowed(AIPolicy, cfg.prov)
  \/ editor.typed = 0

GiveUp ==
  /\ modal = "" /\ Pressed /\ Refused /\ busy
  /\ busy' = FALSE /\ CancelAI(1)
  /\ UNCHANGED <<settings, faults, conv, editor, sel, drafts, policies, review, sending, moved>>

\* startAI.
StartAI(kind) ==
  /\ modal = "" /\ Pressed /\ ~Refused
  /\ kind = "selection" <=> sel # None /\ kind # "review"
  /\ busy' = TRUE
  /\ LET gone == IF busy THEN 2 ELSE 1
         asked == [epoch |-> epoch + gone, kind |-> kind, original |-> Target(kind), to |-> built,
                   said |-> <<policies[conv].thread, policies[conv].contact, cfg.pol>>,
                   dead |-> FALSE]
     IN /\ epoch' = epoch + gone
        /\ reqs' = {[r EXCEPT !.dead = @ \/ busy] : r \in reqs} \cup {asked}
  /\ UNCHANGED <<settings, faults, conv, editor, sel, drafts, policies, review, sending, moved>>

\* Mutant of Unchanged: the answer is taken for the text as it is now.
Unchanged_Assumed(r) == r.kind = "selection" => sel # None
\* The offsets of the answer still describe the text.
Unchanged(r) ==
  IF r.kind = "selection" THEN sel # None /\ Words(editor, sel) = r.original
  ELSE editor = r.original

\* A provider that fails, or an answer that is cut or malformed, suggests
\* nothing; parseChanges keeps what can be found in the text and changes it.
Suggested(r) ==
  CASE r.kind = "review"    -> SUBSET (Spots \ r.original.fix)
    [] r.kind = "rewrite"   -> {{}, {Whole}}
    [] r.kind = "selection" -> {{}, {r.original.at}}

\* What comes back of a request; Disabled{} answers nothing.
Chat(r) == IF r.to = Off THEN {{}} ELSE Suggested(r)

\* An open review: nothing is accepted yet.
NewReview(r, changes) ==
  [kind |-> r.kind, original |-> r.original, changes |-> changes, accepted |-> {}, dead |-> r.dead,
   used |-> FALSE]

\* handleAIResult.  The review opens over whatever is open.
Result(r) ==
  /\ r \in reqs /\ reqs' = reqs \ {r}
  /\ IF r.epoch # epoch THEN UNCHANGED <<busy, review, modal, moved, stray>>
     ELSE /\ busy' = FALSE
          /\ \E changes \in Chat(r) :
               IF changes = {} \/ ~Unchanged(r) THEN UNCHANGED <<review, modal, moved, stray>>
               ELSE /\ review' = NewReview(r, changes)
                    /\ modal' = "ai-review" /\ moved' = FALSE
                    /\ stray' = (stray \/ modal \in {"settings", "ai-models"})
  /\ UNCHANGED <<cfg, file, saved, built, edit, saving, adopted, lists, failedList, offer, down,
                 keys, faults, conv, editor, sel, drafts, policies, epoch, sending>>

\* ai.Apply: the original with the changes that are accepted.
Apply(v) == [v.original EXCEPT !.fix = @ \cup v.accepted]

\* The selection is replaced and gone; without one nothing happens.
ApplySelection(fix) ==
  IF sel = None THEN UNCHANGED <<editor, sel>>
  ELSE editor' = [editor EXCEPT !.fix = (@ \ {sel}) \cup fix] /\ sel' = None

\* applyReview: the text is computed from the original and what is accepted so
\* far.
Applies(v) ==
  IF v.kind # "selection"
    THEN editor' = Apply(v) /\ sel' = None
    ELSE ApplySelection(v.accepted)

\* "a" and "r" decide one change, "A" accepts all and closes.
Decide ==
  /\ modal = "ai-review" /\ saving = None /\ Pressed
  /\ \E v \in {[review EXCEPT !.accepted = @ \cup {c}, !.used = TRUE] : c \in review.changes}
          \cup {[review EXCEPT !.accepted = @ \ {c}, !.used = TRUE] : c \in review.changes} :
       review' = v /\ Applies(v)
  /\ UNCHANGED <<settings, faults, conv, drafts, policies, epoch, busy, reqs, sending, moved>>

AcceptAll ==
  /\ modal = "ai-review" /\ saving = None /\ Pressed
  /\ Applies([review EXCEPT !.accepted = review.changes])
  /\ modal' = "" /\ review' = None /\ moved' = FALSE
  /\ UNCHANGED <<cfg, file, saved, built, edit, saving, adopted, lists, failedList, offer, down,
                 stray, faults, conv, drafts, policies, epoch, busy, reqs, sending>>

CloseReview ==
  /\ modal = "ai-review" /\ saving = None /\ Pressed
  /\ modal' = "" /\ review' = None /\ moved' = FALSE
  /\ UNCHANGED <<cfg, file, saved, built, edit, saving, adopted, lists, failedList, offer, down,
                 stray, faults, conv, editor, sel, drafts, policies, epoch, busy, reqs, sending>>

\* "e" edits a suggestion, Enter or Esc goes back to the review.
EditSuggestion ==
  /\ saving = None /\ Pressed
  /\ \/ modal = "ai-review" /\ modal' = "ai-edit"
     \/ modal = "ai-edit" /\ modal' = "ai-review"
  /\ UNCHANGED <<cfg, file, saved, built, edit, saving, adopted, lists, failedList, offer, down,
                 stray, faults, writing>>
-----------------------------------------------------------------------------
Type ==
  /\ modal = "" /\ sending = None /\ Pressed
  /\ \/ \E t \in {0} \cup Typed :
          editor' = [typed |-> t, fix |-> {}] /\ sel' = None /\ drafts' = [drafts EXCEPT ![conv] = editor']
     \/ editor.typed # 0 /\ sel' \in Spots \cup {None} /\ UNCHANGED <<editor, drafts>>
  /\ UNCHANGED <<settings, faults, conv, policies, epoch, busy, reqs, review, sending, moved>>

\* openThread puts the draft of the conversation into the editor; a request that
\* is under way is not given up.
OpenThread ==
  /\ modal = "" /\ Pressed
  /\ conv' \in Convs \ {conv} /\ editor' = drafts[conv'] /\ sel' = None
  /\ UNCHANGED <<settings, faults, drafts, policies, epoch, busy, reqs, review, sending, moved>>

Send ==
  /\ modal = "" /\ sending = None /\ editor.typed # 0 /\ Pressed
  /\ drafts' = [drafts EXCEPT ![conv] = editor]
  /\ sending' = [to |-> conv, body |-> editor]
  /\ UNCHANGED <<settings, faults, conv, editor, sel, policies, epoch, busy, reqs, review, moved>>

\* outgoingMsg: a message that went takes its text out of the editor.
Sent ==
  /\ sending # None /\ sending' = None
  /\ \/ Fault /\ UNCHANGED <<drafts, editor, sel, moved>>
     \/ /\ drafts' = [drafts EXCEPT ![sending.to] = Nothing] /\ UNCHANGED faults
        /\ IF conv = sending.to
             THEN editor' = Nothing /\ sel' = None /\ moved' = (review # None)
             ELSE UNCHANGED <<editor, sel, moved>>
  /\ UNCHANGED <<settings, keys, conv, policies, epoch, busy, reqs, review>>

\* Stores an override; None, "inherit", clears it.
SetAIPolicy(scope, p) == policies' = [policies EXCEPT ![conv][scope] = p]

\* commitAIPolicy, for the thread or the contact.
CommitAIPolicy ==
  /\ modal = "" /\ Pressed
  /\ \E scope \in {"thread", "contact"}, p \in Policies \cup {None} : SetAIPolicy(scope, p)
  /\ UNCHANGED <<settings, faults, conv, editor, sel, drafts, epoch, busy, reqs, review, sending, moved>>

AssistantNext ==
  \/ SettingsNext /\ UNCHANGED writing
  \/ GiveUp \/ \E kind \in {"review", "rewrite", "selection"} : StartAI(kind)
  \/ \E r \in reqs : Result(r)
  \/ Decide \/ AcceptAll \/ CloseReview \/ EditSuggestion
  \/ Type \/ OpenThread \/ Send \/ Sent \/ CommitAIPolicy
-----------------------------------------------------------------------------
Kinds == {"review", "rewrite", "selection"}
Original == Text \cup [at : Spots, fixed : BOOLEAN]
Request == [epoch : Nat, kind : Kinds, original : Original, to : Providers,
            said : Seq(Policies \cup {None}), dead : BOOLEAN]
Review == [kind : Kinds, original : Original, changes : SUBSET (Spots \cup {Whole}),
           accepted : SUBSET (Spots \cup {Whole}), dead : BOOLEAN, used : BOOLEAN]

AssistantOK ==
  /\ SettingsOK
  /\ conv \in Convs /\ editor \in Text /\ sel \in Spots \cup {None}
  /\ drafts \in [Convs -> Text] /\ policies \in [Convs -> Overrides]
  /\ epoch \in Nat /\ busy \in BOOLEAN /\ reqs \subseteq Request
  /\ review \in Review \cup {None} /\ (modal \in {"ai-review", "ai-edit"} => review # None)
  /\ sending = None \/ sending \in [to : Convs, body : Text]

\* "A conversation set to `local` never falls back to a cloud provider": a text
\* is at a provider only if the nearest of the three policies let that provider
\* have it when the request was made.
PolicyRespected ==
  \A r \in reqs : r.to # Off =>
    LET near == CHOOSE i \in 1 .. 3 : r.said[i] # None /\ \A j \in 1 .. (i - 1) : r.said[j] = None
    IN r.said[near] # "disabled" /\ (r.to \in Cloud => r.said[near] = "cloud")

\* "If the draft changed while the request was in flight ... the suggestion is
\* dropped rather than misapplied": an open review is about the text that is in
\* the composer, with what was accepted of it (unless a message that was on its
\* way took its text out of the composer meanwhile).
NoStaleReview ==
  (modal \in {"ai-review", "ai-edit"} /\ ~moved) =>
    IF review.kind = "selection"
      THEN ~review.used => sel # None /\ Words(editor, sel) = review.original
      ELSE editor = Apply(review)

\* "Ignore results that arrive after cancellation": a review is never of a request
\* that was given up.
CancelledStays == review # None => ~review.dead
=============================================================================
