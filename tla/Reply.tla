-------------------------------- MODULE Reply ---------------------------------
(***************************************************************************)
(* The reply window, `tidesms reply ID` (internal/reply/reply.go), and the *)
(* send it shares with `tidesms api send` (internal/api/api.go), beside a  *)
(* TideSMS that runs at the same time.                                     *)
(*                                                                         *)
(* The window holds a reply for the undo window on a chain of timer ticks, *)
(* then stores it, hands it to the phone and records the outcome, and      *)
(* closes a moment after it was taken.  Every process that opens the       *)
(* database meanwhile turns "sending" into "unknown".  The draft is a row  *)
(* both programs write, and the later revision stays; the running TideSMS  *)
(* read it when it started.                                                *)
(*                                                                         *)
(* A text is a value; pictures, marking read and the lists of the API are  *)
(* left out.  Drafts are always written.                                   *)
(***************************************************************************)
EXTENDS Naturals, FiniteSets

CONSTANTS
  Texts,         \* what can be in the composer
  Empty,         \* the empty composer
  MaxKeys,       \* bound: keys pressed in either program
  MaxFaults,     \* bound: what fails, and processes that open the database
  None

VARIABLES
  window,        \* "open" or "closed"
  editor,        \* the composer
  draft,         \* m.draft
  row,           \* drafts: the conversation's row, and which program wrote it
  app,           \* m.drafts of the TideSMS that runs beside
  undo,          \* composer.undo_seconds is not 0
  sending,       \* m.sending
  hold,          \* m.holdUntil is set
  holdSeq,       \* m.holdSeq
  ticks,         \* timers of the undo window, by their seq
  closing,       \* the timer that closes the window runs
  sends,         \* deliveries under way: of which Enter, the text, and how far
  messages,      \* messages: the status of the reply to each Enter
  handed,        \* history: how often the phone took the reply to each Enter
  press,         \* history: the Enter the window acts on
  undone,        \* history: Enters that were taken back
  keys, faults   \* how much was pressed, and what failed, for the bounds

draftVars == <<draft, row, app>>
timer == <<sending, hold, holdSeq, ticks, closing>>
outcome == <<messages, handed>>
replyVars == <<window, editor, draft, row, app, undo, sending, hold, holdSeq, ticks, closing, sends,
               messages, handed, press, undone, keys, faults>>

Presses == 1..MaxKeys
Fault == faults < MaxFaults /\ faults' = faults + 1
Pressed == keys < MaxKeys /\ keys' = keys + 1
Draft(b, r) == [body |-> b, rev |-> r]

ReplyInit ==
  /\ window = "open"
  /\ \E b \in Texts \cup {Empty} :
       /\ editor = b /\ draft = Draft(b, 1)
       /\ row = [body |-> b, rev |-> 1, by |-> "window"]
       /\ app \in {Draft(b, 1), Draft(Empty, 0)}
  /\ undo \in BOOLEAN /\ sending = FALSE /\ hold = FALSE /\ holdSeq = 0 /\ ticks = {}
  /\ closing = FALSE /\ sends = {}
  /\ messages = [n \in Presses |-> None] /\ handed = [n \in Presses |-> 0]
  /\ press = 0 /\ undone = {} /\ keys = 0 /\ faults = 0

\* Store.SaveDraft: an older revision writes nothing.
SaveRow(d, who) ==
  row' = IF d.rev >= row.rev THEN [body |-> d.body, rev |-> d.rev, by |-> who] ELSE row

\* saveDraft, of the text `b`.
SaveDraft(b) ==
  IF b = draft.body THEN UNCHANGED <<draft, row>>
  ELSE draft' = Draft(b, draft.rev + 1) /\ SaveRow(draft', "window")

\* A key that edits, and Shift+Enter, which inserts its newline without saving.
Edit ==
  /\ window = "open" /\ ~sending /\ Pressed
  /\ editor' \in (Texts \cup {Empty}) \ {editor}
  /\ \/ SaveDraft(editor')
     \/ editor' # Empty /\ UNCHANGED <<draft, row>>
  /\ UNCHANGED <<undo, window, app, timer, sends, outcome, press, undone, faults>>

\* Mutant of Leave: what every key saved is taken to be all there is.
Leave_Saved ==
  /\ window = "open" /\ ~sending /\ Pressed
  /\ window' = "closed" /\ sends' = {}
  /\ UNCHANGED <<undo, editor, draftVars, timer, outcome, press, undone, faults>>
\* Esc, Ctrl+Q or Vim's :q.
Leave ==
  /\ window = "open" /\ ~sending /\ Pressed
  /\ SaveDraft(editor)
  /\ window' = "closed" /\ sends' = {}
  /\ UNCHANGED <<undo, editor, app, timer, outcome, press, undone, faults>>

Delivery(n) == [press |-> n, text |-> editor, step |-> "store"]
\* Mutant of Deliver: a timer of the undo window is still good for a delivery.
Deliver_KeepsHold(n) ==
  /\ UNCHANGED <<hold, holdSeq>>
  /\ sends' = sends \cup {Delivery(n)}
\* deliver: the undo window is over.
Deliver(n) ==
  /\ hold' = FALSE /\ holdSeq' = holdSeq + 1
  /\ sends' = sends \cup {Delivery(n)}

Send ==
  /\ window = "open" /\ ~sending /\ editor # Empty /\ Pressed
  /\ SaveDraft(editor)
  /\ sending' = TRUE /\ press' = keys'
  /\ IF undo
       THEN /\ hold' = TRUE /\ holdSeq' = holdSeq + 1 /\ ticks' = ticks \cup {holdSeq'}
            /\ UNCHANGED sends
       ELSE Deliver(keys') /\ UNCHANGED ticks
  /\ UNCHANGED <<undo, window, editor, app, closing, outcome, undone, faults>>

\* holdMsg: the countdown goes on, the reply goes, or the timer is of a window that is over.
Tick(s) ==
  /\ window = "open"
  /\ IF s = holdSeq /\ sending /\ hold
       THEN \/ UNCHANGED <<ticks, hold, holdSeq, sends>>
            \/ Deliver(press) /\ ticks' = ticks \ {s}
       ELSE ticks' = ticks \ {s} /\ UNCHANGED <<hold, holdSeq, sends>>
  /\ UNCHANGED <<undo, window, editor, draftVars, sending, closing, outcome, press, undone,
                 keys, faults>>

\* Esc in the undo window, and Enter, which skips it.
TakeBack ==
  /\ window = "open" /\ sending /\ hold /\ Pressed
  /\ sending' = FALSE /\ hold' = FALSE /\ holdSeq' = holdSeq + 1 /\ undone' = undone \cup {press}
  /\ UNCHANGED <<undo, window, editor, draftVars, ticks, closing, sends, outcome, press,
                 faults>>
SendNow ==
  /\ window = "open" /\ sending /\ hold /\ Pressed
  /\ Deliver(press)
  /\ UNCHANGED <<undo, window, editor, draftVars, sending, ticks, closing, outcome, press,
                 undone, faults>>
-----------------------------------------------------------------------------
(* api.Send: the message is stored, handed over, and its outcome stored *)

To(s, step) == sends' = (sends \ {s}) \cup {[s EXCEPT !.step = step]}

Store(s) ==
  /\ s.step = "store"
  /\ \/ messages' = [messages EXCEPT ![s.press] = "sending"] /\ To(s, "hand") /\ UNCHANGED faults
     \/ Fault /\ To(s, "failed") /\ UNCHANGED messages
  /\ UNCHANGED <<undo, window, editor, draftVars, timer, handed, press, undone, keys>>

\* The phone takes it, or the call fails, whether or not the phone has it.
Hand(s) ==
  /\ s.step = "hand"
  /\ \/ handed' = [handed EXCEPT ![s.press] = @ + 1] /\ To(s, "taken") /\ UNCHANGED faults
     \/ /\ Fault /\ To(s, "refused")
        /\ handed' \in {handed, [handed EXCEPT ![s.press] = @ + 1]}
  /\ UNCHANGED <<undo, window, editor, draftVars, timer, messages, press, undone, keys>>

\* MessageStatus; a reply that went but could not be recorded is an error too.
Record(s) ==
  /\ s.step \in {"taken", "refused"}
  /\ \/ /\ messages' = [messages EXCEPT ![s.press] = IF s.step = "taken" THEN "submitted" ELSE "failed"]
        /\ To(s, IF s.step = "taken" THEN "sent" ELSE "failed") /\ UNCHANGED faults
     \/ Fault /\ To(s, "failed") /\ UNCHANGED messages
  /\ UNCHANGED <<undo, window, editor, draftVars, timer, handed, press, undone, keys>>

\* sentMsg: the draft is emptied and the window closes shortly; or the reply stays.
Answered(s) ==
  /\ s.step \in {"sent", "failed"}
  /\ sends' = sends \ {s} /\ sending' = FALSE
  /\ IF s.step = "sent"
       THEN /\ draft' = Draft(Empty, draft.rev + 1) /\ SaveRow(draft', "window")
            /\ closing' = TRUE
       ELSE UNCHANGED <<draft, row, closing>>
  /\ UNCHANGED <<undo, window, editor, app, hold, holdSeq, ticks, outcome, press, undone,
                 keys, faults>>

\* closeMsg ends the program, and with it what it has under way.
Close ==
  /\ window = "open" /\ closing
  /\ window' = "closed" /\ sends' = {}
  /\ UNCHANGED <<undo, editor, draftVars, timer, outcome, press, undone, keys, faults>>
-----------------------------------------------------------------------------
(* Beside the window *)

\* storage.Open, by any other program.
OpenStore ==
  /\ Fault
  /\ messages' = [n \in Presses |-> IF messages[n] = "sending" THEN "unknown" ELSE messages[n]]
  /\ UNCHANGED <<undo, window, editor, draftVars, timer, sends, handed, press, undone,
                 keys>>

\* trackChange of the running TideSMS.
AppTypes ==
  /\ Pressed
  /\ \E b \in (Texts \cup {Empty}) \ {app.body} : app' = Draft(b, app.rev + 1)
  /\ UNCHANGED <<undo, window, editor, draft, row, timer, sends, outcome, press, undone,
                 faults>>

\* Its saveDraft once the user pauses, and FlushDrafts when it quits.
AppSaves ==
  /\ SaveRow(app, "app") /\ row' # row
  /\ UNCHANGED <<undo, window, editor, draft, app, timer, sends, outcome, press, undone,
                 keys, faults>>
-----------------------------------------------------------------------------
ReplyNext ==
  \/ Edit \/ Leave \/ Send \/ TakeBack \/ SendNow \/ Close \/ OpenStore \/ AppTypes \/ AppSaves
  \/ \E s \in ticks : Tick(s)
  \/ window = "open" /\ \E s \in sends : Store(s) \/ Hand(s) \/ Record(s) \/ Answered(s)
-----------------------------------------------------------------------------
(* Properties *)

\* TypeOK: every variable keeps to its values; a reply is under way only while
\* the window says so.
ReplyOK ==
  /\ window \in {"open", "closed"} /\ editor \in Texts \cup {Empty}
  /\ {draft.body, row.body, app.body} \subseteq Texts \cup {Empty}
  /\ {draft.rev, row.rev, app.rev, holdSeq} \subseteq 0..3 * MaxKeys + 2
  /\ {undo, sending, hold, closing} \subseteq BOOLEAN
  /\ hold => sending
  /\ window = "open" /\ sends # {} => sending
  /\ messages \in [Presses -> {None, "sending", "unknown", "submitted", "failed"}]
  /\ press \in 0..MaxKeys /\ undone \subseteq Presses /\ keys <= MaxKeys /\ faults <= MaxFaults

\* Every reply is accounted for.  The phone gets one at most once for the Enter
\* that sent it, never after Esc took it back, and only after it was stored.
\* Once the window is closed a text that never went is in the drafts table,
\* unless the TideSMS beside it wrote a later draft there.
ReplyAccounted ==
  /\ \A n \in Presses :
       /\ handed[n] <= 1 /\ (n \in undone => handed[n] = 0)
       /\ handed[n] = 1 => messages[n] # None
  /\ window = "closed" /\ (\A n \in Presses : handed[n] = 0)
       => row.body = editor \/ row.by = "app"
===============================================================================
