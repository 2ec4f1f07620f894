------------------------------ MODULE Compose ------------------------------
(***************************************************************************)
(* Writing and sending in the terminal client: the composer and its        *)
(* drafts, the undo window, the prompts of a send, the two halves of a     *)
(* direct send, filing a message for later, retry, and what a crash or a   *)
(* quit leaves behind (internal/app: outbox.go, history.go, model.go).     *)
(*                                                                         *)
(* The event loop handles one key or message at a time; one action is one  *)
(* handler.  Commands run on goroutines beside it: a goroutine is a record *)
(* in `jobs` or `saves`, its SQL statements and its call of the phone are  *)
(* actions of their own, and its answer is handled by the loop later.      *)
(*                                                                         *)
(* One person is followed from a bare number over the local conversation   *)
(* TideSMS makes for it to the thread the phone reports; further           *)
(* conversations are in Others.  Texts are opaque; pictures are left out.  *)
(* What becomes of a filed message is the subject of Outbox.               *)
(***************************************************************************)
EXTENDS Naturals, FiniteSets

CONSTANTS
  Others,      \* conversations with other people
  Texts,       \* what a user may type
  Empty,       \* the empty composer
  UndoWindow,  \* composer.undo_seconds > 0
  OpenAtStart, \* the client is started with --open
  Presses,     \* how often send may be pressed (a bound)
  Allowed,     \* how often each kind of outside event may happen: one of these
  None

\* Counted events: opening a conversation, typing, pressing send, a command that puts text into the
\* composer (quote, retry, editing an outbox entry), and a trouble: a failed SQL
\* statement, an answer lost after the phone accepted, a stop, a foreign Open.
Events == {"open", "type", "send", "command", "trouble"}

ASSUME ComposeAssumption ==
  /\ IsFiniteSet(Others)
  /\ {"number", "local", "thread", "person", None} \cap Others = {}
  /\ None \notin {"number", "local", "thread", "person"}
  /\ Empty \notin Texts
  /\ UndoWindow \in BOOLEAN /\ OpenAtStart \in BOOLEAN
  /\ Presses \in Nat
  /\ \A most \in Allowed : most \in [Events -> Nat] /\ most["send"] <= Presses
  /\ None \notin Nat

\* Keys of drafts: a bare number, the local conversation made for it, the
\* phone's thread with the same person, and the conversations of others.
Keys == {"number", "local", "thread"} \cup Others

\* Whom the text of a conversation goes to.
To(k) == IF k \in Others THEN k ELSE "person"

\* Every press of send is numbered; the number is the id of a fresh message
\* and the sequence number of its undo window.
Sends == 1 .. Presses

VARIABLES
  drafts,    \* m.drafts
  editor,    \* text in the composer
  at,        \* m.draftKey()
  retry,     \* h.retryID
  pending,   \* m.pending
  hold,      \* m.hold
  ticks,     \* undo windows whose tick is still to come
  modal,     \* the prompt on screen
  sending,   \* m.sending: the composer is locked
  known,     \* the person's conversations in h.threads
  timers,    \* debounce timers
  saves,     \* drafts being saved by a goroutine of their own
  jobs,      \* goroutines of sends and outbox edits
  up,        \* the client is running
  loaded,    \* m.loaded: the drafts have been read
  opening,   \* m.startThread is still to be opened
  stored,    \* table drafts
  rows,      \* locally composed rows of table messages
  inDb,      \* the person's rows of table threads
  filed,     \* rows of outgoing_queue and scheduled_messages
  pressed,   \* presses of send so far
  undone,    \* presses the user took back
  went,      \* what the phone accepted, and what was filed for later
  left       \* outside events that may still happen

screen == <<editor, at, retry, modal>>
sender == <<pending, hold, ticks, sending>>
work   == <<timers, saves, jobs>>
tables == <<stored, rows, inDb, filed>>
ghosts == <<pressed, undone, went>>
start  == <<up, loaded, opening>>
vars   == <<drafts, screen, sender, known, work, start, tables, ghosts, left>>

Bodies == Texts \cup {Empty}

Draft == [body : Bodies, rev : Nat]

NoDraft == [body |-> Empty, rev |-> 0]

\* A message captured by prepareSend, with the draft it was captured from.
Captured == [n : Sends, id : Sends, key : Keys, body : Texts, rev : Nat]

NoSend == [n |-> None]

\* The undo window; `retry` is the failed message the send was to replace.
Hold == [n : Sends, retry : Sends \cup {None}]

NoHold == [n |-> None]

RowStates == {"sending", "submitted", "failed", "unknown", "queued", "scheduled"}

NoRow == [status |-> "none", to |-> None, body |-> Empty]

Row == [status : RowStates, to : Others \cup {"person"}, body : Texts] \cup {NoRow}

Filed == [table : {"queue", "schedule"}, id : Sends, to : Others \cup {"person"}, body : Texts]

Steps == {"save", "merge", "mark", "stored", "call", "status", "file", "remove", "erase", "done"}

Job == [kind : {"send", "queue", "schedule", "edit"}, step : Steps, ok : BOOLEAN,
        captured : Captured]

TypeOK ==
  /\ drafts \in [Keys -> Draft] /\ stored \in [Keys -> Draft]
  /\ editor \in Bodies /\ at \in Keys \cup {None} /\ retry \in Sends \cup {None}
  /\ pending \in Captured \cup {NoSend} /\ hold \in Hold \cup {NoHold}
  /\ ticks \subseteq Sends /\ modal \in {"none", "offline", "schedule"}
  /\ sending \in BOOLEAN /\ up \in BOOLEAN
  /\ loaded \in BOOLEAN /\ opening \in BOOLEAN
  /\ known \subseteq {"local", "thread"} /\ inDb \subseteq {"local", "thread"}
  /\ timers \subseteq [key : Keys, rev : Nat]
  /\ saves \subseteq [key : Keys, draft : Draft]
  /\ jobs \subseteq Job
  /\ rows \in [Sends -> Row] /\ filed \subseteq Filed
  /\ pressed \in 0 .. Presses /\ undone \subseteq Sends
  /\ went \subseteq [n : Sends, way : {"send", "queue", "schedule"}, id : Sends, to : Others \cup {"person"}, body : Texts]
  /\ left \in [Events -> Nat]

Fresh ==
  /\ editor = Empty /\ at = None /\ retry = None /\ modal = "none"
  /\ pending = NoSend /\ hold = NoHold /\ ticks = {} /\ sending = FALSE
  /\ known = {} /\ timers = {} /\ saves = {} /\ jobs = {}

Init ==
  /\ Fresh
  /\ up = FALSE /\ loaded = FALSE /\ opening = FALSE
  /\ drafts = [k \in Keys |-> NoDraft]
  /\ stored = [k \in Keys |-> NoDraft]
  /\ rows = [i \in Sends |-> NoRow]
  /\ inDb \in {{}, {"thread"}}
  /\ filed = {}
  /\ pressed = 0 /\ undone = {} /\ went = {}
  /\ left \in Allowed

Spend(event) == left[event] > 0 /\ left' = [left EXCEPT ![event] = @ - 1]

-----------------------------------------------------------------------------
(* The composer. *)

\* Keys reach the panes, and not a prompt.  A user is taken to be slower than
\* the first reading of the database.
Keyboard == up /\ loaded /\ modal = "none"

\* trackChange: the text of the composer becomes the draft.
Tracked(k, text) ==
  IF drafts[k].body = text THEN drafts
  ELSE [drafts EXCEPT ![k] = [body |-> text, rev |-> @.rev + 1]]

\* Typing arms a timer for the new revision; the composer is locked in a send.
Type(text) ==
  /\ Keyboard /\ at # None /\ ~sending /\ text # editor
  /\ Spend("type")
  /\ editor' = text
  /\ drafts' = Tracked(at, text)
  /\ timers' = timers \cup {[key |-> at, rev |-> drafts'[at].rev]}
  /\ UNCHANGED <<at, retry, modal, sender, known, saves, jobs, start, tables, ghosts>>

\* A quotation: commands write to the composer even when it is locked, and
\* drop the timer trackChange returns.
Quote(text) ==
  /\ Keyboard /\ at \notin {None, "number"} /\ text # editor
  /\ Spend("command")
  /\ editor' = text
  /\ drafts' = Tracked(at, text)
  /\ UNCHANGED <<at, retry, modal, sender, known, work, start, tables, ghosts>>

\* "r" on a failed message of the open conversation; "Retry" in its menu is
\* this and Send.
PressRetry(i) ==
  /\ Keyboard /\ at \notin {None, "number"}
  /\ rows[i].status = "failed" /\ rows[i].to = To(at)
  /\ Spend("command")
  /\ retry' = i
  /\ editor' = rows[i].body
  /\ drafts' = Tracked(at, rows[i].body)
  /\ UNCHANGED <<at, modal, sender, known, work, start, tables, ghosts>>

\* Opening the person's thread takes over a draft kept under the number.
Legacy(k) ==
  IF k \in {"local", "thread"} /\ drafts[k] = NoDraft /\ drafts["number"].body # Empty
  THEN [drafts EXCEPT ![k] = drafts["number"]]
  ELSE drafts

Opened(k) == at' = k /\ drafts' = Legacy(k) /\ editor' = drafts'[k].body

OpenThread(k) ==
  /\ Keyboard /\ at # k
  /\ k \in Others \cup known
  /\ Spend("open")
  /\ Opened(k)
  /\ UNCHANGED <<retry, modal, sender, known, work, start, tables, ghosts>>

\* Picking a recipient who has no conversation.
Choose ==
  /\ Keyboard /\ known = {} /\ at # "number"
  /\ Spend("open")
  /\ at' = "number"
  /\ editor' = drafts["number"].body
  /\ UNCHANGED <<drafts, retry, modal, sender, known, work, start, tables, ghosts>>

Debounce(t) ==
  /\ t \in timers
  /\ timers' = timers \ {t}
  /\ saves' = IF drafts[t.key].rev = t.rev
              THEN saves \cup {[key |-> t.key, draft |-> drafts[t.key]]} ELSE saves
  /\ UNCHANGED <<drafts, screen, sender, known, jobs, start, tables, ghosts, left>>

-----------------------------------------------------------------------------
(* Pressing send. *)

\* The message prepareSend captures, and the drafts and the conversation it
\* leaves behind: a bare number becomes a local conversation.
SendKey == IF at = "number" THEN "local" ELSE at

\* Mutant: no fresh identifier is made.
MessageNoId ==
  [n |-> pressed + 1, id |-> retry, key |-> SendKey, body |-> editor, rev |-> drafts[at].rev]

Message ==
  [n |-> pressed + 1, id |-> IF retry = None THEN pressed + 1 ELSE retry,
   key |-> SendKey, body |-> editor, rev |-> drafts[at].rev]

PrepareSend ==
  /\ Keyboard /\ ~sending /\ at # None /\ editor # Empty
  /\ Spend("send")
  /\ pressed' = pressed + 1
  /\ drafts' = [drafts EXCEPT ![SendKey] = [body |-> editor, rev |-> drafts[at].rev]]
  /\ at' = SendKey
  /\ retry' = None
  /\ UNCHANGED <<editor, known, timers, saves, start, tables, undone, went>>

StartJob(kind, step, c) ==
  jobs' = jobs \cup {[kind |-> kind, step |-> step, ok |-> TRUE, captured |-> c]}

\* deliverPending: straight to the phone, or a prompt when there is none.
Deliver(c) ==
  \/ /\ StartJob("send", "save", c)
     /\ pending' = NoSend /\ sending' = TRUE /\ modal' = "none"
  \/ /\ pending' = c /\ sending' = FALSE /\ modal' = "offline"
     /\ UNCHANGED jobs

\* The undo window opens for a phone that is there.
Send ==
  /\ PrepareSend
  /\ \/ /\ UndoWindow
        /\ pending' = Message /\ sending' = TRUE
        /\ hold' = [n |-> pressed + 1, retry |-> retry]
        /\ ticks' = ticks \cup {pressed + 1}
        /\ UNCHANGED <<modal, jobs>>
     \/ /\ Deliver(Message)
        /\ UndoWindow => modal' = "offline"
        /\ UNCHANGED <<hold, ticks>>

\* Mutant: the window stays open while its message is sent.
ReleaseHoldKept == hold' = hold /\ pending # NoSend /\ Deliver(pending)

ReleaseHold == hold' = NoHold /\ Deliver(pending)

\* The last tick of the window that is open, or of one that was closed early.
HoldTick(n) ==
  /\ n \in ticks
  /\ ticks' = ticks \ {n}
  /\ \/ /\ hold.n = n
        /\ ReleaseHold
     \/ /\ hold.n # n
        /\ UNCHANGED <<pending, hold, sending, modal, jobs>>
  /\ UNCHANGED <<drafts, editor, at, retry, known, timers, saves, start, tables, ghosts, left>>

SendNow ==
  /\ Keyboard /\ hold # NoHold
  /\ ReleaseHold
  /\ UNCHANGED <<drafts, editor, at, retry, ticks, known, timers, saves, start, tables, ghosts, left>>

CancelHold ==
  /\ Keyboard /\ hold # NoHold
  /\ retry' = hold.retry
  /\ hold' = NoHold /\ pending' = NoSend /\ sending' = FALSE
  /\ undone' = undone \cup {hold.n}
  /\ UNCHANGED <<drafts, editor, at, modal, ticks, known, work, start, tables, pressed, went, left>>

OpenSchedule ==
  /\ PrepareSend
  /\ pending' = Message /\ modal' = "schedule"
  /\ UNCHANGED <<hold, ticks, sending, jobs>>

\* A prompt is answered: send now, file the message, or leave it.
AnswerPrompt ==
  /\ up /\ modal # "none"
  /\ \/ /\ modal = "schedule"
        /\ Deliver(pending)
        /\ UNCHANGED undone
     \/ /\ StartJob(IF modal = "offline" THEN "queue" ELSE "schedule", "file", pending)
        /\ pending' = NoSend /\ modal' = "none"
        /\ UNCHANGED <<sending, undone>>
     \/ /\ modal' = "none"
        /\ (modal = "offline" /\ pending' = NoSend) \/ UNCHANGED pending
        /\ undone' = undone \cup {pending.n}
        /\ UNCHANGED <<sending, jobs>>
  /\ UNCHANGED <<drafts, editor, at, retry, hold, ticks, known, timers, saves, start, tables,
                 pressed, went, left>>

-----------------------------------------------------------------------------
(* The goroutines. *)

Step(j, step) == jobs' = (jobs \ {j}) \cup {[j EXCEPT !.step = step]}

Failed(j) == jobs' = (jobs \ {j}) \cup {[j EXCEPT !.step = "done", !.ok = FALSE]}

\* The table keeps what it has when that is newer.
SaveDraft(k, d) ==
  IF d.rev >= stored[k].rev THEN [stored EXCEPT ![k] = d] ELSE stored

\* upsertThread: once the phone's thread is stored the local conversation merges
\* into it, and its draft goes along when the thread has none.
UpsertThread(k) ==
  /\ inDb' = CASE k = "thread" -> {k} [] k = "local" -> inDb \cup {k} [] OTHER -> inDb
  /\ stored' = IF k = "thread" /\ stored[k] = NoDraft
               THEN [stored EXCEPT ![k] = stored["local"]] ELSE stored

MergeMessage(c, status) ==
  /\ UpsertThread(c.key)
  /\ rows' = IF rows[c.id].status = "none"
             THEN [rows EXCEPT ![c.id] = [status |-> status, to |-> To(c.key), body |-> c.body]]
             ELSE rows

MessageStatus(i, status) ==
  IF rows[i].status = "none" THEN rows ELSE [rows EXCEPT ![i].status = status]

\* Nothing but the tables and the job itself moves.
Beside == UNCHANGED <<drafts, screen, sender, known, timers, saves, start, pressed, undone>>

\* What leaves the composer, to the phone or to a table of the outbox.
Gone(j) == [n |-> j.captured.n, way |-> j.kind, id |-> j.captured.id,
            to |-> To(j.captured.key), body |-> j.captured.body]

\* Mutant: the phone is called before the message is stored.
SaveOnly(j) ==
  /\ j.step = "save"
  /\ stored' = SaveDraft(j.captured.key, [body |-> j.captured.body, rev |-> j.captured.rev])
  /\ Step(j, "call")
  /\ UNCHANGED <<rows, inDb, filed, went, left>>

SaveBeforeSend(j) ==
  /\ j.step = "save"
  /\ stored' = SaveDraft(j.captured.key, [body |-> j.captured.body, rev |-> j.captured.rev])
  /\ Step(j, "merge")
  /\ UNCHANGED <<rows, inDb, filed, went, left>>

\* INSERT into the queue or the schedule; the primary key refuses a second one.
File(j) ==
  /\ j.step = "file"
  /\ IF \E f \in filed : f.table = j.kind /\ f.id = j.captured.id
     THEN Failed(j) /\ UNCHANGED <<filed, went>>
     ELSE /\ Step(j, "merge")
          /\ filed' = filed \cup {[table |-> j.kind, id |-> j.captured.id,
                                   to |-> To(j.captured.key), body |-> j.captured.body]}
          /\ went' = went \cup {Gone(j)}
  /\ UNCHANGED <<stored, rows, inDb, left>>

MergeRow(j) ==
  /\ j.step = "merge"
  /\ MergeMessage(j.captured, CASE j.kind = "send" -> "sending" [] j.kind = "queue" -> "queued"
                                [] j.kind = "schedule" -> "scheduled")
  /\ Step(j, IF j.kind = "send" THEN "mark" ELSE "done")
  /\ UNCHANGED <<filed, went, left>>

MarkSending(j) ==
  /\ j.step = "mark"
  /\ rows' = MessageStatus(j.captured.id, "sending")
  /\ Step(j, "stored")
  /\ UNCHANGED <<stored, inDb, filed, went, left>>

\* The loop hears that the message is stored, and has it sent.
CallPhone(j) ==
  /\ j.step = "stored"
  /\ Step(j, "call")
  /\ UNCHANGED <<tables, went, left>>

\* Accepted, refused, or accepted and the answer lost.
PhoneAnswers(j) ==
  /\ j.step = "call"
  /\ \E ok, accepted \in BOOLEAN :
       /\ ok => accepted
       /\ IF accepted /\ ~ok THEN Spend("trouble") ELSE UNCHANGED left
       /\ went' = IF accepted
                  THEN went \cup {Gone(j)} ELSE went
       /\ jobs' = (jobs \ {j}) \cup {[j EXCEPT !.step = "status", !.ok = ok]}
  /\ UNCHANGED tables

SetOutcome(j) ==
  /\ j.step = "status"
  /\ rows' = MessageStatus(j.captured.id, IF j.ok THEN "submitted" ELSE "failed")
  /\ Step(j, "done")
  /\ UNCHANGED <<stored, inDb, filed, went, left>>

\* A failed statement ends a job; the outcome of a send then stays unsaved.
StatementFails(j) ==
  /\ j.step \in {"save", "file", "merge", "mark", "status", "remove"}
  /\ Spend("trouble")
  /\ Failed(j)
  /\ UNCHANGED <<tables, went>>

\* An outbox entry is taken back for editing: its row goes, then the message.
RemoveEntry(j) ==
  /\ j.step = "remove"
  /\ filed' = {f \in filed : ~(f.table = "queue" /\ f.id = j.captured.id)}
  /\ Step(j, "erase")
  /\ UNCHANGED <<stored, rows, inDb, went, left>>

EraseRow(j) ==
  /\ j.step = "erase"
  /\ rows' = [rows EXCEPT ![j.captured.id] = NoRow]
  /\ Step(j, "done")
  /\ UNCHANGED <<stored, inDb, filed, went, left>>

JobStep ==
  /\ \E j \in jobs :
       \/ SaveBeforeSend(j) \/ File(j) \/ MergeRow(j) \/ MarkSending(j) \/ CallPhone(j)
       \/ PhoneAnswers(j) \/ SetOutcome(j) \/ RemoveEntry(j) \/ EraseRow(j)
  /\ Beside

JobFails == (\E j \in jobs : StatementFails(j)) /\ Beside

SaveDone(s) ==
  /\ s \in saves
  /\ saves' = saves \ {s}
  /\ \/ stored' = SaveDraft(s.key, s.draft) /\ UNCHANGED left
     \/ Spend("trouble") /\ UNCHANGED stored
  /\ UNCHANGED <<drafts, screen, sender, known, timers, jobs, start, rows, inDb, filed, ghosts>>

-----------------------------------------------------------------------------
(* The loop hears how a job ended. *)

\* Mutant: whatever the draft is by now, it is cleared.
UnchangedSinceAny(c) == TRUE

\* The draft is still the one the message was captured from.
UnchangedSince(c) == drafts[c.key] = [body |-> c.body, rev |-> c.rev]

\* Mutant: the composer is not emptied with the draft.
ClearedEditorKept(c) == editor

ClearedEditor(c) == IF at = c.key THEN Empty ELSE editor

\* Mutant: a failed send leaves the composer locked.
UnlockOnSuccess(j) == IF j.kind = "send" /\ j.ok THEN FALSE ELSE sending

Unlock(j) == IF j.kind = "send" THEN FALSE ELSE sending

SendEnded(j) ==
  /\ j \in jobs /\ j.step = "done" /\ j.kind # "edit"
  /\ jobs' = jobs \ {j}
  /\ sending' = Unlock(j)
  /\ IF j.ok /\ UnchangedSince(j.captured)
     THEN LET k == j.captured.key
              cleared == [body |-> Empty, rev |-> j.captured.rev + 1]
          IN  /\ drafts' = [drafts EXCEPT ![k] = cleared]
              /\ editor' = ClearedEditor(j.captured)
              /\ saves' = saves \cup {[key |-> k, draft |-> cleared]}
     ELSE UNCHANGED <<drafts, editor, saves>>
  /\ UNCHANGED <<at, retry, modal, pending, hold, ticks, known, timers, start, tables, ghosts, left>>

\* "e" in the outbox, on a queued message of the person followed.
EditEntry(f) ==
  /\ Keyboard
  /\ f.table = "queue" /\ f.to = "person"
  /\ Spend("command")
  /\ StartJob("edit", "remove", [n |-> f.id, id |-> f.id, key |-> "number",
                                 body |-> f.body, rev |-> 0])
  /\ UNCHANGED <<drafts, screen, sender, known, timers, saves, start, tables, ghosts>>

\* prepareEdit: the text goes into the composer, under the bare number.
EntryLoaded(j) ==
  /\ j \in jobs /\ j.step = "done" /\ j.kind = "edit"
  /\ jobs' = jobs \ {j}
  /\ IF j.ok
     THEN /\ at' = "number" /\ modal' = "none"
          /\ editor' = j.captured.body
          /\ drafts' = Tracked("number", j.captured.body)
     ELSE UNCHANGED <<at, modal, editor, drafts>>
  /\ UNCHANGED <<retry, sender, known, timers, saves, start, tables, ghosts, left>>

-----------------------------------------------------------------------------
(* The phone's thread, and other surroundings. *)

\* The session stores the phone's thread.
SyncThread ==
  /\ up
  /\ UpsertThread("thread")
  /\ UNCHANGED <<drafts, screen, sender, known, work, start, rows, filed, ghosts, left>>

\* The cache is read: the conversation named on the command line opens, once
\* there is one to open, and a local conversation on screen gives way to the
\* thread.
LoadCache ==
  /\ up
  /\ known' = inDb
  /\ opening' = FALSE
  /\ IF opening THEN \E k \in Others \cup inDb : Opened(k)
     ELSE /\ editor' = editor
          /\ IF at = "local" /\ "thread" \in inDb
             THEN at' = "thread" /\ drafts' = [drafts EXCEPT !["thread"] = drafts["local"]]
             ELSE UNCHANGED <<at, drafts>>
  /\ UNCHANGED <<retry, modal, sender, work, up, loaded, tables, ghosts, left>>

\* Mutant: an interrupted send is offered for retry.
RecoveredFailed ==
  [i \in Sends |-> IF rows[i].status = "sending" THEN [rows[i] EXCEPT !.status = "failed"]
                   ELSE rows[i]]

\* Open marks a send that was under way as uncertain.
Recovered ==
  [i \in Sends |-> IF rows[i].status = "sending" THEN [rows[i] EXCEPT !.status = "unknown"]
                   ELSE rows[i]]

Start ==
  /\ ~up
  /\ up' = TRUE /\ opening' = OpenAtStart
  /\ rows' = Recovered
  /\ UNCHANGED <<drafts, screen, sender, known, work, loaded, stored, inDb, filed, ghosts, left>>

\* loadedMsg: the drafts read at the start replace those in memory.
LoadDrafts ==
  /\ up /\ ~loaded
  /\ drafts' = stored
  /\ loaded' = TRUE
  /\ UNCHANGED <<screen, sender, known, work, up, opening, tables, ghosts, left>>

\* A quit or a signal saves the drafts on the way out, a crash does not; a
\* quit waits for a send to end.
Stop ==
  /\ up
  /\ Spend("trouble")
  /\ up' = FALSE /\ loaded' = FALSE /\ opening' = FALSE
  /\ \/ stored' = [k \in Keys |-> SaveDraft(k, drafts[k])[k]]
     \/ UNCHANGED stored
  /\ drafts' = [k \in Keys |-> NoDraft]
  /\ editor' = Empty /\ at' = None /\ retry' = None /\ modal' = "none"
  /\ pending' = NoSend /\ hold' = NoHold /\ ticks' = {} /\ sending' = FALSE
  /\ known' = {} /\ timers' = {} /\ saves' = {} /\ jobs' = {}
  /\ UNCHANGED <<rows, inDb, filed, ghosts>>

OpenElsewhere ==
  /\ up
  /\ Spend("trouble")
  /\ rows' = Recovered
  /\ UNCHANGED <<drafts, screen, sender, known, work, start, stored, inDb, filed, ghosts>>

User ==
  \/ \E t \in Bodies : Type(t)
  \/ \E t \in Texts : Quote(t)
  \/ \E i \in Sends : PressRetry(i)
  \/ \E k \in Keys : OpenThread(k)
  \/ Choose \/ Send \/ SendNow \/ CancelHold \/ OpenSchedule \/ AnswerPrompt
  \/ \E f \in filed : EditEntry(f)

Next ==
  \/ User
  \/ \E t \in timers : Debounce(t)
  \/ \E n \in ticks : HoldTick(n)
  \/ JobStep \/ JobFails
  \/ \E s \in saves : SaveDone(s)
  \/ \E j \in jobs : SendEnded(j) \/ EntryLoaded(j)
  \/ SyncThread \/ LoadCache \/ Start \/ LoadDrafts \/ Stop \/ OpenElsewhere

Spec == Init /\ [][Next]_vars

-----------------------------------------------------------------------------
(* What writing and sending promise. *)

\* Jobs that will still hand over or file press n of send.
Underway(n) ==
  {j \in jobs : /\ j.kind # "edit" /\ j.captured.n = n
                /\ \/ j.step \in {"save", "file", "mark", "stored", "call"}
                   \/ j.step = "merge" /\ j.kind = "send"}

\* Each press of send leads to one hand-over or one filing at most, and a press
\* whose window or prompt is open has led to none yet (outbox.go: "Nothing has
\* been stored or sent").
OncePerPress ==
  \A n \in Sends :
    Cardinality(Underway(n)) + Cardinality({w \in went : w.n = n})
      + (IF hold.n = n \/ (modal # "none" /\ pending.n = n) THEN 1 ELSE 0) <= 1

\* What was taken back, in the undo window or at a prompt, never leaves.
TakenBackStays ==
  \A n \in undone : Underway(n) = {} /\ hold.n # n /\ \A w \in went : w.n # n

\* The composer is locked exactly while a window is open or a send is going on.
LockedForSend == sending <=> hold # NoHold \/ \E j \in jobs : j.kind = "send"

\* The composer shows the draft of the conversation it belongs to.
EditorIsDraft == at # None => editor = drafts[at].body

\* Nothing leaves without a row in the conversation to tell of it, unless the
\* user took the same message back from the outbox later.
LeavesATrace ==
  \A w \in went : w.way = "send" /\ rows[w.id].status = "none" =>
    \E v \in went : v.id = w.id /\ v.way # "send"

\* A row becomes failed, and thereby open to retry, only on the word of a send
\* that is still running; one that was interrupted does not (storage.go: "An
\* interrupted send has an uncertain external outcome").
OnlyToldFailed ==
  [][\A i \in Sends : rows[i].status # "failed" /\ rows'[i].status = "failed" =>
       \E j \in jobs : j.captured.id = i /\ j.step = "status" /\ ~j.ok]_vars

\* A draft goes only by the user's hand, or when its text has gone out or is
\* filed (the user's hand shows in left, or loads an entry of the outbox; a local
\* conversation that gives way to the thread takes its draft along).
TextKept ==
  [][up /\ up' /\ left' = left /\ at' = at /\ (\A j \in jobs \ jobs' : j.kind # "edit") =>
       \A k \in Keys : drafts[k].body \notin {Empty, drafts'[k].body} =>
         \E w \in went : w.to = To(k) /\ w.body = drafts[k].body]_vars

\* A message shown as submitted is one the phone accepted.
ShownAsSent ==
  \A i \in Sends : rows[i].status = "submitted" =>
    \E w \in went : w.way = "send" /\ w.id = i /\ w.to = rows[i].to /\ w.body = rows[i].body
=============================================================================
