# TideSMS: specifications, model checking and proofs

TideSMS reads and sends the text messages of a phone from a terminal. The phone
is reached over KDE Connect (D-Bus); everything else lives in one SQLite file
that several processes share. This directory holds TLA+ specifications of the
program, the TLC configurations that check them on small instances, and TLAPS
proofs of the theorems that hold for every instance.

Paths below are relative to `src/`; `app/` stands for `internal/app/`, and so on.

## 1. Inventory

### Processes and how they meet

| actor | where | what it does to shared state |
|---|---|---|
| TUI | `app/` (Bubble Tea) | one event loop owns the `Model`; every database or phone call runs in a command, a goroutine that gets copies of what it needs and reports with a message. Goroutines are not cancelled and not awaited at quit. |
| `tidesms-daemon` | `cmd/tidesms-daemon/main.go` | a ticker starts one pass over the schedule and the queue; a file lock keeps it to one daemon. |
| `tidesms api` | `api/api.go`, `cmd/tidesms/api.go` | serves panels and scripts: reads, sends, drafts. Opens the database each time. |
| `tidesms reply` | `reply/reply.go` | a small window with its own editor, on the same drafts table. |
| live session | `syncer/engine.go`, `app/history.go` | one goroutine per phone that delivers new messages; restarted on every reconnect. |
| the phone | outside; `backend/kdeconnect/` | accepts a message, refuses it, or accepts it while the answer is lost to a timeout. |

They meet in the database (`internal/storage`): a statement or a transaction is
atomic, and what a goroutine read may be out of date when it writes. `Open` runs
a recovery on every start of every process (`storage/storage.go:71`).

### Components

| component | state | operations | what is hard | what makes it correct |
|---|---|---|---|---|
| Outgoing queue and processor (`queue/`, `storage/queue.go`) | table `outgoing_queue`: state, attempts, next attempt, waiting for the phone | enqueue, list due, claim, update, release offline waits; `ProcessOnce`, `attempt`, `Backoff` | several passes at once; a copy of the row is written back; timeouts look like failures | a message goes out no more often than was asked for; terminal rows stay; the retry cap; every row ends |
| Scheduler and releaser (`scheduler/`, `storage/scheduler.go`) | table `scheduled_messages` | schedule, list due, claim, update, remove; `Release` | claim, update and insert are not one transaction | not before its time; not lost; not released twice |
| Sender and mirror (`messaging/`) | none of its own; writes `messages.status` | choose a phone, send, `MirrorStatus` | runs after the row is written, by whoever wrote it | the conversation shows what became of the row |
| `tidesms-daemon` | file lock, ticker | pass, `mirrorScheduled` | crash between steps; runs beside the TUI | the schedule view shows what became of the message |
| Outbox of the TUI (`app/outbox.go`) | queue view, prompts | `processQueue`, queue for later, schedule, send now, pause, edit, remove, delete | overlapping passes; read then write in the queue view | a command acts on the row it was given for |
| Opening and recovery (`storage/storage.go`) | `schema_version` | migrate, pause rows in `sending`, mark messages in `sending` unknown | other processes are alive | an interrupted send is not repeated |
| Conversation store (`storage/conversations.go`) | tables `messages`, `threads`, `sync_state` | `MergeMessages`, `MessageStatus`, `SaveThreads`, deletes | echo of a sent message against its local row | no duplicates, no losses |
| Composer, drafts, undo hold (`app/outbox.go`, `app/model.go`, `app/history.go`) | editor, draft revisions, `pending`, `hold` | prepare, hold, release, cancel, deliver, retry, save draft, quit | saves answered out of order; edits during a send | what was typed is never lost; what was taken back never leaves |
| Sync engine and session (`syncer/`, `app/history.go`) | anchor per thread, session generation | `Refresh`, page requests, live events, restart | pages while new messages arrive; old sessions' events | the cache has no gap below its anchor |
| History view state (`app/history.go`) | selected thread, page, sequence numbers | open, page, reload, refresh | answers out of order | never shows the answer of an older question |
| Reply window and API (`reply/`, `api/`) | own editor on the shared drafts | load, save, send | two writers of one draft | no draft silently overwritten |
| KDE Connect backend (`backend/kdeconnect/`) | D-Bus signals | list, fetch pages, send | partial pages, timeouts | a page is complete or an error |
| Attachments (`app/media.go`, `storage/attachments.go`, `media/`) | table `attachments`, in-flight fetches | merge, fetch, convert, preview | fetch answers late or twice | a downloaded part is never demoted |
| Writing help (`app/ai.go`, `ai/`) | request epoch, conversation policy | ask, cancel, review, accept | answers for text since edited | text goes nowhere the policy forbids; late answers change nothing |
| Search (`app/search.go`, `storage/search.go`, `search/`) | query revision | type, result | late results | results belong to the query shown |
| Contacts (`contacts/`, `app/details.go`, `app/actions.go`) | tables `contacts` and `threads` (colours), the copies the client keeps of both | save, delete, import, colours of a person or a thread, details | one person known from the phone, from a thread or from a form, under numbers written in several ways; writes and reads cross | one contact per number; the colours shown are those stored |
| Message length (`sms/`) | none | `Count` | boundaries at 160/153, 70/67 | agrees with the encoding rules |
| Settings, config (`app/settings.go`, `app/ai_models.go`, `config/`) | the configuration in force, what it was last saved as, the file | edit a row, list models, save, discard, toggle from the palette, adopt a phone | the panel edits what is in force; writes and listings come back later | with the panel closed, what is in force is what the file holds |
| Themes, keys | tables | look up | – | – |
| Rendering (`ui/`, `app/view.go`) | none | – | – | presentation |

`PROJECT.json` lists them with what is modelled of each, and every hazard with
its line under "hazards".

## 2. Modules

| module | what it is |
|---|---|
| `QueueRules` | the pure part of `queue/queue.go`: row states, legal changes, back-off, retry cap |
| `Outbox` | the three tables and everybody who works on them: TUI passes, the daemon, the user, restarts, the phone. EXTENDS `QueueRules` |
| `Delivery` | the abstract specification: messages are handed over on permits only. `Outbox` instantiates it with a refinement mapping |
| `MCOutbox` | values for the constants of `Outbox`, and the symmetry set |
| `Compose` | the terminal client's composer: drafts, undo window, prompts, the goroutines of a send, and what a crash leaves |
| `MCCompose` | budgets of outside events for `Compose`, and the symmetry set |
| `Sync` | sessions with the phone: subscription, refresh, watermarks, what a replaced session still does |
| `MCSync` | the module TLC is started on for `Sync` |
| `History` | the conversation on screen: loads, searches, jumps, older pages, read marks |
| `Settings` | the settings panel, the model picker and the configuration file |
| `Assistant` | writing help: requests, policies, reviews. EXTENDS `Settings`, since a request goes where the settings say |
| `Attach` | pictures of a draft, from choice to send and retry |
| `Media` | received pictures: download, conversion, viewer, the table `attachments` |
| `Contacts` | contacts over the phone's address book, colours, the details screen |
| `Reply` | the reply window and `api.Send`, beside a running TideSMS and processes that open the database |
| `Echo` | a message and its echo from the phone: `MergeMessages`, `upsertThread`, `MessageStatus` |
| `Panels` | instantiates `History`, `Assistant`, `Attach`, `Media`, `Contacts`, `Reply` and `Echo`, runs one of them at a time, and states the properties of each |
| `MCPanels` | values for the constants of `Panels`, and the starts that are told apart |
| `OutboxProofs` | type correctness of `Outbox` |
| `OutboxDeliveryProofs` | `Outbox` implements `Delivery`; the hand-over bound and the scheduled time follow |
| `OutboxOwnerProofs` | while the user leaves the queue alone: one pass a row, changes by the rules, final outcomes; with one pass at a time: the attempts, the order, what conversation and schedule show |
| `ComposeProofs` | types, lock, presses, trace, drafts and editor of `Compose` |
| `SyncProofs` | types, watermarks and the table without gaps of `Sync` |
| `PictureProofs` | `Attach` and `Media`, as parts of `Panels` |
| `WritingProofs` | `Settings` and `Assistant`, as parts of `Panels` |
| `ConversationProofs` | `Reply`, `Echo`, `Contacts` and `History`, as parts of `Panels`; the types of them all |

### How `Outbox` corresponds to the code

**Granularity.** One action is one SQL statement (or transaction) or one call of
the phone, because that is where other actors can step in. What a goroutine
carries between two of them is its record in `pass` (a pass of `Releaser.Release`
followed by `Processor.ProcessOnce`) or in `cmd` (a command of the user).

| part of a pass | actions | code |
|---|---|---|
| start, end offline waits | `Begin` | `app/outbox.go` `processQueue` |
| list and claim what is due | `ListDueScheduled`, `ClaimScheduled`, `StampScheduled`, `EnqueueScheduled` | `scheduler/run.go` `Release`, `storage/scheduler.go` |
| list the queue | `ListDueQueue` | `storage/queue.go` `DueQueue` |
| claim a row | `ClaimQueue` | `queue/process.go` `ProcessOnce`, `storage/queue.go` `ClaimQueue` |
| send | `Accept`, `Refuse`, `LoseAnswer`, `FindNoPhone` | `queue/process.go` `attempt`, `messaging/` |
| write the outcome | `Settle` | `storage/queue.go` `UpdateQueue` |
| mirror it | `ReadSchedule`, `WriteSchedule` (daemon only), `MirrorMerge`, `MirrorStatus` | `cmd/tidesms-daemon/main.go`, `messaging/messaging.go` |
| a failed statement | `StatementFails`, `CmdFails` | the error branches of all of these |

What the user does is `QueueForLater`, `StoreSchedule`, `MergeComposed`,
`ReadRow` followed by `Resend` or `PauseOrResume`, `FindSchedule` followed by
`SendNow`, `DropEntry` and `DeleteMessage`, `DeleteLocalCopy` and `DropRows`. Processes and
surroundings are `Start` and `Stop` (a crash and a quit are the same, since
goroutines are not awaited), `OpenElsewhere`, `Disconnect`, `Connect`, `Elapse`
(a retry delay is over) and `Arrive` (a scheduled time has come).

**Abstractions.** Bodies, recipients and devices are left out: one phone, one
recipient. Times are two flags, `next` (now or later) and `at` (past or future).
`created_at` is a rank, even when the user queued the row and odd when a pass released
it, since a released row is stamped with the time its pass began. Rows with the same time may be
listed in either order. `handed`, `granted` and `tries` are history variables:
no action's guard reads them, save that `granted[i] = 0` marks an id as fresh.
The user has one command in flight. Two at once would be two writers of one
row, which a command beside a pass already is.

### How `Compose` corresponds to the code

**Granularity.** One action is one handler of the event loop, one SQL statement of a
goroutine, or one call of the phone. A goroutine of a send, a filing or an outbox
edit is a record in `jobs` whose `step` names the statement to come; what it captured when it
was made goes with it, as in the Go closures. A draft on its way to the table is a record in `saves`.

| code | in the model |
|---|---|
| `trackChange`, the debounce timer, `saveDraft` (`app/model.go`) | `Tracked`, `Type`, `Debounce`, `SaveDone`; a draft is a text and a revision |
| the guard of `SaveDraft` (`storage/storage.go:123`) | `SaveDraft` |
| `openThread`, `choose`, `pickRecipient` | `OpenThread`, `Choose`, with the promotion of a draft kept under the bare number (`Legacy`) |
| quotation, retry (`app/history.go`) | `Quote`, `PressRetry`: they write to the composer also while it is locked, and drop the timer |
| `prepareSend` (`app/outbox.go:96`) | `PrepareSend` and `Message`; a bare number becomes a local conversation |
| `holdSend`, `holdTick`, `releaseHold`, `cancelHold` | `Send`, `HoldTick`, `ReleaseHold` (also from `SendNow`), `CancelHold` |
| `deliverPending` and both prompts | `Deliver`, `OpenSchedule`, `AnswerPrompt` |
| the two halves of a direct send | `SaveBeforeSend`, `MergeRow`, `MarkSending`, `CallPhone`, `PhoneAnswers`, `SetOutcome` |
| `Enqueue` / `Schedule` and the row of the message | `File`, `MergeRow` |
| `outgoingMsg`, `outboxChangedMsg` | `SendEnded` |
| "e" in the outbox | `EditEntry`, `RemoveEntry`, `EraseRow`, `EntryLoaded` |
| `upsertThread`, `loadCache`/`cacheMsg`, `loadedMsg` | `UpsertThread`, `SyncThread`, `LoadCache`, `LoadDrafts` |
| start, recovery, quit, signal, crash, another process's `Open` | `Start`, `Recovered`, `Stop`, `OpenElsewhere` |

One person is followed under the three keys a draft of theirs can have: the bare number, the
local conversation made for it, and the phone's thread. `Others` are
conversations that have one key only. A failed send, a filing and a retry all use the
id of the captured message, so that `rows` is indexed by presses of send.

**Abstractions.** Texts are opaque: typing replaces the text and counts one revision.
Pictures are in `Attach`. Whether a phone is there is chosen at each delivery rather than kept. A
cache read and its answer are one step; answers out of order are
in `History`. `Keyboard` takes the user to be slower than the first read of
the database at a start (`m.loaded`); the program itself is not, which
is what `compose_opened` is about. `filed` keeps what was put into the outbox and not taken back; what becomes
of it is `Outbox`. `pressed`, `undone` and `went` are history variables, save that `pressed` numbers new ids.

### How `Sync` corresponds to the code

Sessions are numbered by `h.generation`; each has two goroutines, the one that
reads the stream (`startSession` in `app/history.go`: `StartSession`, `Dial`,
`Deliver`, `Leave`, `Joined`, `Wake`) and the refresh it starts
(`Engine.Refresh` in `syncer/engine.go`: `Acquire`, `ReadThreads`, `NextThread`, `Page`, `Save`,
`RefreshDone`, `CallFails`). Starting a session cancels the one before it and does not wait for it,
so that up to `MaxGen` of each run at once; the engine's mutex is `lock`.
`Arrive` is the phone receiving a message, at any time, between two pages too.

A conversation is its messages `1 .. phone[t]`, so that a number is at once id
and age, and a watermark (`anchor`) is a number. `Page` asks for the messages
before an offset counted from the newest, as the phone does. An announced message is stored or refused by the table (`Deliver`): `MergeMessages` may
return an error, which the stream reports before it goes on (`app/history.go:619`), so that the message is in no table until a
refresh brings it. All messages are incoming; sent ones are the subject of `Echo`. Groups, progress texts and timestamps are left out. `Cut` says
whether an answer may arrive in part: without it a page is complete or an error,
which is what the engine takes for granted; with it `Messages` of
`backend/kdeconnect/conversations.go` returns what came so far.

### How `History` corresponds to the code

The event loop never reads the tables itself: `loadCache`, `searchThread`, `requestOlder` and
`markVisibleRead` return commands. A command is a record in a set: a handler adds it, it runs at any
later moment (`RunLoad`, `RunSearch`, `RunOlder`, `RunSave`), and its result is handled in any
order (`Listed`, `Shown`, `Dropped`, `LoadFailed`, `Found`, `OlderCame`, `Saved`, `Synced`).
The numbers that tell a late result from a current one, `cacheSeq`, `cacheApplied`, `searchRevision`, are
variables as in the code. Keys are `Open`, `JumpTo`, `Step`, `Newest`, `Slash`, `TypeQuery`, `Enter`, `EndSearch`,
`JumpNewest`, `LookAway`, `LookBack`. The viewport is one message high, which makes "at the newest" the question
whether the newest message shown is the selected one. A query is empty or not; what it matches is the constant `Matching`.
In `Panels` one instance serves both components "history" and "search": they differ in how many keys, loads and failures a
behaviour may have (`Room`), not in what a step does.

### How the panels correspond to the code

| module | handlers and goroutines | what stands for what |
|---|---|---|
| `Settings` | `openSettings`, `settingsAdjust`, row editing, `chooseAIModel`, `applyAIModels`, `commitAIModel`, `saveSettings`, `discardSettings`, palette toggles, adoption of the lone phone, `configMsg` | rows that only hold a value are one row, `look`; a model is known by the provider that lists it |
| `Assistant` | `startAI`, `cancelAI`, `handleAIResult`, `reviewKey`, `applyReview`, `commitAIPolicy`, with typing, switching and sending | a text is what was typed and the suggestions applied to it; a selection is one spot; a conversation has one recipient, under one key |
| `Attach` | picker, `attachFile`, `attachClipboard`, `checkPaste`, `handleAttached`, `removeAttachment`, send and retry | a prepared copy is its content and whether it was pasted; a person is a bare number and then a local conversation |
| `Media` | `openMediaViewer`, `previewAttachment`, `fetchAttachment`, `applyFetchedAttachment`, `convertOne`, `applyConverted`, `SetAttachmentState`, `upsertAttachment`, reload of the conversation | a file is its part; formats are "can be drawn" or "must be converted". A thumbnail that takes the terminal in place of a picture counts like one |
| `Contacts` | `allContacts`, `threadContact`, `targetContact`, `ensureLocal`, form, deletion, theme pickers, details, `mutationMsg`, `historySavedMsg`, loads | one colour for a theme and both bubble palettes; a number is one way of writing it, and the numbers `MatchKey` cannot tell apart are one person's: `Same` is used where the code matches, equality where it compares strings (`app/model.go:876`). Every thread is with one number |
| `Reply` | every key and message of `reply.Model`, the steps of `api.Send`, saves of a running TideSMS, `Open` of other processes | a text is a value; an undo window is a chain of numbered ticks |
| `Echo` | the row before a send, the hand-over, the outcome, every report of the phone, `Open` of other processes | time is in spans of two minutes, the limit of a match. A message whose call failed keeps its row (`refused`). A text is `odd`, and promised nothing, when the count of local rows that match an echo cannot tell which is meant: also when it was typed on the phone while the same text awaits its echo here, or just before it is sent from here |

Some variables are history variables that no guard reads and that name what a
property excuses: `refused` (`Sync`), `stray` (`Settings`), `moved` (`Assistant`), `odd` (`Echo`), `unthreaded` and `late` (`Contacts`), `late` (`History`).
Each is explained at its property, and the behaviour it excuses is listed in section 4.

## 3. Runs

| run | instance | checks | shows |
|---|---|---|---|
| `outbox_shared` | 1 message, 1 TUI pass, the daemon; 1 command, 1 lost answer, 1 restart or foreign `Open` | `TypeOK`, `HandedWithinGrant`, `NeverEarly`, `ImplementsDelivery` | the phone accepts a message no more often than granted; while a message waits for its time the grant it waits with is unused; every step is a step of `Delivery` |
| `outbox_unattended` | 1 message, 2 TUI passes, the daemon; 1 failed statement, 1 restart or foreign `Open` | `OneOwner`, `RulesKept`, `TerminalIsFinal` | as long as the user leaves the queue alone, no two passes hold one row, states change as `CanTransition` allows and sent or failed rows stay |
| `outbox_daemon` | 2 messages, the daemon; 1 outage, 1 lost answer | `AttemptBudget`, `MirrorAgrees`, `ScheduleAgrees`, `OldestFirst`, `EveryMessageEnds` | one sender keeps the retry cap, both mirrors and the order, and every message ends sent or failed |
| `outbox_resent` | 1 message, 1 TUI pass, the daemon; 1 command | `SentNotRequeued`: violated | see findings |
| `outbox_overlap` | 1 message, 2 TUI passes, nothing else | `AttemptBudget`: violated | see findings |
| `outbox_stranded` | 1 message, 1 TUI pass; 1 restart | `ReleasedIsQueued`: violated | see findings |
| `compose` | one person and one other, 2 texts, the undo window, 2 presses of send; three budgets, see below | `TypeOK`, `OncePerPress`, `TakenBackStays`, `LockedForSend`, `EditorIsDraft`, `LeavesATrace`, `OnlyToldFailed`, `TextKept` | a press leads to one message at most; what was taken back in the window or at a prompt never leaves; the lock is on exactly while something is open; edits made during a send survive it; nothing leaves unrecorded; an interrupted send is never offered for retry |
| `compose_retry` | one person, no undo window, 2 presses, 1 retry | `ShownAsSent`: violated | see findings |
| `compose_opened` | started with `--open`, 1 text typed, 1 quit | `EditorIsDraft`: violated | see findings |
| `sync` | 1 conversation of up to 3 messages, pages of 1, 2 sessions, 2 failures (a call, a dropped stream, a refused merge); fairness | `TypeOK`, `NoGap`, `AnchorForward`, `CaughtUp` | the table has no gap behind a watermark, watermarks do not go back although a replaced session still refreshes, and what the phone has since the watermark arrives in the end, unless the running session said that its sync is incomplete or could not store that very message when it was announced |
| `sync_cut` | up to 4 messages, pages of 2, 1 failure, and pages may arrive in part | `NoGap`: violated | see findings |
| `panels` | one component at a time, see below | `TypeOK`; `Settled`, `JumpResolved`, `NewStaysUnread` (`History`); `InForceIsFile` (`Settings`); `PolicyRespected`, `NoStaleReview`, `CancelledStays` (`Assistant`); `PicturesPlaced`, `PicturesKept` (`Attach`); `ShownOnRequest`, `FetchedKept` (`Media`); `NoTwins`, `ColoursSettle` (`Contacts`); `ReplyAccounted` (`Reply`); `Reconciled` (`Echo`) | whatever order results come in: the screen ends up showing the table, no message is marked read unseen, no text goes where its policy forbids, no suggestion is applied to another text, pictures stay with whom they were chosen for and take the terminal no more often than asked for, a downloaded part is not demoted, a number is one contact, the open conversation wears the colours of the tables, a reply goes once or stays a draft, and an echo is not a second message |

**Bounds.** The outside events (a command, a lost answer, a failed statement, a
start or stop, an outage) are counted in `left`, from `Allowed`, so that every
run says how much may go wrong. `MaxAttempts = 2` is the least with both a retry and
an exhaustion. `Limit = 1` makes the limit of a listing bind as soon as two rows are due. One message is enough
for properties about the claims on one message, since passes treat rows
independently but for order and for the abandoned pass after a refused INSERT; order needs two messages,
which `outbox_daemon` has. Two passes plus the daemon cover every pair of actors (TUI
and TUI, TUI and daemon). `MaxTries` saturates the history variable `tries`; it
is above `MaxAttempts` wherever `AttemptBudget` is checked and 0 elsewhere.
`outbox_unattended` uses the symmetry of TUI passes, none of whose properties
is a liveness property.

For `Compose` the counted events are conversations opened, texts typed, presses of send, commands that fill
the composer (quotation, retry, outbox edit), and troubles (a stop, a failed
statement, an answer lost, another process's `Open`). All of them at two would be far more states than
TLC can visit in minutes, so `left` starts with one of three budgets: two openings and two presses (switching
conversations during a window or a send), a command and two presses (retry and edit), two texts and two
openings (edits during a send). Each has one trouble. Two presses are the least for a window
that meets the tick of an earlier one. Texts are symmetric.

For `Sync`, one conversation is enough, since a refresh goes through them one after the other and keeps nothing
between two but the offset it resets. Pages of 1 and up to 3 messages give refreshes of one page, of several and of a last
empty page, with arrivals in between that shift the pages. Larger pages, which overlap in part, are in `sync_cut` and in the proof of
`NoGap`; they would make the search for cycles too long. Two sessions are the old and the
new one; a third would only wait for the mutex too. Two failures let a session miss an announced message and the next one's
refresh break off. The run has no deadlock check, nor has `panels`: when the phone is
silent and the user idle the program waits.

`panels` puts components that share no state into one run, because what each does
while another stands still is all there is to check: `which` names the component that moves, the others
stay as they started, and each property is one of its component. Starts that only matter to one component are
fixed while another runs. Keys of the user, failures and loads are bounded:

| component | bounds |
|---|---|
| `History`, "history" | 2 conversations of 2 and 3 messages, 1 and 3 of them in the table, 2 keys, 3 loads, 1 failed read |
| `History`, "search" | the same with 3 keys, 2 loads, no failure: `/`, a query and what interrupts it |
| `Assistant` | a local and a cloud provider, 3 policies, 2 conversations, 1 text, 1 spot, 5 keys, 1 failure |
| `Attach` | a person, another, a group; pictures good, large and broken; 2 pictures a message, 6 keys, 1 failure |
| `Media` | 3 parts in 2 messages, one of each kind; 5 keys, 2 failures, reads or vanished files |
| `Contacts` | 2 threads, 4 numbers of 3 persons, the thread of one with the other number than the address book, 1 colour, 4 keys, 2 loads, 1 failure or import |
| `Reply` | 2 texts, 5 keys in either program, 1 failure or foreign `Open` |
| `Echo` | 2 texts, 2 sends, 1 message typed on the phone, 1 span of two minutes, 1 failure or foreign `Open` |

Each bound is large enough for a plausible slip in the code that the property is about to become visible: for every
property there is a mutated definition that TLC refutes within the same bounds.

**Fairness** (`Fairness`, used by `outbox_daemon` only). Weak fairness on: each
pass going on (a goroutine is scheduled, a call of the phone has a timeout);
a pass being started (the daemon's ticker, the TUI's device refresh); the user's command going on;
a process being started again (the service is restarted); the outage ending; and
time. None of them says which way a send turns out: a phone
that refuses every attempt is a fair behaviour, and the message then ends as
failed. That needs `MaxAttempts > 0`; with 0, retries never run out and
`EveryMessageEnds` is not claimed. Deadlock is checked in all runs of `Outbox` and `Compose`.

`sync` uses `FairSpec` of `Sync`: a goroutine that can go on does, a call returns or fails (each has a
deadline), a cancelled session leaves its loop and an announced message is read, by weak fairness
for each session. Nothing obliges messages to arrive, the user to reconnect, a stream to break or a call to succeed.
`CaughtUp` therefore allows for a refresh that ended in an error: it is not tried again before the next session, and the client
says that the sync is incomplete. It also allows for a message the table refused when the running session announced it: that is
reported and nothing more, until the next session's refresh. `panels` states safety only, so that no fairness is assumed:
`Settled` and `ColoursSettle` say what holds when nothing is under way, not that this comes about.

**Why the scopes differ.** The code keeps less when actors overlap, and a
property is stated for the widest setting in which it is kept. The hand-over
bound holds with everything at once. `RulesKept` and `TerminalIsFinal` need
that no command interferes (the queue view writes rows back whole), and
`AttemptBudget`, `MirrorAgrees` and `ScheduleAgrees` need one sender at a time. What happens
outside those settings is in the next section.

## 4. Findings

Six runs show the code doing other than it says.

1. **A sent row returns to the queue** (`outbox_resent`). `queue/queue.go:51`
   says `CanTransition` exists so that "a stray duplicate reconnect cannot move
   a sent message back to queued and send it a second time". Nothing but tests
   calls it. The queue view reads a row, sets `queued`, and writes all of it
   (`app/outbox.go:673-679`), whatever a pass did in between.
2. **The cap on retries is lost to overlapping passes** (`outbox_overlap`). A pass counts
   attempts on the copy it listed, and `ClaimQueue` looks at the state alone.
   Two passes that listed one row before either claimed it write the
   same count twice.
3. **A released message may be lost** (`outbox_stranded`). Claim, update and INSERT in
   `scheduler/run.go` are separate statements; a stop in between leaves a schedule row at `queued`
   that no listing returns.

4. **A text is shown as submitted that never left** (`compose_retry`). "r" on a failed message
   remembers its id in `retryID` (`app/history.go:810`, `app/actions.go:471`), and only the next
   `prepareSend` resets it. If the user replaces the text, or opens another conversation, what is sent next goes out under the
   failed message's id. `MergeMessages` keeps the row that is there, so the failed text turns
   into "submitted" (`README.md:61`: "once KDE Connect has handed it to your phone") and the text that left has no row.
5. **A conversation opened with `--open` may hide its draft** (`compose_opened`). Conversations and drafts are read
   by two goroutines at the start (`app/model.go:239`). If the conversations come first, the named one opens while
   `m.drafts` is empty, and `loadedMsg` does not bring the composer up to date. The next key makes
   the little typed so far the newer draft (`app/history_test.go:607`: "Each thread keeps its own unfinished text, across
   switches and across a restart").

6. **A page that arrives in part leaves a hole for good** (`sync_cut`). `Messages` returns what came so far, without
an error, when its idle timer fires or its context ends after the first message (`backend/kdeconnect/conversations.go:294-300`).
`Refresh` takes an empty page for the end of the conversation (`syncer/engine.go:65`), a short one for a whole one, and moves the
watermark (`:70`), behind which no later refresh looks (`:25`: "replays recent pages only until each saved watermark is encountered").

Behaviours met on the way that are in the model and contradict no statement of
the repository, so that no run is made of them:

- `Open` pauses rows that another live process is sending. That process then
  writes its outcome over `paused`, which is why `RulesKept` has its exception.
- A TUI pass never writes the outcome to `scheduled_messages`; only the daemon
  does. `ScheduleAgrees` is therefore checked with the daemon alone.
- Overlapping passes may mirror their outcomes in the other order than they
  wrote them, so `MirrorAgrees` is checked for one pass at a time.
- A failed message that is retried as a scheduled one keeps its id, and its
  INSERT is refused when its time comes. The TUI's pass then stops before it
  drains the queue, and the schedule row stays at `queued`. `EveryMessageEnds` does not see this, since its run has no command.
- A send that timed out is retried like any error. `HandedWithinGrant` counts
  such an answer as one more permit: it may cost one more copy, never two.

- `upsertThread` copies the draft of a local conversation to the thread in the table only; the running client
  does not read it. A draft typed later under the thread has a revision of its own count, and while
  that is below the copied one `SaveDraft` refuses it. Opening the thread in that state promotes the draft kept under the bare number,
  which may be an older text.
- When the phone has made its thread, `cacheMsg` moves a client that is in the local conversation there (`app/history.go:937-945`) and copies
  the local conversation's draft over the one the thread had in memory (`:944`), which is lost there. `TextKept` is about steps that stay in one conversation (`at' = at`) and does
  not see it. Pictures chosen for the local conversation stay under its key; `Attach` has no such move.
- The draft under a bare number is never cleared by a send, since `prepareSend` moves to the key of the
  local conversation; picking the same number again before the cache has the conversation shows
  the text that was sent. It also writes that older text over the local conversation's draft when sent.
- A message the table refuses when it is announced, or whose announcement cannot be read, is only reported (`app/history.go:614-622`). The session is
  not marked incomplete, and the table lacks the message until the next session refreshes; `CaughtUp` allows for it.
- A page of older messages is counted from the phone's newest (`app/history.go:653`). If the table lacks messages in the middle,
  the page leaves a hole that no load fills. `Settled` compares the screen with the table, not with the phone.
- "Jump to newest" ends a search without counting `searchRevision`, so that the answer of a search still under way is shown after it.
- A message that is announced while its conversation is in view is marked read before a load puts it on screen.
- A write the settings panel did not ask for (a palette toggle, the adoption of a phone) that ends under the open panel puts that
  configuration in force, over the draft; a save that fails leaves the draft in force. Models listed for one provider are offered after a switch
  to another (`app/ai_models.go:72` looks at the panel only).
- A contact's policy is filed under its ID or its number (`app/ai.go:160`) and is lost when a person of the phone becomes a contact.
- A review accepted after the send it overlapped has completed puts the sent text back into the composer. What is accepted reaches
  the drafts with the next key only, since `applyReview` does not call `trackChange`.
- Pictures chosen for a bare number stay under it when the send makes the local conversation (`app/outbox.go:135`). A retry
  replaces the pictures of the draft.
- When a download that `v` asked for ends after the user has turned, its path is given to the part at hand (`app/media.go:249-251`). A file of another format is then
  converted under the id of that part, and if that fails, its thumbnail takes the terminal (`:349-357`), though `v` was never pressed on it. `ShownOnRequest` counts
  it for the part that was asked for: how often the terminal is taken is limited, not whose thumbnail is shown.
- A download that ends takes the wish to see another part with it (`app/media.go:219-220`), so that `v` may show nothing.
- When a contact was saved, the recipient of the open thread becomes it only if its number is the very same string (`app/model.go:876`), while in the contact list
  "Numbers are compared tolerantly, because a phone commonly stores the same person as 8165550182 and +18165550182" (`:275`). If a thread with +1816… is open when the import brings
  816…, a theme given to it in the thread list makes a contact of 816…, the open conversation does not wear it, and saving its details makes a second contact, of
  +1816…, although `README.md:266` says that these are one person. Saved from the form, that contact is taken for a new recipient and the thread is closed, which `:874` says must not
  be. `NoTwins` and `ColoursSettle` are therefore stated by the number the recipient goes by.
- In a chat without a thread the recipient does not become the contact that was saved (the same line asks for an open thread), so that saving twice makes two.
  When the contact is not saved, `saveDetails` has already cleared the colours of the thread (`app/details.go:382-410`). Deleting a contact clears the theme of the open
  conversation's recipient, not its bubble colours (`app/model.go:858-861`).
- For 700 ms after a reply went, its text is still in the reply window and a key may send it again (`reply/reply.go:154`).
  A TideSMS that runs beside the window never reads the drafts again.
- A message and its echo stay two, or become one too few, for texts sent twice before the echo came, typed on the phone as well, waiting more than
  two minutes, or found by another process's `Open` while being sent.
- Quotation, retry and outbox edit drop the debounce timer, so that their text is first saved by the next key, a send or the quit.

## 5. Proofs

All leaves are checked by TLAPS (SMT, Zenon, LS4). A theorem holds for every value of the constants that keeps the
assumptions of its module; TLC evaluates these on every run.

### Assumptions

| assumption | says | why it holds of the code |
|---|---|---|
| `OutboxAssumption` | finitely many passes, those of the TUI and of the daemon are different, one daemon pass at most, bounds are numbers, a listing has room for a row | the daemon holds a file lock; `LIMIT` is a positive constant |
| `ComposeAssumption` | finitely many conversations, names of one person's keys are no other's, the empty text is no text, bounds are numbers | an empty text is not sent (`prepareSend`) |
| `SyncAssumption` | finitely many conversations, at least one message a page, bounds are numbers | `config/config.go:145` refuses a page size below 1 |
| `HistoryAssumption` | sizes of conversations and windows are numbers, none above `MaxTop`; `None` is no conversation and no page | – |
| `WritingAssumption` | the program starts with a configuration, a provider is local or elsewhere and not both, `Off` is neither | `Provider.Local` (`ai/ai.go:64`) decides by the name |
| `AttachAssumption`, `MediaAssumption`, `ReplyAssumption`, `ContactsAssumption`, `EchoAssumption` | bounds are numbers, `None` is no value of another kind, the viewer opens on a message that has a part, pictures sent from here are parts of messages, every thread is with a number, the group is a conversation of others | `openMediaViewer` returns on a message without parts; the client merges what it sends with its pictures |

Nine theorems have hypotheses of their own, no stronger than the run their property is checked in:

| hypothesis | says | of |
|---|---|---|
| `Allowed["command"] = 0` | the user leaves the queue alone; composing goes on | `RowHasOneOwner`, `StatesByTheRules`, `OutcomesStay` and the four below |
| `OnePass` | one process sends at a time | `AttemptsBounded`, `SentInOrder`, `ConversationTells` |
| `TuiPasses = {}` | that process is the daemon | `ScheduleTells` |
| `Allowed["sqlError"] = 0` | no statement on the database fails | `SentInOrder`, `ConversationTells`, `ScheduleTells` |
| `Allowed["restart"] = 0` | no process stops, none opens the database meanwhile | `ConversationTells`, `ScheduleTells` |
| `~Cut` | a page is whole or an error | `GapFree` |
| `~OpenAtStart` | the client is started without `--open` | `EditorShowsDraft` |

Findings 1, 2, 6 and 5 show what happens without `Allowed["command"] = 0`, `OnePass`, `~Cut` and `~OpenAtStart`. The write of an outcome and the two mirrors of it
are three statements, so that a failure or a stop between them leaves a mirror behind: nothing in the code says otherwise.
Outages, lost answers, waiting times and everything not named stay unrestricted.

### Theorems

| theorem | module | statement |
|---|---|---|
| `TypeCorrect`, `TypesKept` | `OutboxProofs` | `Spec => []TInv`, `Spec => []TypeOK` |
| `DeliveryImplemented` | `OutboxDeliveryProofs` | `Spec => ImplementsDelivery` |
| `HandedOverAsGranted` | `OutboxDeliveryProofs` | `Spec => []HandedWithinGrant` |
| `NothingLeavesEarly` | `OutboxDeliveryProofs` | `Spec => []NeverEarly` |
| `RowHasOneOwner` | `OutboxOwnerProofs` | without commands, `Spec => []OneOwner` |
| `StatesByTheRules`, `OutcomesStay` | `OutboxOwnerProofs` | without commands, `Spec => RulesKept` and `Spec => TerminalIsFinal` |
| `AttemptsBounded`, `SentInOrder` | `OutboxOwnerProofs` | with one pass, `Spec => []AttemptBudget` and `Spec => OldestFirst` |
| `ConversationTells` | `OutboxOwnerProofs` | with one undisturbed pass, `Spec => []MirrorAgrees` |
| `ScheduleTells` | `OutboxOwnerProofs` | with the daemon alone and undisturbed, `Spec => []ScheduleAgrees` |
| `ComposerTypes`, `LockFollowsSend` | `ComposeProofs` | `Spec => []TypeOK`, `Spec => []LockedForSend` |
| `PressesGoOnce`, `TakenBackNeverLeaves` | `ComposeProofs` | `Spec => []OncePerPress`, `Spec => []TakenBackStays` |
| `SentIsTold`, `FailedIsTold` | `ComposeProofs` | `Spec => []LeavesATrace`, `Spec => OnlyToldFailed` |
| `TextIsKept` | `ComposeProofs` | `Spec => TextKept` |
| `EditorShowsDraft` | `ComposeProofs` | without `--open`, `Spec => []EditorIsDraft` |
| `SyncTypesKept`, `AnchorsAdvance` | `SyncProofs` | `Spec => []TypeOK`, `Spec => AnchorForward` |
| `GapFree` | `SyncProofs` | with whole pages, `Spec => []NoGap` |
| `PanelsTyped` | `ConversationProofs` | `Spec => []TypeOK` |
| `ViewSettles`, `JumpsEnd`, `UnreadUntilSeen` | `ConversationProofs` | `Spec => []Settled`, `[]JumpResolved`, `NewStaysUnread` |
| `RepliesAccounted` | `ConversationProofs` | `Spec => []ReplyAccounted` |
| `EchoesMeet` | `ConversationProofs` | `Spec => []Reconciled` |
| `OneContactEach`, `ColoursMeet` | `ConversationProofs` | `Spec => []NoTwins`, `Spec => []ColoursSettle` |
| `PicturesStayPlaced`, `PicturesStay` | `PictureProofs` | `Spec => []PicturesPlaced`, `Spec => []PicturesKept` |
| `DrawnOnRequest`, `DownloadsStay` | `PictureProofs` | `Spec => []ShownOnRequest`, `Spec => []FetchedKept` |
| `FileInForce` | `WritingProofs` | `Spec => []InForceIsFile` |
| `PolicyHolds`, `CancelledAnswersNothing`, `ReviewOfTheText` | `WritingProofs` | `Spec => []PolicyRespected`, `[]CancelledStays`, `[]NoStaleReview` |

### The outbox

**Types.** `TypeOK` alone is not inductive: a pass about to claim,
send or settle looks up the row of `Item(p)`, which is a row only if `Item(p)`
is a message and not `None`. `TInv` adds that (`ItemHeld`), and the same for the
message of a command. The proof has one step per action.

**Implementation.** The mapping leaves `handed` and `granted` as they are and
maps `permits[i]` to `Permits(i)`: the passes that hold message `i` on its way
into the queue or to the phone, plus one if its row is queued, plus one if its
schedule row waits. Each action of `Outbox` is shown to be a
step of `Delivery` or a stutter. Moving a claim from the schedule to a pass,
from a pass to the queue and from the queue to a pass leaves the sum alone;
that needs that a pass which claims was not in flight before, and that a set of passes
is finite, from which the lemmas on `Cardinality` follow. Crashes, `Open`, pauses and removals are
`Lapse`: the sum does not grow. Written-back copies are what makes this worth proving: a
pass that settles a row as `queued` counts in `InFlight` already, so
that its write creates nothing even when the row it overwrites has been changed by others.

**The bound, and the time.** `handed[i] + permits[i] <= granted[i]` is inductive for
`Delivery` by itself, and the mapping turns it into `HandedWithinGrant`. `NeverEarly` follows from it with
`WaitsInSchedule`: a row whose time is to come is in state `scheduled`, since every statement leaves the schedule alone, sets a
time together with that state, or changes the state of a row whose time has come. Such a row is one of the permits,
so the others and what was handed over stay below the grant. The property does not say that a message with an hour
set is not with the phone: a user who both resends a failed message and schedules it has granted two.

**One owner.** `Alone` says that no command is in flight, and `OwnerInv` that a row a pass holds is in `sending`, or `paused`
after another process's `Open`, that what the pass will write is an outcome, and that no two passes hold one row. A claim needs the state
`queued`, which is in neither list, so that it cannot take a held row; that is the whole of the mutual exclusion, with no lock.
The rules and the finality of outcomes follow by looking at each step that writes a row.

**One pass at a time.** A pass works on copies it listed, while the table goes on: the composer adds rows, waits elapse, `Open` recovers.
Each of the four properties needs what still holds of the copies then.

- `BudgetInv`, for the attempts: a queued row and the copy of each row the pass has still to send count every failure so far and leave one more try
  (`TryLeft`); so does the copy in hand, when it is to be written back as `queued`. With two passes the copies of one fall behind the rows of the other (finding 2).
- `OrderInv`, for the order: what is left of the list is no younger than any `Fresh` row outside of it, one that waits for its first attempt. It holds when the list is
  made because the listing takes the oldest due rows and a fresh row is due, and stays because what becomes fresh later is younger
  than everything listed. When the claim of the oldest row fails, the pass goes on with the next (`queue/process.go:67`), so that no statement may.
- `MirrorInv`, for the conversation: `Known` (what nobody composed is nowhere), `Shown` (a row no pass has in hand is shown as it is, or the composer's own statement is still to come and
  the row was not tried), `Telling` (a pass that tells an outcome wrote that outcome). The composer files the row before the message; a pass may send
  it in between, and `Shown` is what makes the two orders meet.
- `ScheduleInv`, for the schedule: an entry that was released is at `queued` until the pass that delivers it has recorded the outcome.

### The composer

`Base` has the types and the lock. `TInv` adds to `TypeOK` which steps each kind of job has, and that there is a number left for every
press to come. `Locks` adds to `LockedForSend` that one job is a send at most and none while the window is open: without that a job that ends would
unlock the composer under another.

`PressInv` says where each press is: at most one place of the window, the prompt, the jobs that will still hand it over, and
what left; what was taken back is in none of them, nor is a number not yet given out. `OncePerPress` and `TakenBackStays` are parts of it.
`TraceInv` follows a message from the row that was merged to the hand-over: a job past the merge has a row that tells of it, or
the message was filed once. `DraftInv` says that until the drafts are read nothing is going on that their reading could overwrite, and
that a job which succeeded has its text among those that left; with it a step that takes a text out of the drafts is a step after the text left.
`EditorInv` ties the editor to the draft of the key it is at.

### The sync

`Core` has the types, `OneRefresh` and `WorkList`. The engine's mutex is held by the one refresh that is past it, sessions that were left have no refresh, and
what a refresh has still to do is, per conversation, once and between the watermark and the phone's newest. That the watermark in the
list can only be behind what the refresh saves gives `AnchorForward`, replaced sessions included.
`PagesJoin` is the argument of `NoGap`: what the refresh at work stored reaches without a gap from the lowest number it has seen to the one it started from,
the next page begins at that number or above it (arrivals only shift the pages upwards, `low + off <= phone + 1`), and a conversation that has a watermark is
saved only after a page met it. With cut pages the second part fails, which is finding 6.

### The panels

A step of `Panels` is a step of one component and leaves the others alone, so that each component has an inductive invariant of its own.

| component | inductive invariant | what the argument is |
|---|---|---|
| `History` | `TablesOK`, `ScreenOK`, `CommandsOK`, `SavesSeen`, `LoadsOK`, `ViewCurrent`, `JumpCurrent` | Loads are numbered and the last one is of the open conversation. Every step that changes the table, the window or the query leaves a command that will start another load, or starts one (`ViewCurrent`: something is `Underway`, or the last load `Renews` the view, or it was shown and the view is `UpToDate` or a search or failure is to blame). An outdated load is never the last. `SavesSeen`: what waits to be marked read was before the user when the mark was made, so that its write may come at any time. |
| `Reply` | `ReplyTypes`, `OneReply`, `HandedOnce`, `DraftStored` | One reply is under way at a time, in the undo window or in one delivery; the phone gets a press only if its message was stored and it was never taken back. The row of the draft is the window's own as long as the window wrote it last, and the window does not close with a text that is in neither draft nor phone. |
| `Echo` | `EchoTypes`, `Numbered`, `TextStands`, `OneAtATime` | For a text that is not `odd` at most one message awaits its echo, so that the count of matching rows is that message or none; each stage of a message (sent, handed, recorded, reported) fixes which rows it has. |
| `Contacts` | `PeopleInv` (`ContactsTypes`, `Minted`, `OneEach`), `ColourInv` | IDs are of presses past, so none is given twice; the recipient, the form and what is being written are `Fresh`: they have the ID of the row with their number, or 0 if there is none. The recipient is of the person the open thread is with, under one number or the other. For colours: the last load is still to come, or what is shown is what the tables hold. |
| `Attach` | `ListsPlaced`, `WorkPlaced`, `LooksPlaced`, `KeptInv` | Every list of pictures is of its draft's person, and so is what is still being prepared; a look at the clipboard counts only while the epoch is the one it began in. |
| `Media` | `MediaTypes`, `Counted` | A press of `v` has at most one of: the picture or thumbnail drawn, the conversion it waits for, the download it waits for. It belongs to the file, which is kept through download and conversion even when the part id is not. |
| `Settings` | `SettingsTypes`, `Forced` | Outside the panel the configuration in force is the file's; under it what Esc restores is. |
| `Assistant` | `HelpTypes`, `Awaited`, `Current` | A request of the present epoch was not given up; the open review is about the text in the composer, since every step that changes the text closes the review or is refused under it. The policy is looked up at the moment of sending: `NearestPolicy` says that `ResolvePolicy` takes the nearest one set. |

The writing help needs no more of the order of events than the epoch, and pictures no more than the key a job carries; what makes `History`, `Echo` and
`Contacts` harder is that results carry data read at another time, for which each has a statement on what was read.

**Types.** `PanelsTyped` needs a little more than these invariants, per component a conjunction of its own (`Bounded`, `ReplyBounded`, `EchoBounded`,
`PeopleBounded`, `Composing`, `Viewing`, `SettingsBounded`), of which three say more than that a value is in range. `Bounded`: every view, those put aside included,
selects one of its messages, or none only if it is empty; `Latest` and `Earliest` pick a message because a bounded set of numbers has a
greatest and a least one (`GreatestNumber`, `LeastNumber`, from the library's theorem that `<` is well-founded on the naturals). `ReplyBounded`: a key raises the revision of a draft by one
and prepares at most one more, for the answer. `EchoOK` says that a message has one local row and one of the phone's at most, which is `Numbered`.

### Only model-checked

- `EveryMessageEnds` and `CaughtUp` are liveness under fairness, which is out of the prover's
  reach, like everything that needs ENABLED.
- The violations of section 4 are TLC's counterexamples.

## 6. Plan

The modules are written, and every safety and action property a passing run checks is proved; the liveness properties are out of the
prover's reach. What would add most is a second abstract specification: what the sync promises (a table that has the newest messages without a gap), with `Sync` shown
to implement it as `Outbox` is shown to implement `Delivery`.

## 7. Not modelled

- **Message length** (`sms/`), themes and key maps: pure functions and tables without state.
- **Rendering** (`ui/`, `app/view.go`), except for which message a conversation view has selected.
- **Release tooling**, the demo and the deploy scripts: not part of the running program.
- **D-Bus marshalling, the parsing of answers, vCards and queries, picture decoding and shrinking, HTTP protocols of providers**:
  computations on bytes and strings by one actor without shared state. Their outcomes (an answer, a refusal, a part of an answer, a
  failure) are in the modules that use them.
- **Migrations**: they run once and in order inside transactions.
- **Choosing among phones, groups, other devices' caches**: one phone and conversations of one person. Choosing a phone
  when several answer is a pure function of the list.
- **The list of global results, archiving, pinning, muting, marking unread, the lists of the API, saving a copy of a picture**: single
  statements on a row no other property depends on. The jump from a result is in `History`.
- **Editing modes of the composer** and a client without history (a backend that has no conversations).
