------------------------------- MODULE Panels --------------------------------
(***************************************************************************)
(* The panels and records that keep state of their own beside the send:    *)
(* the open conversation, settings and writing help, pictures to send and  *)
(* received ones, contacts and details, the reply window, and the meeting  *)
(* of a message with its echo.  Each is a module that shares no variable   *)
(* with another; a behaviour of this module is one of the one component    *)
(* `which` names, and the others stay as they start.                       *)
(***************************************************************************)
EXTENDS Naturals, FiniteSets

CONSTANTS
  MaxKeys, MaxLoads, MaxFaults,  \* bounds, per component
  None,
  \* History
  Threads, Top, Cached, MaxTop, Initial, PageSize, MaxJump, Hits,
  \* Assistant, and the configuration it starts with
  LocalProviders, Cloud, Policies, Off, Convs, Typed, Spots, Whole, StartConfig,
  \* Attach
  Others, Group, Pics, Large, Bad, MaxPics,
  \* Media
  Messages, Plain, Thumbed, Own,
  \* Contacts
  Chats, With, Numbers, Person, Colours,
  \* Reply
  Texts, Empty,
  \* Echo
  Bodies, MaxSends, MaxTyped, MaxSpan

VARIABLES
  which,         \* the component that runs
  \* History: the conversation
  top, hRows, unread, hActive, looking, view, hViews, limit, query, typing, rev, jump,
  older, hSeq, hApplied, wantsRead, hLoads, searches, saves, news, hKeys, seen, hLate,
  hFaults,
  \* Assistant: settings and writing help
  cfg, file, saved, built, wModal, edit, saving, adopted, lists, failedList, offer, down,
  stray, wKeys, wFaults, conv, wEditor, sel, drafts, policies, wEpoch, wBusy, reqs, review,
  wSending, moved,
  \* Attach: pictures to send
  at, pEpoch, pModal, attached, preparing, pastes, pSending, pFailed, able, known, kept,
  pKeys, pFaults,
  \* Media: received pictures
  vModal, viewing, index, disk, converted, vRow, shown, atts, shared, want, fetches,
  conversions, vFailed, records, vLoads, opening, asked, vViews, got, vKeys, vFaults,
  \* Contacts: contacts and details
  table, mine, book, colour, list, cActive, recipient, pane, selected, cModal, editing,
  cDraft, cBusy, writes, cSeq, cApplied, cLoads, unthreaded, cLate, cKeys, cFaults,
  \* Reply: the reply window
  window, rEditor, rDraft, rRow, app, undo, rSending, hold, holdSeq, ticks, closing, rSends,
  messages, handed, press, undone, rKeys, rFaults,
  \* Echo: the echo of a message
  eRows, eSends, phone, span, merged, refused, odd, count, eFaults

H == INSTANCE History WITH
  Matching <- Hits,
  MaxKeys <- MaxKeys["either"], MaxLoads <- MaxLoads["either"],
  MaxFaults <- MaxFaults["either"], rows <- hRows, active <- hActive, views <- hViews,
  seq <- hSeq, applied <- hApplied, loads <- hLoads, keys <- hKeys, late <- hLate,
  faults <- hFaults

A == INSTANCE Assistant WITH
  Local <- LocalProviders,
  MaxKeys <- MaxKeys["writing"], MaxFaults <- MaxFaults["writing"], modal <- wModal,
  keys <- wKeys, faults <- wFaults, editor <- wEditor, epoch <- wEpoch, busy <- wBusy,
  sending <- wSending

P == INSTANCE Attach WITH
  MaxKeys <- MaxKeys["attach"], MaxFaults <- MaxFaults["attach"], epoch <- pEpoch,
  modal <- pModal, sending <- pSending, failed <- pFailed, keys <- pKeys, faults <- pFaults

M == INSTANCE Media WITH
  MaxKeys <- MaxKeys["media"], MaxFaults <- MaxFaults["media"], modal <- vModal,
  row <- vRow, failed <- vFailed, loads <- vLoads, views <- vViews, keys <- vKeys,
  faults <- vFaults

C == INSTANCE Contacts WITH
  Threads <- Chats, MaxKeys <- MaxKeys["contacts"], MaxLoads <- MaxLoads["contacts"],
  MaxFaults <- MaxFaults["contacts"], active <- cActive, modal <- cModal, draft <- cDraft,
  busy <- cBusy, seq <- cSeq, applied <- cApplied, loads <- cLoads, late <- cLate,
  keys <- cKeys, faults <- cFaults

R == INSTANCE Reply WITH
  MaxKeys <- MaxKeys["reply"], MaxFaults <- MaxFaults["reply"], editor <- rEditor,
  draft <- rDraft, row <- rRow, sending <- rSending, sends <- rSends, keys <- rKeys,
  faults <- rFaults

E == INSTANCE Echo WITH
  MaxFaults <- MaxFaults["echo"], rows <- eRows, sends <- eSends, faults <- eFaults

\* A provider is on this machine or elsewhere, the keys of a draft are not taken
\* by other people, the viewer opens on a message that has a part, every thread is
\* with a number, bounds are numbers, and None is no value of another kind.
ASSUME HistoryAssumption ==
  /\ MaxTop \in Nat /\ Top \in [Threads -> 0 .. MaxTop]
  /\ {Initial, PageSize, MaxJump, MaxLoads["either"]} \subseteq Nat
  /\ None \notin Threads \cup [thread : Threads, offset : Nat, done : BOOLEAN]
ASSUME WritingAssumption ==
  /\ StartConfig \in A!Config /\ None \notin A!Config \cup A!Review \cup Policies
  /\ LocalProviders \cap Cloud = {} /\ Off \notin LocalProviders \cup Cloud
ASSUME AttachAssumption ==
  /\ MaxPics \in Nat /\ Group \in Others /\ Others \cap {"number", "local"} = {}
  /\ None \notin P!Message
ASSUME MediaAssumption ==
  /\ MaxKeys["media"] \in Nat /\ Own \subseteq M!Parts
  /\ None \notin M!Parts /\ \A m \in Messages : 1 \in DOMAIN m
ASSUME ReplyAssumption ==
  /\ {MaxKeys["reply"], MaxFaults["reply"]} \subseteq Nat
  /\ None \notin {"sending", "unknown", "submitted", "failed"}
ASSUME ContactsAssumption ==
  /\ {MaxKeys["contacts"], MaxLoads["contacts"], MaxFaults["contacts"]} \subseteq Nat
  /\ None \notin Numbers /\ With \in [Chats -> Numbers]
ASSUME EchoAssumption == {MaxSends, MaxTyped, MaxSpan, MaxFaults["echo"]} \subseteq Nat

Components == {"search", "history", "writing", "attach", "media", "contacts", "reply", "echo"}

historyVars ==
  <<top, hRows, unread, hActive, looking, view, hViews, limit, query, typing, rev, jump,
    older, hSeq, hApplied, wantsRead, hLoads, searches, saves, news, hKeys, seen, hLate,
    hFaults>>
writingVars ==
  <<cfg, file, saved, built, wModal, edit, saving, adopted, lists, failedList, offer, down,
    stray, wKeys, wFaults, conv, wEditor, sel, drafts, policies, wEpoch, wBusy, reqs, review,
    wSending, moved>>
attachVars ==
  <<at, pEpoch, pModal, attached, preparing, pastes, pSending, pFailed, able, known, kept,
    pKeys, pFaults>>
mediaVars ==
  <<vModal, viewing, index, disk, converted, vRow, shown, atts, shared, want, fetches,
    conversions, vFailed, records, vLoads, opening, asked, vViews, got, vKeys, vFaults>>
contactsVars ==
  <<table, mine, book, colour, list, cActive, recipient, pane, selected, cModal, editing,
    cDraft, cBusy, writes, cSeq, cApplied, cLoads, unthreaded, cLate, cKeys, cFaults>>
replyVars ==
  <<window, rEditor, rDraft, rRow, app, undo, rSending, hold, holdSeq, ticks, closing, rSends,
    messages, handed, press, undone, rKeys, rFaults>>
echoVars ==
  <<eRows, eSends, phone, span, merged, refused, odd, count, eFaults>>

Init ==
  /\ which \in Components
  /\ H!Init
  /\ A!AssistantInit(StartConfig)
  /\ P!AttachInit
  /\ M!MediaInit
  /\ C!ContactsInit
  /\ R!ReplyInit
  /\ E!EchoInit

\* The conversation runs with bounds of its own for searches.
Room ==
  hKeys' <= MaxKeys[which] /\ hSeq' <= MaxLoads[which] /\ hFaults' <= MaxFaults[which]
HistoryNext ==
  /\ which \in {"history", "search"} /\ H!Next /\ Room /\ UNCHANGED which
  /\ UNCHANGED <<writingVars, attachVars, mediaVars, contactsVars, replyVars, echoVars>>
AssistantNext ==
  /\ which = "writing" /\ A!AssistantNext /\ UNCHANGED which
  /\ UNCHANGED <<historyVars, attachVars, mediaVars, contactsVars, replyVars, echoVars>>
AttachNext ==
  /\ which = "attach" /\ P!AttachNext /\ UNCHANGED which
  /\ UNCHANGED <<historyVars, writingVars, mediaVars, contactsVars, replyVars, echoVars>>
MediaNext ==
  /\ which = "media" /\ M!MediaNext /\ UNCHANGED which
  /\ UNCHANGED <<historyVars, writingVars, attachVars, contactsVars, replyVars, echoVars>>
ContactsNext ==
  /\ which = "contacts" /\ C!ContactsNext /\ UNCHANGED which
  /\ UNCHANGED <<historyVars, writingVars, attachVars, mediaVars, replyVars, echoVars>>
ReplyNext ==
  /\ which = "reply" /\ R!ReplyNext /\ UNCHANGED which
  /\ UNCHANGED <<historyVars, writingVars, attachVars, mediaVars, contactsVars, echoVars>>
EchoNext ==
  /\ which = "echo" /\ E!EchoNext /\ UNCHANGED which
  /\ UNCHANGED <<historyVars, writingVars, attachVars, mediaVars, contactsVars, replyVars>>

Next ==
  HistoryNext \/ AssistantNext \/ AttachNext \/ MediaNext
  \/ ContactsNext \/ ReplyNext \/ EchoNext
vars == <<which, historyVars, writingVars, attachVars, mediaVars, contactsVars, replyVars, echoVars>>
Spec == Init /\ [][Next]_vars
-----------------------------------------------------------------------------
(* Properties, each stated in the module of its component *)

\* TypeOK: the variables of every component keep to their values.
TypeOK ==
  /\ which \in {"history", "search"} => H!TypeOK
  /\ which = "writing" => A!AssistantOK
  /\ which = "attach" => P!AttachOK
  /\ which = "media" => M!MediaOK
  /\ which = "contacts" => C!ContactsOK
  /\ which = "reply" => R!ReplyOK
  /\ which = "echo" => E!EchoOK
\* The open conversation shows what the table holds once all is quiet (history.go).
Settled == which \in {"history", "search"} => H!Settled
\* A jump to a message ends at the message, or says it is gone (search.go, history.go).
JumpResolved == which \in {"history", "search"} => H!JumpResolved
\* A step marks a message read only if the user could see it (history.go).
NewStaysUnread == H!NewStaysUnread
\* With the settings panel closed config.toml is what is in force (settings.go).
InForceIsFile == which = "writing" => A!InForceIsFile
\* No text goes to a provider the conversation's policy forbids (ai.go).
PolicyRespected == which = "writing" => A!PolicyRespected
\* A suggestion is applied only to the text it was made for (ai.go).
NoStaleReview == which = "writing" => A!NoStaleReview
\* The answer to a cancelled request changes nothing (ai.go).
CancelledStays == which = "writing" => A!CancelledStays
\* A picture goes to no conversation but the one it was chosen for (attach.go).
PicturesPlaced == which = "attach" => P!PicturesPlaced
\* A picture leaves the composer only by being sent or removed (attach.go, history.go).
PicturesKept == which = "attach" => P!PicturesKept
\* v takes the terminal once a press at most (media.go).
ShownOnRequest == which = "media" => M!ShownOnRequest
\* A downloaded picture stays downloaded (media.go, attachments.go).
FetchedKept == which = "media" => M!FetchedKept
\* A number becomes one contact of the user's (details.go, actions.go).
NoTwins == which = "contacts" => C!NoTwins
\* The open conversation wears the colours of the tables (details.go, history.go).
ColoursSettle == which = "contacts" => C!ColoursSettle
\* Every reply went once, or is a draft (reply.go).
ReplyAccounted == which = "reply" => R!ReplyAccounted
\* A message and its echo are shown as one (conversations.go).
Reconciled == which = "echo" => E!Reconciled
==============================================================================
