------------------------------- MODULE Contacts -------------------------------
(***************************************************************************)
(* Contacts, colours and the details screen: the user's own contacts, the  *)
(* phone's address book laid under them, the colours of a person and of a  *)
(* thread (internal/app/details.go, the contact and theme parts of         *)
(* model.go, actions.go, settings.go and history.go,                       *)
(* internal/storage/storage.go).                                           *)
(*                                                                         *)
(* A contact is written beside the event loop while busy blocks the keys   *)
(* of every panel; a thread's colours are written beside the loop and      *)
(* nothing is blocked.  The client keeps copies of both: m.contacts,       *)
(* h.threads, the open thread, the recipient and the draft of the details  *)
(* screen.                                                                 *)
(*                                                                         *)
(* One colour stands for a theme and the two bubble palettes.  A number is *)
(* one way of writing it, "8165550182" or "+18165550182"; the numbers that *)
(* MatchKey cannot tell apart are one person's.  Some of the code compares *)
(* numbers, some persons.  Every thread is with one number.  Names,        *)
(* sorting, muting and the lists' filter are left out.                     *)
(***************************************************************************)
EXTENDS Naturals, FiniteSets

CONSTANTS
  Threads,       \* conversations
  With,          \* [Threads -> Numbers]
  Numbers,       \* phone numbers as they are written
  Person,        \* [Numbers -> persons]: MatchKey, or the number if it is short
  Colours,       \* names of palettes; None is "automatic" or "inherit"
  MaxKeys,       \* bound: what the user does
  MaxLoads,      \* bound: reads of the thread list
  MaxFaults,     \* bound: writes and reads that fail, imports
  None

VARIABLES
  table,         \* contacts: rows
  mine,          \* m.contacts
  book,          \* m.synced: numbers of the phone's address book
  colour,        \* threads.theme
  list,          \* h.threads: their ThemeID
  active,        \* h.active: the thread and its ThemeID
  recipient,     \* m.recipient
  pane,          \* h.pane: "threads", "contacts" or "conversation"
  selected,      \* h.threadSelected
  modal,         \* m.modal
  editing,       \* m.editing
  draft,         \* m.details: the draft and what it was last saved as
  busy,          \* the contact being written, None unless m.busy
  writes,        \* colours being written to a thread
  seq, applied,  \* h.cacheSeq, h.cacheApplied
  loads,         \* reads of the thread list
  unthreaded,    \* history: a number was typed in a form, or a chat without a thread was saved
  late,          \* history: the last read of the thread list failed
  keys, faults   \* how much the user did, and what failed, for the bounds

store == <<table, colour>>
cached == <<list, seq, applied, loads>>
screen == <<active, recipient, pane, selected, modal, editing, draft>>
people == <<table, mine, book, colour, list, active, recipient, pane, selected, modal, editing,
            draft, busy, writes, seq, applied, loads, unthreaded, late, keys, faults>>

Fault == faults < MaxFaults /\ faults' = faults + 1
Pressed == keys < MaxKeys /\ keys' = keys + 1

\* A contact; 0 for the ID of an entry that has none.
Contact(i, n, c, s) == [id |-> i, number |-> n, colour |-> c, synced |-> s]
Nobody == Contact(0, None, None, FALSE)
Bare(n) == Contact(0, n, None, FALSE)
\* The numbers are equal or have one MatchKey.
Same(m, n) == Person[m] = Person[n]
Open(t, c) == [thread |-> t, colour |-> c]

ContactsInit ==
  /\ table = {} /\ mine = {} /\ book \in SUBSET Numbers
  /\ colour \in [Threads -> Colours \cup {None}]
  /\ list = colour /\ active = None /\ recipient = Nobody
  /\ pane = "threads" /\ selected \in Threads /\ modal = "" /\ editing = Nobody
  /\ draft = [colour |-> None, saved |-> None]
  /\ busy = None /\ writes = {} /\ seq = 0 /\ applied = 0 /\ loads = {}
  /\ unthreaded = FALSE /\ late = FALSE /\ keys = 0 /\ faults = 0

\* Mutant of AllContacts: the phone's entry stays beside the user's own.
AllContacts_Both == mine \cup {Contact(0, n, None, TRUE) : n \in book}
\* allContacts hides the phone's entry of a person the user has a contact for.
AllContacts ==
  mine \cup {Contact(0, n, None, TRUE) : n \in {m \in book : \A c \in mine : ~Same(m, c.number)}}
\* threadContact: the contact with the very number, or the only one of the person;
\* of several with one number, the one that sorts first.
ThreadContacts(t) ==
  LET exact == {c \in AllContacts : c.number = With[t]}
      alike == {c \in AllContacts : Same(c.number, With[t])}
  IN  IF exact # {} THEN exact
      ELSE IF \E c \in alike : alike = {c} THEN alike ELSE {Bare(With[t])}
\* targetContact, by where the user is.
TargetContacts ==
  LET known(cs) == {c \in cs : c.id # 0 \/ c.synced}
  IN  CASE pane = "threads" -> known(ThreadContacts(selected))
        [] pane = "conversation" -> known({recipient})
        [] OTHER -> {c \in AllContacts : c.synced => \E t \in Threads : Same(c.number, With[t])}

\* conversationTheme: an open conversation wears its own colour, or its person's.
Worn(open, who) == IF open # None /\ open.colour # None THEN open.colour ELSE who.colour

\* SaveContact inserts the contact or replaces the row with its ID.
SaveContact(c) == table' = {d \in table : d.id # c.id} \cup {c}
\* SyncContacts reads the files the phone has sent, as they are now.
SyncContacts == book' \in SUBSET Numbers \ {book}
\* openForm.
OpenForm(c) == modal' = "edit" /\ editing' = c
\* The details screen starts with what is saved.
Draft(c) == [colour |-> c, saved |-> c]

\* ensureLocal: an entry gets an ID of its own, a contact keeps its own.
EnsureLocal(c) ==
  [c EXCEPT !.synced = FALSE, !.id = IF @ # 0 THEN @ ELSE keys + 1]

\* loadCache.
Load(old) ==
  /\ seq < MaxLoads
  /\ seq' = seq + 1
  /\ loads' = old \cup {[seq |-> seq + 1, colour |-> None, done |-> FALSE]}
-----------------------------------------------------------------------------
(* Moving around.  Without a panel the keys work while a contact is written. *)

SetPane ==
  /\ modal = "" /\ Pressed
  /\ \/ pane' \in {"threads", "contacts"} \ {pane} /\ UNCHANGED selected
     \/ pane = "threads" /\ selected' \in Threads \ {selected} /\ UNCHANGED pane
  /\ UNCHANGED <<store, mine, book, active, recipient, modal, editing, draft, busy, writes, cached,
                 unthreaded, late, faults>>

\* openThread, with the colours the list knows.
OpenThread(t, c) ==
  /\ active' = Open(t, list[t]) /\ selected' = t /\ recipient' = c /\ pane' = "conversation"
  /\ Load(loads) /\ UNCHANGED <<list, applied>>
\* choose starts over with someone, without a thread.
Choose(c) ==
  /\ active' = None /\ recipient' = c /\ pane' = "conversation"
  /\ UNCHANGED <<selected, cached>>
\* pickRecipient opens the conversation with someone where there is one.
PickRecipient(c) ==
  LET ts == {t \in Threads : Same(With[t], c.number)}
  IN  IF ts = {} THEN Choose(c) ELSE \E t \in ts : \E d \in ThreadContacts(t) : OpenThread(t, d)

Select ==
  /\ modal = "" /\ Pressed
  /\ \/ pane = "threads" /\ \E c \in ThreadContacts(selected) : OpenThread(selected, c)
     \/ pane = "contacts" /\ \E c \in TargetContacts : PickRecipient(c)
     \/ busy = None /\ \E c \in AllContacts \cup {Bare(n) : n \in Numbers} : PickRecipient(c)
     \/ busy = None /\ \E n \in Numbers : Choose(Bare(n))
  /\ UNCHANGED <<store, mine, book, modal, editing, draft, busy, writes, unthreaded, late, faults>>

Esc ==
  /\ modal # "" /\ busy = None /\ Pressed /\ modal' = ""
  /\ UNCHANGED <<store, mine, book, active, recipient, pane, selected, editing, draft, busy, writes,
                 cached, unthreaded, late, faults>>
-----------------------------------------------------------------------------
(* The panels *)

\* Change contact theme or bubble theme, Delete contact, Edit contact, Add contact.
OpenPanel ==
  /\ modal = "" /\ Pressed
  /\ \/ modal' \in {"themes", "bubble-themes"} /\ editing' \in TargetContacts
     \/ modal' = "delete" /\ editing' \in {c \in TargetContacts : ~c.synced}
     \/ \E c \in TargetContacts \cup {Nobody} : OpenForm(c)
  /\ UNCHANGED <<store, mine, book, active, recipient, pane, selected, draft, busy, writes, cached,
                 unthreaded, late, faults>>

\* The number is that of a chat that has no thread.
Unthreaded(n) == active = None /\ recipient.number = n

\* The command that writes a contact; the panel stays unless `m` closes it.
Mutate(c, deleted, restyle, m) ==
  /\ busy' = [contact |-> c, deleted |-> deleted, restyle |-> restyle]
  /\ modal' = m

Commit ==
  /\ busy = None /\ Pressed
  /\ \/ /\ modal \in {"themes", "bubble-themes"}
        /\ \E c \in Colours \cup {None} :
             Mutate([EnsureLocal(editing) EXCEPT !.colour = c], FALSE, TRUE,
                    IF modal = "themes" THEN modal ELSE "")
        /\ unthreaded' = (unthreaded \/ Unthreaded(editing.number))
     \/ /\ modal = "edit"
        /\ \E n \in Numbers :
             /\ Mutate([EnsureLocal(editing) EXCEPT !.number = n], FALSE, FALSE, modal)
             /\ unthreaded' = (unthreaded \/ Unthreaded(n) \/ n # editing.number)
     \/ modal = "delete" /\ Mutate(editing, TRUE, FALSE, modal) /\ UNCHANGED unthreaded
  /\ UNCHANGED <<store, mine, book, active, recipient, pane, selected, editing, draft, writes, cached,
                 late, faults>>

\* thread-themes: the open thread shows its colour before it is written.
WriteThread(c) ==
  /\ active' = [active EXCEPT !.colour = c]
  /\ writes' = writes \cup {[thread |-> active.thread, colour |-> c, n |-> keys', done |-> FALSE]}

PickThreadTheme ==
  /\ modal = "" /\ busy = None /\ active # None /\ Pressed
  /\ \E c \in Colours \cup {None} : WriteThread(c)
  /\ UNCHANGED <<store, mine, book, recipient, pane, selected, modal, editing, draft, busy, cached,
                 unthreaded, late, faults>>

\* openDetails: of what the user means, the colours in effect.
OpenDetails ==
  /\ modal = "" /\ Pressed
  /\ CASE pane = "threads" /\ (active = None \/ active.thread # selected) ->
            \E c \in ThreadContacts(selected) : OpenThread(selected, c)
       [] pane = "contacts" /\ TargetContacts # {} -> \E c \in TargetContacts : PickRecipient(c)
       [] OTHER -> UNCHANGED <<active, recipient, pane, selected, cached>>
  /\ recipient'.number # None
  /\ modal' = "details"
  /\ draft' = Draft(Worn(active', recipient'))
  /\ UNCHANGED <<store, mine, book, editing, busy, writes, unthreaded, late, faults>>

Adjust ==
  /\ modal = "details" /\ busy = None /\ Pressed
  /\ \E c \in (Colours \cup {None}) \ {draft.colour} : draft' = [draft EXCEPT !.colour = c]
  /\ UNCHANGED <<store, mine, book, active, recipient, pane, selected, modal, editing, busy, writes,
                 cached, unthreaded, late, faults>>

\* saveDetails: the colours go to the person, and an override of the thread's is cleared.
SaveDetails ==
  /\ modal = "details" /\ busy = None /\ draft.colour # draft.saved /\ Pressed
  /\ Mutate([EnsureLocal(recipient) EXCEPT !.colour = draft.colour], FALSE, TRUE, modal)
  /\ IF active # None /\ active.colour # None THEN WriteThread(None)
     ELSE UNCHANGED <<active, writes>>
  /\ draft' = [draft EXCEPT !.saved = draft.colour]
  /\ unthreaded' = (unthreaded \/ Unthreaded(recipient.number))
  /\ UNCHANGED <<store, mine, book, recipient, pane, selected, editing, cached, late, faults>>

\* The row "Rename" or "Save as contact" of the details screen.
Rename ==
  /\ modal = "details" /\ busy = None /\ draft.colour = draft.saved /\ Pressed
  /\ OpenForm(recipient)
  /\ UNCHANGED <<store, mine, book, active, recipient, pane, selected, draft, busy, writes, cached,
                 unthreaded, late, faults>>
-----------------------------------------------------------------------------
(* Results *)

\* The contact behind the open thread changed: the recipient becomes it.
\* Numbers are compared as they are written, not by MatchKey.
Refreshed(c) == active # None /\ recipient.number = c.number

Deleted(c) ==
  /\ table' = {d \in table : d.id # c.id} /\ mine' = {d \in mine : d.id # c.id}
  /\ recipient' = IF recipient.id = c.id THEN Bare(recipient.number) ELSE recipient
  /\ UNCHANGED <<active, pane, selected, cached>>

Saved(c, restyle) ==
  /\ SaveContact(c)
  /\ mine' = {d \in mine : d.id # c.id} \cup {c}
  /\ CASE Refreshed(c) -> recipient' = c /\ UNCHANGED <<active, pane, selected, cached>>
       [] ~Refreshed(c) /\ ~restyle -> Choose(c)
       [] OTHER -> UNCHANGED <<active, recipient, pane, selected, cached>>

\* mutationMsg, with the write before it: nothing reads the row in between.
MutationDone ==
  /\ busy # None
  /\ IF busy.deleted THEN Deleted(busy.contact) ELSE Saved(busy.contact, busy.restyle)
  /\ modal' = IF busy.restyle /\ modal = "details" THEN modal ELSE ""
  /\ busy' = None
  /\ UNCHANGED <<colour, book, editing, draft, writes, unthreaded, late, keys, faults>>

MutationFails ==
  /\ busy # None /\ Fault /\ busy' = None
  /\ UNCHANGED <<store, mine, book, screen, writes, cached, unthreaded, late, keys>>

\* ThreadTheme, ThreadBubbleThemes.
RunWrite(w) ==
  /\ ~w.done
  /\ writes' = (writes \ {w}) \cup {[w EXCEPT !.done = TRUE]}
  /\ \/ colour' = [colour EXCEPT ![w.thread] = w.colour] /\ UNCHANGED faults
     \/ Fault /\ UNCHANGED colour
  /\ UNCHANGED <<table, mine, book, screen, busy, cached, unthreaded, late, keys>>

\* Mutant of Reload: what was written is taken to be what is shown.
Reload_Trusts == UNCHANGED <<seq, loads>>
Reload == Load(loads)

\* historySavedMsg, of a write that failed too.
ThreadSaved(w) ==
  /\ w.done /\ writes' = writes \ {w} /\ Reload
  /\ UNCHANGED <<store, mine, book, screen, busy, list, applied, unthreaded, late, keys, faults>>

RunLoad(l) ==
  /\ ~l.done
  /\ loads' = (loads \ {l}) \cup {[l EXCEPT !.done = TRUE, !.colour = colour]}
  /\ UNCHANGED <<store, mine, book, screen, busy, writes, list, seq, applied, unthreaded, late, keys,
                 faults>>

\* cacheMsg: dropped when a later one was shown, or the list and the open thread are replaced.
Listed(l) ==
  /\ l.done /\ loads' = loads \ {l}
  /\ IF l.seq < applied THEN UNCHANGED <<list, applied, active, late, faults>>
     ELSE /\ applied' = l.seq
          /\ \/ /\ list' = l.colour /\ late' = FALSE /\ UNCHANGED faults
                /\ active' = IF active = None THEN None
                             ELSE Open(active.thread, l.colour[active.thread])
             \/ Fault /\ late' = TRUE /\ UNCHANGED <<list, active>>
  /\ UNCHANGED <<store, mine, book, recipient, pane, selected, modal, editing, draft, busy, writes, seq,
                 unthreaded, keys>>

\* contactsMsg: the phone's address book as it is now.
Imported ==
  /\ Fault /\ SyncContacts /\ Load(loads)
  /\ UNCHANGED <<store, mine, screen, busy, writes, list, applied, unthreaded, late, keys>>
-----------------------------------------------------------------------------
ContactKeys ==
  SetPane \/ Select \/ Esc \/ OpenPanel \/ Commit \/ PickThreadTheme \/ OpenDetails \/ Adjust
  \/ SaveDetails \/ Rename
ContactResults ==
  \/ MutationDone \/ MutationFails \/ Imported
  \/ \E w \in writes : RunWrite(w) \/ ThreadSaved(w)
  \/ \E l \in loads : RunLoad(l) \/ Listed(l)
ContactsNext == ContactKeys \/ ContactResults
-----------------------------------------------------------------------------
(* Properties *)

Entry ==
  [id : 0..MaxKeys + 1, number : Numbers \cup {None}, colour : Colours \cup {None}, synced : BOOLEAN]

\* TypeOK: every variable keeps to its values, and what is in both the table
\* and m.contacts is the same.
ContactsOK ==
  /\ table \subseteq Entry /\ mine = table /\ book \subseteq Numbers
  /\ colour \in [Threads -> Colours \cup {None}] /\ list \in [Threads -> Colours \cup {None}]
  /\ active \in {None} \cup [thread : Threads, colour : Colours \cup {None}]
  /\ recipient \in Entry /\ editing \in Entry
  /\ pane \in {"threads", "contacts", "conversation"} /\ selected \in Threads
  /\ modal \in {"", "themes", "bubble-themes", "edit", "delete", "details"}
  /\ draft \in [colour : Colours \cup {None}, saved : Colours \cup {None}]
  /\ busy = None \/ busy.contact \in Entry
  /\ applied <= seq /\ seq <= MaxLoads /\ {unthreaded, late} \subseteq BOOLEAN
  /\ keys <= MaxKeys /\ faults <= MaxFaults

\* A number becomes one contact of the user's, however often and from wherever
\* its colours are changed, the thread list, the contact list, the open
\* conversation and its details; the exceptions are the form, where the user
\* types the number, and a chat that has no thread yet.  It is the number and not
\* the person: the recipient of an open thread does not become the contact that
\* was saved under another form of the number (Refreshed), and its details then
\* make a second one.
NoTwins ==
  unthreaded \/ \A c, d \in table : c.number = d.number => c = d

\* Nothing is under way, and what was read last was read.
Idle ==
  busy = None /\ writes = {} /\ loads = {} /\ modal # "details" /\ ~late
\* The colours of the contacts among cs, or none.
ColoursOf(cs) == IF cs = {} THEN {None} ELSE {c.colour : c \in cs}

\* Once nothing is under way the open conversation wears the colours the tables
\* give it, the thread's own or else those of the contact with the number the
\* recipient goes by, one of the thread's person, whatever was saved, cleared,
\* deleted, imported or failed in the meantime; unless the last read of the tables
\* failed or a number was typed in a form or has two contacts.  A contact of the
\* person under another form of the number does not count.
ColoursSettle ==
  active # None /\ Idle /\ ~unthreaded =>
    /\ active.colour = colour[active.thread] /\ Same(recipient.number, With[active.thread])
    /\ colour[active.thread] = None =>
         recipient.colour \in ColoursOf({c \in table : c.number = recipient.number})
===============================================================================
