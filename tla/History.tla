------------------------------ MODULE History ------------------------------
(***************************************************************************)
(* The conversation on screen (internal/app/history.go, search.go,         *)
(* ui/conversation): what the event loop shows of the message table, which *)
(* the session and the page of older messages change behind it.            *)
(*                                                                         *)
(* The event loop never reads the table itself.  loadCache, searchThread,  *)
(* requestOlder and markVisibleRead return commands, each run by a         *)
(* goroutine of its own, whose result comes back as a message in any       *)
(* order.  So every command here is a record in a set: it is added by the  *)
(* handler, it runs (read or written, at any later moment), and it is      *)
(* handled.                                                                *)
(*                                                                         *)
(* A conversation is a set of numbered messages, oldest first, as in       *)
(* module Sync.  The viewport is one message high, which makes AtNewest    *)
(* the question whether the newest message shown is the selected one.      *)
(***************************************************************************)
EXTENDS Naturals, FiniteSets

CONSTANTS
  Threads,     \* the conversations
  Top,         \* Top[t]: the messages t has on the phone at first
  Cached,      \* Cached[t]: how many of the newest of them are in the table
  MaxTop,      \* bound: messages a conversation has at most
  Initial,     \* cfg.Sync.InitialMessages
  PageSize,    \* cfg.Sync.PageSize
  MaxJump,     \* maxJumpMessages
  Matching,    \* the messages whose text contains the query
  MaxLoads,    \* bound: loads of the cache
  MaxKeys,     \* bound: what the user does
  MaxFaults,   \* bound: failed reads of the table and of the phone
  None

VARIABLES
  top,         \* newest message of each conversation on the phone
  rows,        \* table messages
  unread,      \* table messages: those with unread = 1
  active,      \* history.active
  looking,     \* the conversation or the composer has the focus, no modal is open
  view,        \* history.view: messages, those marked new, selected, Follow
  views,       \* history.views
  limit,       \* history.limit
  query,       \* history.searchQuery: empty or not
  typing,      \* history.search
  rev,         \* history.searchRevision
  jump,        \* history.jump: thread and message
  older,       \* history.older: the page being fetched
  seq,         \* history.cacheSeq
  applied,     \* history.cacheApplied
  wantsRead,   \* history.wantsRead
  loads,       \* commands of loadCache
  searches,    \* commands of searchThread
  saves,       \* commands of MarkRead
  news,        \* merged messages whose syncMsg is not handled yet
  keys,        \* how much the user did, for the bound
  seen,        \* history: shown at the end of the open conversation, or announced there
  late,        \* history: a search answered after its query was gone, or a load failed
  faults       \* failures so far, for the bound

client == <<active, looking, view, views, limit, query, typing, rev, jump, wantsRead>>
table == <<top, rows, unread>>
vars == <<client, table, older, seq, applied, loads, searches, saves, news, keys, seen, late, faults>>

Ids == 1 .. MaxTop
Latest(S) == CHOOSE i \in S : \A j \in S : j <= i
Earliest(S) == CHOOSE i \in S : \A j \in S : i <= j
Larger(m, n) == IF m > n THEN m ELSE n
Smaller(m, n) == IF m < n THEN m ELSE n
NewestOf(S, k) == {i \in S : Cardinality({j \in S : j > i}) < k}

New == [ms |-> {}, new |-> {}, sel |-> 0, follow |-> TRUE]

\* SetMessages: the selection stays on its message, unless the view follows the
\* newest or the message is gone.
SetMessages(v, ms, new) ==
  [v EXCEPT !.ms = ms, !.new = new,
            !.sel = IF ms = {} THEN 0
                    ELSE IF ~v.follow /\ v.sel \in ms THEN v.sel ELSE Latest(ms)]

AtNewest(v) == v.ms # {} /\ v.sel = Latest(v.ms)

Init ==
  /\ top = Top
  /\ rows = [t \in Threads |-> {i \in 1 .. Top[t] : i > Top[t] - Cached[t]}]
  /\ unread = [t \in Threads |-> {Top[t]} \cap rows[t]]
  /\ active = None /\ looking = FALSE /\ view = New /\ views = [t \in Threads |-> New]
  /\ limit = Initial /\ query = FALSE /\ typing = FALSE /\ rev = 0 /\ jump = None
  /\ wantsRead = FALSE
  /\ older = None /\ seq = 0 /\ applied = 0
  /\ loads = {} /\ searches = {} /\ saves = {} /\ news = {}
  /\ keys = 0 /\ seen = [t \in Threads |-> {}] /\ late = FALSE /\ faults = 0

Fault == faults < MaxFaults /\ faults' = faults + 1
-----------------------------------------------------------------------------
(***************************************************************************)
(* The commands a handler returns.                                         *)
(***************************************************************************)

\* loadCache: the conversation and the limit are those of this moment.
Load(old, t, n) ==
  /\ seq < MaxLoads
  /\ seq' = seq + 1
  /\ loads' = old \cup {[seq |-> seq + 1, thread |-> t, limit |-> n, done |-> FALSE,
                         ms |-> {}, new |-> {}]}

\* markVisibleRead: the new messages of a conversation that is in view to its end.
MarkVisible(old, t, v) ==
  saves' = IF t # None /\ looking' /\ AtNewest(v) /\ v.new # {}
             THEN old \cup {[thread |-> t, ids |-> v.new, done |-> FALSE]}
             ELSE old

\* requestOlder: the page below `n` messages.
Fetch(t, n) ==
  [thread |-> t, offset |-> IF n > PageSize THEN n - PageSize ELSE 0, done |-> FALSE]

\* The user has the messages of v before him.
Seen(t, v) ==
  seen' = IF t # None /\ looking' /\ AtNewest(v) THEN [seen EXCEPT ![t] = @ \cup v.ms] ELSE seen

\* Mutant of MarkRead: the conversation is marked, not the messages.
MarkRead_Thread(s) == [unread EXCEPT ![s.thread] = {}]
MarkRead(s) == [unread EXCEPT ![s.thread] = @ \ s.ids]

\* A command runs: the goroutine reads or writes the table, or asks the phone.
RunLoad(l) ==
  /\ ~l.done
  /\ loads' = (loads \ {l}) \cup
       {[l EXCEPT !.done = TRUE,
                  !.ms = IF l.thread = None THEN {} ELSE NewestOf(rows[l.thread], l.limit),
                  !.new = IF l.thread = None THEN {} ELSE unread[l.thread]]}
  /\ UNCHANGED <<client, table, older, seq, applied, searches, saves, news, seen, late, keys, faults>>

RunSearch(s) ==
  /\ ~s.done
  /\ searches' = (searches \ {s}) \cup
       {[s EXCEPT !.done = TRUE,
                  !.ms = IF s.query THEN rows[s.thread] \cap Matching ELSE rows[s.thread],
                  !.new = unread[s.thread]]}
  /\ UNCHANGED <<client, table, older, seq, applied, loads, saves, news, seen, late, keys, faults>>

RunSave(s) ==
  /\ ~s.done
  /\ unread' = MarkRead(s)
  /\ saves' = (saves \ {s}) \cup {[s EXCEPT !.done = TRUE]}
  /\ UNCHANGED <<client, top, rows, older, seq, applied, loads, searches, news, seen, late, keys, faults>>

\* Engine.Older: the phone's page at that offset, counted from its newest
\* message, is merged; or the phone does not answer.
RunOlder ==
  /\ older # None /\ ~older.done
  /\ LET t == older.thread
         page == {i \in 1 .. top[t] : /\ i <= top[t] - older.offset
                                      /\ i + older.offset + PageSize > top[t]}
     IN \/ rows' = [rows EXCEPT ![t] = @ \cup page] /\ UNCHANGED faults
        \/ Fault /\ UNCHANGED rows
  /\ older' = [older EXCEPT !.done = TRUE]
  /\ UNCHANGED <<client, top, unread, seq, applied, loads, searches, saves, news, seen, late, keys>>

\* The session merges a message that arrived, and will report it.
Announce(t) ==
  /\ top[t] < MaxTop
  /\ top' = [top EXCEPT ![t] = @ + 1]
  /\ rows' = [rows EXCEPT ![t] = @ \cup {top[t] + 1}]
  /\ unread' = [unread EXCEPT ![t] = @ \cup {top[t] + 1}]
  /\ news' = news \cup {<<t, top[t] + 1>>}
  /\ UNCHANGED <<client, older, seq, applied, loads, searches, saves, seen, late, keys, faults>>
-----------------------------------------------------------------------------
(***************************************************************************)
(* The event loop handles a result.                                        *)
(***************************************************************************)

\* Mutant of Outdated: whichever load comes back last is shown.
Outdated_Never(l) == FALSE
\* A load that was started before the one shown last.
Outdated(l) == l.seq < applied

\* Mutant of Widened: the wider window is noted, and shown with the next load.
Widened_NoLoad(l, n) == loads' = loads \ {l} /\ UNCHANGED seq
\* A wider window is loaded at once.
Widened(l, n) == Load(loads \ {l}, active, n)

Dropped(l) ==
  /\ l.done /\ Outdated(l)
  /\ loads' = loads \ {l}
  /\ UNCHANGED <<client, table, older, seq, applied, searches, saves, news, seen, late, keys, faults>>

\* The read failed: what is on screen stays.
LoadFailed(l) ==
  /\ l.done /\ ~Outdated(l) /\ Fault
  /\ applied' = l.seq /\ late' = TRUE
  /\ loads' = loads \ {l}
  /\ UNCHANGED <<client, table, older, seq, searches, saves, news, seen, keys>>

\* A load of another conversation, or during a search, only renews the list.
Listed(l) ==
  /\ l.done /\ ~Outdated(l) /\ (active = None \/ l.thread # active \/ query)
  /\ applied' = l.seq
  /\ loads' = loads \ {l}
  /\ UNCHANGED <<client, table, older, seq, searches, saves, news, seen, late, keys, faults>>

\* The messages of the open conversation.  A jump whose message is not among
\* them doubles the window until it is, or the window reaches past the table.
Shown(l) ==
  /\ l.done /\ ~Outdated(l) /\ active # None /\ l.thread = active /\ ~query
  /\ applied' = l.seq /\ late' = FALSE
  /\ LET v == SetMessages(view, l.ms, l.new \cap l.ms)
         jumping == jump # None /\ jump[1] = active
         found == jumping /\ jump[2] \in l.ms
         wider == jumping /\ ~found /\ Cardinality(l.ms) >= limit /\ limit < MaxJump
         w == IF found THEN [v EXCEPT !.follow = FALSE, !.sel = jump[2]] ELSE v
     IN /\ view' = w
        /\ IF wider
             THEN /\ limit' = Smaller(MaxJump, 2 * limit)
                  /\ Widened(l, limit')
                  /\ UNCHANGED <<jump, wantsRead, saves, looking>>
             ELSE /\ jump' = IF jumping THEN None ELSE jump
                  /\ wantsRead' = (wantsRead /\ found)
                  /\ loads' = loads \ {l}
                  /\ UNCHANGED <<limit, seq, looking>>
                  /\ IF found \/ wantsRead THEN MarkVisible(saves, active, w) ELSE UNCHANGED saves
        /\ Seen(active, w)
  /\ UNCHANGED <<table, active, views, query, typing, rev, older, searches, news, keys, faults>>

\* syncMsg: a message for a conversation that is in view to its end is marked
\* read at once; any other is left for a notification.
Synced(e) ==
  /\ news' = news \ {e}
  /\ LET visible == active = e[1] /\ looking /\ AtNewest(view)
     IN /\ saves' = IF visible
                      THEN saves \cup {[thread |-> e[1], ids |-> {e[2]}, done |-> FALSE]}
                      ELSE saves
        /\ seen' = IF visible THEN [seen EXCEPT ![e[1]] = @ \cup {e[2]}] ELSE seen
  /\ Load(loads, active, limit)
  /\ UNCHANGED <<client, table, older, applied, searches, late, keys, faults>>

\* historySavedMsg and olderMsg.
Saved(s) ==
  /\ s.done
  /\ saves' = saves \ {s}
  /\ Load(loads, active, limit)
  /\ UNCHANGED <<client, table, older, applied, searches, news, seen, late, keys, faults>>

OlderCame ==
  /\ older # None /\ older.done
  /\ older' = None
  /\ Load(loads, active, limit)
  /\ UNCHANGED <<client, table, applied, searches, saves, news, seen, late, keys, faults>>

\* searchMsg.
Found(s) ==
  /\ s.done
  /\ searches' = searches \ {s}
  /\ IF s.rev = rev /\ s.thread = active
       THEN /\ view' = [ms |-> s.ms, new |-> s.new \cap s.ms, follow |-> FALSE,
                        sel |-> IF s.ms = {} THEN 0 ELSE Earliest(s.ms)]
            /\ late' = (late \/ ~query)
            /\ UNCHANGED looking /\ Seen(active, view')
       ELSE UNCHANGED <<view, late, looking, seen>>
  /\ UNCHANGED <<active, views, limit, query, typing, rev, jump, wantsRead,
                 table, older, seq, applied, loads, saves, news, keys, faults>>
-----------------------------------------------------------------------------
(***************************************************************************)
(* The user.                                                               *)
(***************************************************************************)

\* openThread: the view left is kept, the window starts over but never below
\* what the kept view shows, and a pending jump is left as it is.
Opened(t) ==
  /\ views' = IF active = None THEN views ELSE [views EXCEPT ![active] = view]
  /\ active' = t /\ looking' = TRUE /\ wantsRead' = TRUE
  /\ view' = views'[t]
  /\ limit' = Larger(Initial, Cardinality(view'.ms))
  /\ query' = FALSE /\ rev' = rev + 1
  /\ Load(loads, t, limit')
  /\ older' = IF older = None THEN Fetch(t, limit') ELSE older
  /\ Seen(t, view')
  /\ UNCHANGED <<table, typing, applied, searches, saves, news, late, faults>>

Open(t) == ~looking /\ t # active /\ Opened(t) /\ UNCHANGED jump

\* jumpToResult, of a search of every conversation.
JumpTo(t, i) == ~typing /\ jump = None /\ i \in rows[t] /\ jump' = <<t, i>> /\ Opened(t)

\* The focus leaves the conversation (Esc to the list, a modal), or returns.
LookAway ==
  /\ looking /\ ~typing
  /\ looking' = FALSE
  /\ UNCHANGED <<active, view, views, limit, query, typing, rev, jump, wantsRead,
                 table, older, seq, applied, loads, searches, saves, news, seen, late, faults>>

LookBack ==
  /\ ~looking /\ active # None
  /\ looking' = TRUE
  /\ Seen(active, view)
  /\ UNCHANGED <<active, view, views, limit, query, typing, rev, jump, wantsRead,
                 table, older, seq, applied, loads, searches, saves, news, late, faults>>

\* j, k, g, G and the page keys.  Near the top, k and g ask for an older page and
\* load the window as it is before that request widens it; other keys mark what
\* is in view as read.
Move(v) ==
  /\ active # None /\ looking /\ ~typing /\ view.ms # {}
  /\ view' = v /\ view' # view
  /\ UNCHANGED looking /\ Seen(active, v)
  /\ IF v.sel < view.sel /\ Cardinality({i \in v.ms : i < v.sel}) < 3 /\ ~query
       THEN /\ Load(loads, active, limit)
            /\ IF older = None
                 THEN limit' = limit + PageSize /\ older' = Fetch(active, limit')
                 ELSE UNCHANGED <<limit, older>>
            /\ UNCHANGED saves
       ELSE /\ MarkVisible(saves, active, v)
            /\ UNCHANGED <<seq, loads, limit, older>>
  /\ UNCHANGED <<active, views, query, typing, rev, jump, wantsRead,
                 table, applied, searches, news, late, faults>>

Step == \E i \in view.ms : Move([view EXCEPT !.sel = i, !.follow = FALSE])
Newest == view.ms # {} /\ Move([view EXCEPT !.sel = Latest(view.ms), !.follow = TRUE])

\* "/" clears the query, and each key typed after it asks again.
Slash ==
  /\ active # None /\ looking /\ ~typing
  /\ typing' = TRUE /\ query' = FALSE
  /\ UNCHANGED <<active, looking, view, views, limit, rev, jump, wantsRead,
                 table, older, seq, applied, loads, searches, saves, news, seen, late, faults>>

Ask(q) ==
  /\ rev' = rev + 1 /\ query' = q
  /\ searches' = searches \cup {[rev |-> rev + 1, thread |-> active, query |-> q, done |-> FALSE,
                                 ms |-> {}, new |-> {}]}
  /\ UNCHANGED <<active, looking, view, views, limit, jump, wantsRead,
                 table, older, seq, applied, loads, saves, news, seen, late, faults>>

TypeQuery == typing /\ UNCHANGED typing /\ \E q \in BOOLEAN : Ask(q)
Enter == typing /\ typing' = FALSE /\ Ask(query)

\* The whole conversation is read again.
SearchOver == Load(loads, active, limit)

\* Esc, while the query is typed or when its results are shown.
EndSearch ==
  /\ typing \/ (looking /\ query)
  /\ typing' = FALSE /\ query' = FALSE /\ rev' = rev + 1
  /\ SearchOver
  /\ UNCHANGED <<active, looking, view, views, limit, jump, wantsRead,
                 table, older, applied, searches, saves, news, seen, late, faults>>

\* The command "Jump to newest" ends a search, but not the one in flight.
JumpNewest ==
  /\ active # None /\ query /\ ~typing
  /\ query' = FALSE /\ looking' = TRUE
  /\ view' = [view EXCEPT !.follow = TRUE, !.sel = IF view.ms = {} THEN 0 ELSE Latest(view.ms)]
  /\ SearchOver
  /\ MarkVisible(saves, active, view') /\ Seen(active, view')
  /\ UNCHANGED <<active, views, limit, typing, rev, jump, wantsRead,
                 table, older, applied, searches, news, late, faults>>
-----------------------------------------------------------------------------
Commands ==
  \/ \E l \in loads : RunLoad(l)
  \/ \E s \in searches : RunSearch(s)
  \/ \E s \in saves : RunSave(s)
  \/ RunOlder
  \/ \E t \in Threads : Announce(t)

Results ==
  \/ \E l \in loads : Dropped(l) \/ LoadFailed(l) \/ Listed(l) \/ Shown(l)
  \/ \E e \in news : Synced(e)
  \/ \E s \in saves : Saved(s)
  \/ \E s \in searches : Found(s)
  \/ OlderCame

Keys ==
  \/ /\ keys < MaxKeys /\ keys' = keys + 1
     /\ \/ \E t \in Threads : Open(t) \/ \E i \in Ids : JumpTo(t, i)
        \/ LookAway \/ LookBack \/ Step \/ Newest \/ Slash \/ TypeQuery
  \/ UNCHANGED keys /\ (Enter \/ EndSearch \/ JumpNewest)

Next == Commands \/ Results \/ Keys

Spec == Init /\ [][Next]_vars
-----------------------------------------------------------------------------
(* What the conversation on screen promises. *)

View == [ms : SUBSET Ids, new : SUBSET Ids, sel : 0 .. MaxTop, follow : BOOLEAN]
TypeOK ==
  /\ top \in [Threads -> 0 .. MaxTop] /\ \A t \in Threads : unread[t] \subseteq rows[t] /\ rows[t] \subseteq Ids
  /\ active \in Threads \cup {None} /\ view \in View /\ views \in [Threads -> View]
  /\ view.ms = {} <=> view.sel = 0
  /\ limit \in Nat /\ seq \in 0 .. MaxLoads /\ applied \in 0 .. seq
  /\ typing => active # None

\* Nothing is on its way to the screen.
Quiet == loads = {} /\ searches = {} /\ saves = {} /\ news = {} /\ older = None

\* In whatever order the results came: once the last of them is handled, the open
\* conversation shows the newest messages of the table, each marked new exactly
\* if the table says so.  (cacheApplied; not while a search is open, nor when
\* its answer or a failed read came last.)
Settled ==
  (Quiet /\ active # None /\ ~query /\ ~typing /\ ~late) =>
    LET all == NewestOf(rows[active], limit)
    IN all \subseteq view.ms /\ view.new \cap all = unread[active] \cap all

\* A jump to a message ends: when everything is handled and its conversation is
\* open, the window was widened until it held the message or all of the table.
JumpResolved ==
  (Quiet /\ active # None /\ ~query /\ ~typing /\ ~late) => (jump = None \/ jump[1] # active)

\* A message stays new until the conversation was before the user to its end,
\* with that message shown there or announced at that moment.  One that arrives
\* between the view and the write of MarkRead stays new.
NewStaysUnread ==
  [][\A t \in Threads : \A i \in unread[t] : i \notin unread'[t] => i \in seen[t]]_vars
=============================================================================
