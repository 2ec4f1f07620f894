-------------------------------- MODULE Sync --------------------------------
(***************************************************************************)
(* Bringing the phone's messages into the message table: the live session  *)
(* of the TUI (startSession, internal/app/history.go), one goroutine per   *)
(* session that subscribes to the phone and merges what it announces; the  *)
(* refresh it starts beside it (Engine.Refresh, internal/syncer/engine.go),*)
(* which pages backwards through each conversation until it meets the      *)
(* watermark of the last refresh.  What the event loop does with a message *)
(* that was merged is in module History.                                   *)
(*                                                                         *)
(* Sessions are numbered by h.generation.  Starting one cancels the one    *)
(* before it, but the cancelled goroutines are not waited for: they run on *)
(* beside the new session until they notice, share the store with it, and  *)
(* only the engine's mutex keeps the two refreshes apart.                  *)
(*                                                                         *)
(* A conversation on the phone is its messages 1..phone[t], oldest first,  *)
(* so that a message's number is at once its backend id and its age.  All  *)
(* of them are incoming; how a sent message meets its echo is the subject  *)
(* of module Echo.                                                         *)
(***************************************************************************)
EXTENDS Naturals, FiniteSets

CONSTANTS
  Threads,    \* the conversations on the phone
  Old,        \* messages a conversation has at most when the program starts
  MaxPhone,   \* bound: messages a conversation has at most
  PageSize,   \* cfg.Sync.PageSize
  MaxGen,     \* bound: sessions started
  MaxFaults,  \* bound: failed calls and dropped streams
  Cut,        \* whether an answer to a page request may arrive in part only
  None

ASSUME SyncAssumption ==
  /\ IsFiniteSet(Threads)
  /\ Old \in Nat /\ MaxPhone \in Nat /\ MaxGen \in Nat /\ MaxFaults \in Nat
  /\ Old <= MaxPhone
  /\ PageSize \in Nat \ {0}
  /\ Cut \in BOOLEAN

VARIABLES
  phone,      \* how many messages each conversation has on the phone
  rows,       \* table messages: the messages stored of each conversation
  anchor,     \* table sync_state: last_backend_message_id, 0 when no row
  base,       \* history: the oldest message a thread's first refresh stored
  gen,        \* h.generation, 0 before the first session
  sess,       \* the goroutines of each session
  lock,       \* Engine.mu: the session whose refresh holds it, 0 when free
  faults      \* failures so far, for the bound

vars == <<phone, rows, anchor, base, gen, sess, lock, faults>>

Gens == 1 .. MaxGen
Ids == 1 .. MaxPhone
Events == Threads \X Ids

\* The goroutines of one session.  pc is the session's own place: "dial" at the
\* head of its loop, "run" in its select, "stop" after stop() while it waits for
\* the refresh, "wait" in a pause before the next attempt, "over" returned.
\* cancelled is its outer context; stream holds what the phone announced since
\* Subscribe and the session did not read yet, and refused (history, of the session
\* in force) what it read since then and could not store.  ref is the refresh's place, todo
\* the conversations of its Threads() answer that are left, each with the newest
\* message it had then, cur the one it is at, off the offset of the next page
\* and low the oldest message of cur it stored.
Idle == [pc |-> "none", cancelled |-> FALSE, stream |-> {}, refused |-> {},
         ref |-> "idle", todo |-> {}, cur |-> None, off |-> 0, low |-> 0]

\* The refresh goroutine has returned: done is nil or holds its result.
Returned(s) == s.ref \in {"idle", "done", "failed"}

\* sessionCtx is cancelled, by stop() or with the outer context.
Stopped(s) == s.cancelled \/ s.pc # "run"

Init ==
  /\ phone \in [Threads -> 0 .. Old]
  /\ rows = [t \in Threads |-> {}]
  /\ anchor = [t \in Threads |-> 0]
  /\ base = [t \in Threads |-> 0]
  /\ gen = 0
  /\ sess = [g \in Gens |-> Idle]
  /\ lock = 0
  /\ faults = 0

Fault == faults < MaxFaults /\ faults' = faults + 1

\* MergeMessages as the row sets see it: an id that is stored already is not
\* inserted again.
Merged(t, ids) == [rows EXCEPT ![t] = @ \cup ids]

\* The session has a stream: it subscribes before it starts its refresh.
\* Mutant of Subscribed: the stream is opened when the refresh is through.
Subscribed_AfterRefresh(s) == s.pc = "run" /\ Returned(s)
Subscribed(s) == s.pc = "run"

\* The D-Bus signals of the phone reach every session that is subscribed.  One
\* about a message that is stored already would change nothing and is left out.
Signalled(t, ids, ss) ==
  [g \in Gens |-> IF Subscribed(ss[g])
                    THEN [ss[g] EXCEPT !.stream = @ \cup {<<t, i>> : i \in ids \ rows[t]}]
                    ELSE ss[g]]
-----------------------------------------------------------------------------
(***************************************************************************)
(* The phone and the user.                                                 *)
(***************************************************************************)

Arrive(t) ==
  /\ phone[t] < MaxPhone
  /\ phone' = [phone EXCEPT ![t] = @ + 1]
  /\ sess' = Signalled(t, {phone[t] + 1}, sess)
  /\ UNCHANGED <<rows, anchor, base, gen, lock, faults>>

\* startSession: at start, on a change of phone, and with force on `r`.
StartSession ==
  /\ gen < MaxGen
  /\ gen' = gen + 1
  /\ sess' = [g \in Gens |->
       IF g = gen + 1 THEN [Idle EXCEPT !.pc = "dial"]
       ELSE IF g = gen THEN [sess[g] EXCEPT !.cancelled = TRUE, !.refused = {}] ELSE sess[g]]
  /\ UNCHANGED <<phone, rows, anchor, base, lock, faults>>
-----------------------------------------------------------------------------
(***************************************************************************)
(* The session goroutine.                                                  *)
(***************************************************************************)

\* The head of the loop: subscribe first, and only then start the refresh, so
\* that what arrives while it pages is announced on the stream.
Dial(g) ==
  /\ sess[g].pc = "dial" /\ ~sess[g].cancelled
  /\ \/ /\ sess' = [sess EXCEPT ![g] = [Idle EXCEPT !.pc = "run", !.ref = "lock"]]
        /\ UNCHANGED faults
     \/ /\ Fault
        /\ sess' = [sess EXCEPT ![g].pc = "wait"]
  /\ UNCHANGED <<phone, rows, anchor, base, gen, lock>>

\* The outcome of a message event is reported.  The emit of a cancelled session
\* may give up, which takes it to stop().
Emitted(g, e, lost) ==
  \/ /\ ~sess[g].cancelled
     /\ sess' = [sess EXCEPT ![g].stream = @ \ {e}, ![g].refused = @ \cup lost]
  \/ /\ sess[g].cancelled
     /\ \/ sess' = [sess EXCEPT ![g].stream = @ \ {e}]
        \/ sess' = [sess EXCEPT ![g].stream = {}, ![g].pc = "stop"]

\* The announced message is merged.  When MergeMessages fails, or the
\* announcement could not be read, that is reported and the session goes on: the
\* message is in the table only if a refresh meets it.
Deliver(g, e) ==
  /\ sess[g].pc = "run" /\ e \in sess[g].stream
  /\ \/ rows' = Merged(e[1], {e[2]}) /\ Emitted(g, e, {}) /\ UNCHANGED faults
     \/ Fault /\ UNCHANGED rows /\ Emitted(g, e, {e})
  /\ UNCHANGED <<phone, anchor, base, gen, lock>>

\* The select leaves the session: its context is cancelled, or the stream was
\* closed or asked for a new session (EventConnection, EventRefresh).
Leave(g) ==
  /\ sess[g].pc = "run"
  /\ \/ sess[g].cancelled /\ UNCHANGED faults
     \/ Fault
  /\ sess' = [sess EXCEPT ![g].pc = "stop", ![g].stream = {}, ![g].refused = {}]
  /\ UNCHANGED <<phone, rows, anchor, base, gen, lock>>

\* After stop() the goroutine waits for its refresh, then pauses or returns.
Joined(g) ==
  /\ sess[g].pc = "stop" /\ Returned(sess[g])
  /\ sess' = [sess EXCEPT ![g].pc = IF sess[g].cancelled THEN "over" ELSE "wait",
                          ![g].ref = "idle"]
  /\ UNCHANGED <<phone, rows, anchor, base, gen, lock, faults>>

Wake(g) ==
  /\ \/ sess[g].pc = "wait"
     \/ sess[g].pc = "dial" /\ sess[g].cancelled
  /\ sess' = [sess EXCEPT ![g].pc = IF sess[g].cancelled THEN "over" ELSE "dial"]
  /\ UNCHANGED <<phone, rows, anchor, base, gen, lock, faults>>
-----------------------------------------------------------------------------
(***************************************************************************)
(* The refresh goroutine: Engine.Refresh.                                  *)
(***************************************************************************)

\* A step of session g's refresh that only moves the goroutine on.
Ref(g, from) == sess[g].ref = from
Quiet == UNCHANGED <<phone, gen>>

\* Mutant of Acquire: no mutex.
Acquire_NoMutex(g) ==
  /\ Ref(g, "lock")
  /\ lock' = g
  /\ sess' = [sess EXCEPT ![g].ref = "threads"]
  /\ Quiet /\ UNCHANGED <<rows, anchor, base, faults>>

Acquire(g) ==
  /\ Ref(g, "lock") /\ lock = 0
  /\ lock' = g
  /\ sess' = [sess EXCEPT ![g].ref = "threads"]
  /\ Quiet /\ UNCHANGED <<rows, anchor, base, faults>>

\* Every early return of Refresh unlocks the engine and leaves the watermarks.
Failed(s) == [s EXCEPT !.ref = "failed", !.todo = {}, !.cur = None, !.off = 0, !.low = 0]
GiveUp(g, ss) ==
  /\ lock' = 0
  /\ sess' = [ss EXCEPT ![g] = Failed(@)]

\* A call of the phone or the store fails: always once sessionCtx is cancelled
\* before it, and otherwise when the phone or the bus does.
CallFails(g) ==
  /\ sess[g].ref \in {"threads", "page", "check", "save"}
  /\ \/ Stopped(sess[g]) /\ sess[g].ref # "save" /\ UNCHANGED faults
     \/ Fault
  /\ GiveUp(g, sess)
  /\ Quiet /\ UNCHANGED <<rows, anchor, base>>

\* Mutant of Reported: conversations without a message are reported too.
Reported_Empty == {<<t, phone[t]>> : t \in Threads}
\* Threads(): each conversation that has any with its newest message.
Reported == {<<t, phone[t]>> : t \in {u \in Threads : phone[u] > 0}}

\* Threads() and MergeThreads.
ReadThreads(g) ==
  /\ Ref(g, "threads")
  /\ sess' = [sess EXCEPT ![g].ref = "check", ![g].todo = Reported]
  /\ Quiet /\ UNCHANGED <<rows, anchor, base, lock, faults>>

\* The head of the loop over the conversations: one whose watermark is the
\* newest message the phone reported is skipped.
NextThread(g) ==
  /\ Ref(g, "check") /\ ~Stopped(sess[g])
  /\ \E e \in sess[g].todo :
       LET rest == [sess[g] EXCEPT !.todo = @ \ {e}]
       IN sess' = [sess EXCEPT ![g] =
            IF anchor[e[1]] = e[2] THEN rest
            ELSE [rest EXCEPT !.ref = "page", !.cur = e, !.off = 0, !.low = 0]]
  /\ Quiet /\ UNCHANGED <<rows, anchor, base, lock, faults>>

RefreshDone(g) ==
  /\ Ref(g, "check") /\ sess[g].todo = {}
  /\ lock' = 0
  /\ sess' = [sess EXCEPT ![g].ref = "done"]
  /\ Quiet /\ UNCHANGED <<rows, anchor, base, faults>>

\* How many of the newest messages a request for `want` of them yields.  The
\* phone sends them one by one, newest first.  If Cut, the messages that are in
\* pass for the answer when a pause outlasts the idle timer, and when the
\* context is cancelled after the first of them.
Answers(g, t, want) ==
  LET all == IF want < phone[t] THEN want ELSE phone[t]
  IN {k \in 0 .. all : \/ k = all
                       \/ Cut /\ Stopped(sess[g]) /\ k > 0
                       \/ Cut /\ faults < MaxFaults}

\* The k newest messages of t, and the page of them that starts at offset off.
Newest(t, k) == {i \in 1 .. phone[t] : i > phone[t] - k}
PageOf(t, k, off) == {i \in Newest(t, k) : i <= phone[t] - off}

\* Mutant of EndsAt: one page is taken for all that is new.
EndsAt_OnePage(t, page) == TRUE

\* The page ends the loop over the conversation's pages: there is no watermark,
\* the page holds it, or the page is empty.
EndsAt(t, page) == anchor[t] = 0 \/ anchor[t] \in page \/ page = {}

\* One page: requestConversation always starts at offset zero, so the phone
\* announces the newer messages again and only the page itself is merged.
\* Unless it is the last, the next request follows, and fails at once if
\* sessionCtx is cancelled by now.
Page(g) ==
  /\ Ref(g, "page")
  /\ \E t \in Threads : t = sess[g].cur[1] /\
     \E k \in Answers(g, t, sess[g].off + PageSize) :
       LET page == PageOf(t, k, sess[g].off)
           last == EndsAt(t, page)
           signalled == Signalled(t, Newest(t, k) \ page, sess)
       IN /\ rows' = Merged(t, page)
          /\ \/ /\ last \/ ~Stopped(sess[g])
                /\ sess' = [signalled EXCEPT
                     ![g].off = @ + Cardinality(page),
                     ![g].low = IF page = {} THEN @ ELSE phone[t] - k + 1,
                     ![g].ref = IF last THEN "save" ELSE "page"]
                /\ UNCHANGED lock
             \/ /\ ~last /\ Stopped(sess[g])
                /\ GiveUp(g, signalled)
          /\ IF k < sess[g].off + PageSize /\ k < phone[t] /\ ~Stopped(sess[g])
               THEN Fault ELSE UNCHANGED faults
  /\ Quiet /\ UNCHANGED <<anchor, base>>

\* SaveSync: the watermark becomes the newest message Threads() reported.
Save(g) ==
  /\ Ref(g, "save")
  /\ \E t \in Threads : t = sess[g].cur[1] /\
       /\ anchor' = [anchor EXCEPT ![t] = sess[g].cur[2]]
       /\ base' = [base EXCEPT ![t] = IF @ = 0 THEN sess[g].low ELSE @]
  /\ sess' = [sess EXCEPT ![g].ref = "check", ![g].cur = None,
                          ![g].off = 0, ![g].low = 0]
  /\ Quiet /\ UNCHANGED <<rows, lock, faults>>
-----------------------------------------------------------------------------
Session(g) ==
  \/ Dial(g) \/ Leave(g) \/ Joined(g) \/ Wake(g)
  \/ \E e \in Events : Deliver(g, e)

Refresh(g) ==
  \/ Acquire(g) \/ ReadThreads(g) \/ NextThread(g) \/ RefreshDone(g)
  \/ Page(g) \/ Save(g) \/ CallFails(g)

Next ==
  \/ \E t \in Threads : Arrive(t)
  \/ StartSession
  \/ \E g \in Gens : Session(g) \/ Refresh(g)

Spec == Init /\ [][Next]_vars

\* A goroutine that can go on does, a call returns or fails, and the event loop
\* handles what is in its queue.  Nothing obliges the phone to receive messages,
\* the user to reconnect, or a call to fail.
FairSpec ==
  /\ Spec
  /\ \A g \in Gens :
       /\ WF_vars(Dial(g)) /\ WF_vars(Wake(g)) /\ WF_vars(Joined(g))
       /\ WF_vars(sess[g].cancelled /\ Leave(g))
       /\ WF_vars(\E e \in Events : Deliver(g, e))
       /\ WF_vars(Refresh(g))
-----------------------------------------------------------------------------
(* What bringing the messages in promises. *)

TypeOK ==
  /\ phone \in [Threads -> 0 .. MaxPhone]
  /\ rows \in [Threads -> SUBSET Ids]
  /\ anchor \in [Threads -> 0 .. MaxPhone] /\ base \in [Threads -> 0 .. MaxPhone]
  /\ gen \in 0 .. MaxGen /\ lock \in 0 .. MaxGen
  /\ sess \in [Gens ->
       [pc : {"none", "dial", "run", "stop", "wait", "over"}, cancelled : BOOLEAN,
        stream : SUBSET Events, refused : SUBSET Events,
        ref : {"idle", "lock", "threads", "check", "page", "save", "done", "failed"},
        todo : SUBSET Events, cur : Events \cup {None}, off : 0 .. MaxPhone, low : 0 .. MaxPhone]]
  /\ faults \in 0 .. MaxFaults

\* Behind a watermark there is no gap: since the page the first refresh stored,
\* every message up to the watermark is in the table, whichever sessions were
\* interrupted on the way and whatever arrived between two pages (engine.go:
\* "replays recent pages only until each saved watermark is encountered").
NoGap ==
  \A t \in Threads : base[t] > 0 => base[t] .. anchor[t] \subseteq rows[t]

\* A watermark never goes back, although the refresh of a cancelled session may
\* still be running when the next one begins.
AnchorForward == [][\A t \in Threads : anchor'[t] >= anchor[t]]_vars

\* Once a conversation has a watermark, every message the phone has since then
\* gets into the table, in whatever order it arrived, subscriptions broke and
\* sessions were replaced, with two exceptions that last until the next session
\* connects: its refresh ended in an error (it is not tried again, and the status
\* line says "Sync incomplete"), or the table refused that very message when it
\* was announced (history.go:619 reports it and does not ask for it again).
Incomplete == gen > 0 /\ sess[gen].ref = "failed"
Refused(t, i) == gen > 0 /\ <<t, i>> \in sess[gen].refused
CaughtUp ==
  \A t \in Threads : \A i \in Ids :
    (base[t] > 0 /\ i \in base[t] .. phone[t])
      ~> (i \in rows[t] \/ Incomplete \/ Refused(t, i))
=============================================================================
