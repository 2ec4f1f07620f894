--------------------------------- MODULE Echo ---------------------------------
(***************************************************************************)
(* A message sent from here and its echo from the phone: the rows of one   *)
(* person's conversation in the table messages, from the local copy that   *)
(* is written before a send to the phone's own copy that replaces it       *)
(* (internal/storage/conversations.go MergeMessages, upsertThread and      *)
(* MessageStatus, internal/messaging MirrorStatus, and the sends of the    *)
(* client, of the API and of the queue).                                   *)
(*                                                                         *)
(* The phone reports a message by a live event and again with every page   *)
(* that holds it, in any order with the recording of the send, which some  *)
(* other process may be opening the database beside.  A message to someone *)
(* new is written to a local thread, which becomes the phone's own with    *)
(* the first report.                                                       *)
(*                                                                         *)
(* Times are spans of two minutes.  Retrying and deleting are left out.    *)
(***************************************************************************)
EXTENDS Naturals

CONSTANTS
  Bodies,        \* texts
  MaxSends,      \* bound: messages sent from here
  MaxTyped,      \* bound: messages typed on the phone
  MaxFaults,     \* bound: calls that fail and processes that open the database
  MaxSpan        \* bound: how many times two minutes go by

VARIABLES
  rows,          \* messages of the person
  sends,         \* messages under way: how, for which thread, and how far
  phone,         \* messages on the phone
  span,          \* the time
  merged,        \* history: messages of the phone that were reported
  refused,       \* history: messages whose call failed
  odd,           \* history: texts whose echo cannot be told (Reconciled says when)
  count, faults  \* messages and failures so far, for the bounds

echoVars == <<rows, sends, phone, span, merged, refused, odd, count, faults>>

Fault == faults < MaxFaults /\ faults' = faults + 1

Outstanding(b) == {r \in rows : ~r.echo /\ r.body = b /\ r.status \in {"sending", "submitted"}}
\* A message with this text is under way, or its echo is awaited.
Awaited(b) == Outstanding(b) # {} \/ \E s \in sends : s.body = b

EchoInit ==
  /\ rows = {} /\ sends = {} /\ phone = {} /\ span = 0 /\ merged = {}
  /\ refused = {} /\ odd = {}
  /\ count = [sent |-> 0, typed |-> 0] /\ faults = 0

\* A local row and a row of the phone.
Local(i, b, t, s) == [id |-> i, echo |-> FALSE, body |-> b, thread |-> t, status |-> s, at |-> span]
Reported(p) ==
  [id |-> p.id, echo |-> TRUE, body |-> p.body, thread |-> "phone", status |-> "sent", at |-> p.at]
-----------------------------------------------------------------------------
(* Sending: the row, the call, the outcome *)

\* MergeMessages of a local message, in the thread the sender knows; the queue's is
\* "queued" until its outcome is mirrored.
StoreLocal ==
  /\ count.sent < MaxSends /\ count' = [count EXCEPT !.sent = @ + 1]
  /\ \E b \in Bodies, t \in {"local", "phone"}, q \in BOOLEAN :
       /\ t = "phone" => merged # {}
       /\ rows' = rows \cup {Local(count'.sent, b, t, IF q THEN "queued" ELSE "sending")}
       /\ sends' = sends \cup {[id |-> count'.sent, body |-> b, queue |-> q, step |-> "hand"]}
       /\ odd' = odd \cup (IF Awaited(b) \/ \E p \in phone \ merged : p.body = b THEN {b} ELSE {})
  /\ UNCHANGED <<phone, span, merged, refused, faults>>

\* The phone takes the message, or the call fails; a call can fail after all was done.
Hand(s) ==
  /\ s.step = "hand"
  /\ \E taken, ok \in BOOLEAN :
       /\ IF ok THEN taken /\ UNCHANGED faults ELSE Fault
       /\ phone' = IF taken THEN phone \cup {[id |-> s.id, body |-> s.body, at |-> span]} ELSE phone
       /\ sends' = (sends \ {s}) \cup {[s EXCEPT !.step = IF ok THEN "submitted" ELSE "failed"]}
       /\ refused' = IF ok THEN refused ELSE refused \cup {[id |-> s.id, body |-> s.body]}
       /\ odd' = odd \cup (IF taken /\ ~ok THEN {s.body} ELSE {})
  /\ UNCHANGED <<rows, span, merged, count>>

\* MessageStatus, of a row that may be gone; the queue's mirror first writes the row again.
Record(s) ==
  /\ s.step \in {"submitted", "failed"}
  /\ sends' = sends \ {s}
  /\ rows' = {IF r.id = s.id /\ ~r.echo THEN [r EXCEPT !.status = s.step] ELSE r : r \in rows}
  /\ UNCHANGED <<phone, span, merged, refused, odd, count, faults>>
-----------------------------------------------------------------------------
(* The phone's reports *)

\* Mutant of Matching: what is still on its way is not the phone's yet.
Matching_Submitted(all, p) ==
  {r \in all : r.thread = "phone" /\ ~r.echo /\ r.body = p.body /\ r.status = "submitted"
               /\ r.at = p.at}
\* The local copies the echo may stand for.
Matching(all, p) ==
  {r \in all : r.thread = "phone" /\ ~r.echo /\ r.body = p.body
               /\ r.status \in {"sending", "submitted"} /\ r.at = p.at}

\* upsertThread: what was written to the local thread is the phone's thread's.
Promoted(all) == {[r EXCEPT !.thread = "phone"] : r \in all}

\* MergeMessages of a message of the phone: new, it replaces the one local copy
\* it can stand for; known, it changes nothing.
MergeEcho(p) ==
  LET all == Promoted(rows)
      local == Matching(all, p)
  IN  /\ merged' = merged \cup {p}
      /\ rows' = IF Reported(p) \in all THEN all
                 ELSE (IF \E r \in local : local = {r} THEN all \ local ELSE all) \cup {Reported(p)}
      /\ odd' = odd \cup (IF \E s \in sends : s.id = p.id /\ s.queue THEN {p.body} ELSE {})
      /\ UNCHANGED <<sends, phone, span, refused, count, faults>>

\* A message the user typed on the phone.
TypedThere ==
  /\ count.typed < MaxTyped /\ count' = [count EXCEPT !.typed = @ + 1]
  /\ \E b \in Bodies :
       /\ phone' = phone \cup {[id |-> MaxSends + count'.typed, body |-> b, at |-> span]}
       /\ odd' = odd \cup (IF Awaited(b) THEN {b} ELSE {})
  /\ UNCHANGED <<rows, sends, span, merged, refused, faults>>

\* storage.Open by another process.
OpenStore ==
  /\ Fault
  /\ rows' = {IF r.status = "sending" THEN [r EXCEPT !.status = "unknown"] ELSE r : r \in rows}
  /\ odd' = odd \cup {r.body : r \in {q \in rows : q.status = "sending"}}
  /\ UNCHANGED <<sends, phone, span, merged, refused, count>>

\* Two minutes: what waits for the phone until then is not matched any more.
Elapse ==
  /\ span < MaxSpan /\ span' = span + 1
  /\ odd' = odd \cup {s.body : s \in {q \in sends : q.step = "hand"}}
  /\ UNCHANGED <<rows, sends, phone, merged, refused, count, faults>>
-----------------------------------------------------------------------------
EchoNext ==
  \/ StoreLocal \/ TypedThere \/ OpenStore \/ Elapse
  \/ \E s \in sends : Hand(s) \/ Record(s)
  \/ \E p \in phone : MergeEcho(p)
-----------------------------------------------------------------------------
(* Properties *)

\* TypeOK: every variable keeps to its values; a message has at most one local
\* row and one of the phone's.
EchoOK ==
  /\ \A r \in rows :
       /\ r.body \in Bodies /\ r.thread \in {"local", "phone"} /\ r.at \in 0..MaxSpan
       /\ r.status \in {"queued", "sending", "submitted", "failed", "unknown", "sent"}
       /\ r.echo <=> r.status = "sent"
  /\ \A r, q \in rows : r.id = q.id /\ r.echo = q.echo => r = q
  /\ \A s \in sends : s.id \in 1..MaxSends /\ s.step \in {"hand", "submitted", "failed"}
  /\ merged \subseteq phone /\ odd \subseteq Bodies /\ span \in 0..MaxSpan
  /\ count.sent <= MaxSends /\ count.typed <= MaxTyped /\ faults <= MaxFaults

\* Once a text's sends are recorded and the phone has reported its messages,
\* the conversation shows every message exactly once: those the phone has, and
\* those whose call failed.  It is so in whatever order the report, the live event's
\* repetition, the recording of the outcome and the change of the thread fell;
\* only not for a text that was sent again, or typed on the phone, before the
\* echo of the same text came, whose call failed after the phone took it, that another process
\* found being sent, that waited two minutes for the phone, or that the queue
\* sent and the phone reported before the queue recorded it.
Reconciled ==
  \A b \in Bodies \ odd :
    (\A s \in sends : s.body # b) /\ (\A p \in phone \ merged : p.body # b)
      => {r.id : r \in {q \in rows : q.body = b}}
           = {p.id : p \in {q \in phone : q.body = b}}
             \cup {e.id : e \in {f \in refused : f.body = b}}
         /\ \A r, q \in rows : r.body = b /\ q.body = b /\ r.id = q.id => r = q
===============================================================================
