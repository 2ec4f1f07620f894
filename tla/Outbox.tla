------------------------------- MODULE Outbox -------------------------------
(***************************************************************************)
(* The outgoing side of TideSMS: the tables outgoing_queue,                *)
(* scheduled_messages and messages of one SQLite file, and everybody who   *)
(* works on them at the same time:                                         *)
(*                                                                         *)
(*   - passes of the terminal client (TUI): every device refresh and every *)
(*     queue change starts one on a goroutine of its own, so several may   *)
(*     be in flight (internal/app/outbox.go, processQueue);                *)
(*   - the pass of tidesms-daemon, one at a time behind a file lock        *)
(*     (cmd/tidesms-daemon/main.go);                                       *)
(*   - what the user does in the queue view and the send prompts;          *)
(*   - every other process that opens the database (tidesms api, reply).   *)
(*                                                                         *)
(* One action is one SQL statement or transaction, or one call of the      *)
(* phone; what a goroutine carries from one to the next is in `pass` or    *)
(* `cmd`.  Time is two flags: a retry delay is over or not (next), a       *)
(* scheduled time has come or not (at).                                    *)
(***************************************************************************)
EXTENDS QueueRules, FiniteSets

CONSTANTS
  Ids,           \* message ids; a queue row, schedule row and message row share one
  TuiPasses,     \* passes the TUI may have in flight
  DaemonPasses,  \* the daemon's pass: at most one, or none when it is not installed
  MaxAttempts,   \* queue.max_attempts; 0 is unlimited
  Limit,         \* rows a pass takes from the queue
  Allowed,       \* how often each kind of outside event may happen (a bound)
  MaxTries,      \* where the count of failed attempts saturates (a bound)
  None           \* no message

Passes == TuiPasses \cup DaemonPasses

\* Processes that may run a sender.
Procs == {"tui"} \cup (IF DaemonPasses = {} THEN {} ELSE {"daemon"})

\* Counted outside events: a user's command, an answer lost after the phone
\* accepted, a failed SQL statement, a process start or stop, an outage.
Events == {"command", "lostAnswer", "sqlError", "restart", "outage"}

ASSUME OutboxAssumption ==
  /\ IsFiniteSet(Passes)
  /\ TuiPasses \cap DaemonPasses = {}
  /\ \A p, q \in DaemonPasses : p = q
  /\ MaxAttempts \in Nat
  /\ Limit \in Nat \ {0}
  /\ MaxTries \in Nat
  /\ Allowed \in [Events -> Nat]
  /\ None \notin Ids

VARIABLES
  queue,    \* table outgoing_queue
  sched,    \* table scheduled_messages
  msg,      \* status of the locally composed rows of table messages
  clock,    \* orders created_at: the rank of the row queued last by the user
  pass,     \* what each pass is doing, and the rows it carries
  cmd,      \* the user's command in flight in the TUI
  up,       \* processes running
  online,   \* a phone that can send is connected
  left,     \* outside events that may still happen
  handed,   \* times the phone accepted each message
  granted,  \* times each message was entitled to go out
  tries     \* failed attempts at each message

tables == <<queue, sched, msg, clock>>
actors == <<pass, cmd, up>>
ghosts == <<handed, granted, tries>>
vars   == <<tables, actors, online, left, ghosts>>

\* A queue row; state "none" is no row.  `next` is next_attempt_at against the
\* present, `created` is created_at as a rank: even when the user queued the row,
\* odd when a pass released it, for then created_at is when the pass began.
Row == [state : QueueStates \cup {"none"}, attempts : Nat,
        next : {"now", "later"}, offlineWait : BOOLEAN, created : Nat]

NoRow == [state |-> "none", attempts |-> 0, next |-> "now",
          offlineWait |-> FALSE, created |-> 0]

ScheduleRow == [state : {"none", "scheduled", "queued", "sent", "failed"},
                at : {"past", "future"}]

NoSchedule == [state |-> "none", at |-> "past"]

MessageStates == {"none", "queued", "scheduled", "submitted", "failed"}

\* Where a pass stands: the statement it runs next.
PassSteps == {"idle", "listDue", "release", "stamp", "enqueue", "claim", "send",
              "settle", "readSchedule", "writeSchedule", "merge", "status"}

Pass == [at : PassSteps, todo : SUBSET Ids, copy : [Ids -> Row],
         item : Ids \cup {None}, began : Nat]

Idle == [at |-> "idle", todo |-> {}, copy |-> [i \in Ids |-> NoRow], item |-> None,
         began |-> 0]

\* Where the user's command stands.
CmdSteps == {"none", "mergeQueued", "mergeScheduled", "resend", "pause",
             "sendNow", "deleteMessage", "deleteCopy", "dropQueue", "dropSchedule"}

Cmd == [step : CmdSteps, id : Ids \cup {None}, row : Row]

NoCmd == [step |-> "none", id |-> None, row |-> NoRow]

TypeOK ==
  /\ queue \in [Ids -> Row]
  /\ sched \in [Ids -> ScheduleRow]
  /\ msg \in [Ids -> MessageStates]
  /\ clock \in Nat
  /\ pass \in [Passes -> Pass]
  /\ cmd \in Cmd
  /\ up \subseteq Procs
  /\ online \in BOOLEAN
  /\ left \in [Events -> Nat]
  /\ handed \in [Ids -> Nat]
  /\ granted \in [Ids -> Nat]
  /\ tries \in [Ids -> 0 .. MaxTries]

Init ==
  /\ queue = [i \in Ids |-> NoRow]
  /\ sched = [i \in Ids |-> NoSchedule]
  /\ msg = [i \in Ids |-> "none"]
  /\ clock = 0
  /\ pass = [p \in Passes |-> Idle]
  /\ cmd = NoCmd
  /\ up = {}
  /\ online \in BOOLEAN
  /\ left = Allowed
  /\ handed = [i \in Ids |-> 0]
  /\ granted = [i \in Ids |-> 0]
  /\ tries = [i \in Ids |-> 0]

-----------------------------------------------------------------------------
(* The statements of internal/storage. *)

InQueue(i) == queue[i].state # "none"

\* An INSERT of a due row; the primary key refuses a second row of one id.
Enqueued(i, created) ==
  [queue EXCEPT ![i] = [NoRow EXCEPT !.state = "queued", !.created = created]]

\* UPDATE ... WHERE id: whatever the row is by now, and nothing if it is gone.
UpdateQueue(i, row) ==
  queue' = IF InQueue(i)
           THEN [queue EXCEPT ![i] = [row EXCEPT !.created = queue[i].created]]
           ELSE queue

UpdateScheduled(i, row) ==
  sched' = IF sched[i].state # "none" THEN [sched EXCEPT ![i] = row] ELSE sched

ReleaseOfflineWaits ==
  queue' = [i \in Ids |->
              IF queue[i].state = "queued" /\ queue[i].offlineWait
              THEN [queue[i] EXCEPT !.next = "now", !.offlineWait = FALSE]
              ELSE queue[i]]

\* Mutant: recovery puts an interrupted send back in the queue.
RecoverToQueue ==
  queue' = [i \in Ids |-> IF queue[i].state = "sending"
                          THEN [queue[i] EXCEPT !.state = "queued"]
                          ELSE queue[i]]

\* The recovery every Open runs: a row caught mid-send is not sent again.
Recover ==
  queue' = [i \in Ids |-> IF queue[i].state = "sending"
                          THEN [queue[i] EXCEPT !.state = "paused"]
                          ELSE queue[i]]

\* Mutant: the schedule is listed without looking at the time.
DueScheduledAnyTime == {i \in Ids : sched[i].state = "scheduled"}

DueScheduled == {i \in Ids : sched[i] = [state |-> "scheduled", at |-> "past"]}

\* Mutant: the newest rows first.
DueQueueNewest ==
  LET due == {i \in Ids : queue[i].state = "queued" /\ queue[i].next = "now"}
  IN  {rows \in SUBSET due :
         /\ Cardinality(rows) <= Limit
         /\ rows # due => Cardinality(rows) = Limit
         /\ \A i \in rows, j \in due \ rows : queue[i].created >= queue[j].created}

\* The rows a pass may list: due ones, the oldest, up to Limit of them.
DueQueue ==
  LET due == {i \in Ids : queue[i].state = "queued" /\ queue[i].next = "now"}
  IN  {rows \in SUBSET due :
         /\ Cardinality(rows) <= Limit
         /\ rows # due => Cardinality(rows) = Limit
         /\ \A i \in rows, j \in due \ rows : queue[i].created <= queue[j].created}

\* MergeMessages inserts the row or leaves the one there is alone.
MergeMessage(i, status) ==
  msg' = IF msg[i] = "none" THEN [msg EXCEPT ![i] = status] ELSE msg

MessageStatus(i, status) ==
  msg' = IF msg[i] = "none" THEN msg ELSE [msg EXCEPT ![i] = status]

Spend(event) == left[event] > 0 /\ left' = [left EXCEPT ![event] = @ - 1]

-----------------------------------------------------------------------------
(* One pass: release what is due from the schedule, then drain the queue. *)

ProcOf(p) == IF p \in TuiPasses THEN "tui" ELSE "daemon"

At(p, step) == pass[p].at = step

Item(p) == pass[p].item

Goto(p, step) == pass' = [pass EXCEPT ![p].at = step]

\* Release returned an error: the TUI gives the pass up, the daemon logs it
\* and drains the queue all the same.
AbandonRelease(p) ==
  pass' = [pass EXCEPT ![p] = IF p \in TuiPasses THEN Idle ELSE [Idle EXCEPT !.at = "release"]]

\* The loop of ProcessOnce goes on with the rows in todo, if there are any.
DrainOn(p, todo) ==
  pass' = [pass EXCEPT ![p] =
             IF todo = {} THEN Idle
             ELSE [@ EXCEPT !.at = "claim", !.todo = todo, !.item = None]]

\* A TUI pass first ends the offline waits when its device list, which may be
\* out of date, shows the phone.
Begin(p) ==
  /\ At(p, "idle")
  /\ ProcOf(p) \in up
  /\ Goto(p, "listDue")
  /\ \/ UNCHANGED queue
     \/ p \in TuiPasses /\ ReleaseOfflineWaits
  /\ UNCHANGED <<sched, msg, clock, cmd, up, online, left, ghosts>>

ListDueScheduled(p) ==
  /\ At(p, "listDue")
  /\ pass' = [pass EXCEPT ![p].at = "release", ![p].todo = DueScheduled, ![p].began = clock + 1]
  /\ UNCHANGED <<tables, cmd, up, online, left, ghosts>>

ClaimScheduled(p) ==
  /\ At(p, "release")
  /\ \E i \in pass[p].todo :
       \/ /\ i \in DueScheduled
          /\ sched' = [sched EXCEPT ![i].state = "queued"]
          /\ pass' = [pass EXCEPT ![p].at = "stamp", ![p].item = i, ![p].todo = @ \ {i}]
       \/ /\ i \notin DueScheduled
          /\ pass' = [pass EXCEPT ![p].todo = @ \ {i}]
          /\ UNCHANGED sched
  /\ UNCHANGED <<queue, msg, clock, cmd, up, online, left, ghosts>>

StampScheduled(p) ==
  /\ At(p, "stamp")
  /\ UpdateScheduled(Item(p), [state |-> "queued", at |-> "past"])
  /\ Goto(p, "enqueue")
  /\ UNCHANGED <<queue, msg, clock, cmd, up, online, left, ghosts>>

EnqueueScheduled(p) ==
  /\ At(p, "enqueue")
  /\ \/ /\ ~InQueue(Item(p))
        /\ queue' = Enqueued(Item(p), pass[p].began)
        /\ pass' = [pass EXCEPT ![p].at = "release", ![p].item = None]
     \/ /\ InQueue(Item(p))
        /\ AbandonRelease(p)
        /\ UNCHANGED queue
  /\ UNCHANGED <<sched, msg, clock, cmd, up, online, left, ghosts>>

ListDueQueue(p) ==
  /\ At(p, "release")
  /\ pass[p].todo = {}
  /\ \E rows \in DueQueue :
       pass' = [pass EXCEPT ![p] =
         IF rows = {} THEN Idle
         ELSE [Idle EXCEPT !.at = "claim", !.todo = rows,
                 !.copy = [i \in Ids |-> IF i \in rows THEN queue[i] ELSE NoRow]]]
  /\ UNCHANGED <<tables, cmd, up, online, left, ghosts>>

\* Mutant: the claim trusts the list.
ClaimQueueUnguarded(p) ==
  /\ At(p, "claim")
  /\ \E i \in pass[p].todo :
       /\ InQueue(i)
       /\ queue' = [queue EXCEPT ![i].state = "sending", ![i].attempts = @ + 1]
       /\ pass' = [pass EXCEPT ![p].at = "send", ![p].item = i, ![p].todo = @ \ {i}]
  /\ UNCHANGED <<sched, msg, clock, cmd, up, online, left, ghosts>>

\* Mutant: the claim only keeps off rows that are being sent.
ClaimQueueNotSending(p) ==
  /\ At(p, "claim")
  /\ \E i \in pass[p].todo :
       /\ queue[i].state # "sending"
       /\ queue' = [queue EXCEPT ![i].state = "sending", ![i].attempts = @ + 1]
       /\ pass' = [pass EXCEPT ![p].at = "send", ![p].item = i, ![p].todo = @ \ {i}]
  /\ UNCHANGED <<sched, msg, clock, cmd, up, online, left, ghosts>>

\* The oldest listed row, if it is still queued by now.
ClaimQueue(p) ==
  /\ At(p, "claim")
  /\ \E i \in pass[p].todo :
       /\ \A j \in pass[p].todo : pass[p].copy[i].created <= pass[p].copy[j].created
       /\ \/ /\ queue[i].state = "queued"
             /\ queue' = [queue EXCEPT ![i].state = "sending", ![i].attempts = @ + 1]
             /\ pass' = [pass EXCEPT ![p].at = "send", ![p].item = i, ![p].todo = @ \ {i}]
          \/ /\ queue[i].state # "queued"
             /\ DrainOn(p, pass[p].todo \ {i})
             /\ UNCHANGED queue
  /\ UNCHANGED <<sched, msg, clock, cmd, up, online, left, ghosts>>

\* What attempt makes of the row it listed, by the outcome of the send.
SentRow(row) ==
  [row EXCEPT !.state = "sent", !.attempts = @ + 1, !.next = "now", !.offlineWait = FALSE]

\* Mutant: takes back an attempt the listed row does not have.
WaitingRowUnderflow(row) ==
  [row EXCEPT !.state = "queued", !.attempts = @ - 1, !.next = "later", !.offlineWait = TRUE]

\* Mutant: forgets to put the row back in the queue.
WaitingRowSending(row) ==
  [row EXCEPT !.state = "sending", !.next = "later", !.offlineWait = TRUE]

WaitingRow(row) ==
  [row EXCEPT !.state = "queued", !.next = "later", !.offlineWait = TRUE]

RefusedRow(row) ==
  IF Exhausted(row.attempts + 1, MaxAttempts)
  THEN [row EXCEPT !.state = "failed", !.attempts = @ + 1, !.next = "now", !.offlineWait = FALSE]
  ELSE [row EXCEPT !.state = "queued", !.attempts = @ + 1, !.next = "later", !.offlineWait = FALSE]

\* The row the pass carries: as it listed it, and from Answer on as it writes it.
Carried(p) == pass[p].copy[Item(p)]

Answer(p, row) == pass' = [pass EXCEPT ![p].at = "settle", ![p].copy[Item(p)] = row]

Counted(i) == tries' = [tries EXCEPT ![i] = IF @ < MaxTries THEN @ + 1 ELSE @]

Accept(p) ==
  /\ At(p, "send")
  /\ online
  /\ handed' = [handed EXCEPT ![Item(p)] = @ + 1]
  /\ Answer(p, SentRow(Carried(p)))
  /\ UNCHANGED <<tables, cmd, up, online, left, granted, tries>>

Refuse(p) ==
  /\ At(p, "send")
  /\ Counted(Item(p))
  /\ Answer(p, RefusedRow(Carried(p)))
  /\ UNCHANGED <<tables, cmd, up, online, left, handed, granted>>

\* The phone accepted, the call timed out: an error, so the row is retried.
LoseAnswer(p) ==
  /\ At(p, "send")
  /\ online
  /\ Spend("lostAnswer")
  /\ handed' = [handed EXCEPT ![Item(p)] = @ + 1]
  /\ granted' = [granted EXCEPT ![Item(p)] = @ + 1]
  /\ Counted(Item(p))
  /\ Answer(p, RefusedRow(Carried(p)))
  /\ UNCHANGED <<tables, cmd, up, online>>

FindNoPhone(p) ==
  /\ At(p, "send")
  /\ ~online
  /\ Answer(p, WaitingRow(Carried(p)))
  /\ UNCHANGED <<tables, cmd, up, online, left, ghosts>>

\* Mutant: the daemon mirrors the message only.
AfterSettleNoSchedule(p) == "merge"

AfterSettle(p) == IF p \in DaemonPasses THEN "readSchedule" ELSE "merge"

Settle(p) ==
  /\ At(p, "settle")
  /\ UpdateQueue(Item(p), Carried(p))
  /\ Goto(p, AfterSettle(p))
  /\ UNCHANGED <<sched, msg, clock, cmd, up, online, left, ghosts>>

ReadSchedule(p) ==
  /\ At(p, "readSchedule")
  /\ Goto(p, IF sched[Item(p)].state = "queued" /\ Terminal(Carried(p).state)
             THEN "writeSchedule" ELSE "merge")
  /\ UNCHANGED <<tables, cmd, up, online, left, ghosts>>

WriteSchedule(p) ==
  /\ At(p, "writeSchedule")
  /\ UpdateScheduled(Item(p), [state |-> Carried(p).state, at |-> "past"])
  /\ Goto(p, "merge")
  /\ UNCHANGED <<queue, msg, clock, cmd, up, online, left, ghosts>>

MirrorOf(state) ==
  IF state = "sent" THEN "submitted" ELSE IF state = "failed" THEN "failed" ELSE "queued"

MirrorMerge(p) ==
  /\ At(p, "merge")
  /\ MergeMessage(Item(p), MirrorOf(Carried(p).state))
  /\ Goto(p, "status")
  /\ UNCHANGED <<queue, sched, clock, cmd, up, online, left, ghosts>>

\* Mutant: the row is inserted if it is missing, never updated.
MirrorStatusSkipped(p) ==
  /\ At(p, "status")
  /\ DrainOn(p, pass[p].todo)
  /\ UNCHANGED <<tables, cmd, up, online, left, ghosts>>

MirrorStatus(p) ==
  /\ At(p, "status")
  /\ MessageStatus(Item(p), MirrorOf(Carried(p).state))
  /\ DrainOn(p, pass[p].todo)
  /\ UNCHANGED <<queue, sched, clock, cmd, up, online, left, ghosts>>

\* A statement fails: each caller has its own way to go on.
StatementFails(p) ==
  /\ Spend("sqlError")
  /\ \/ /\ \/ pass[p].at \in {"listDue", "stamp", "enqueue"}
           \/ At(p, "release") /\ pass[p].todo # {}
        /\ AbandonRelease(p)
     \/ /\ At(p, "release")
        /\ pass[p].todo = {}
        /\ pass' = [pass EXCEPT ![p] = Idle]
     \/ /\ At(p, "claim")
        /\ \E i \in pass[p].todo :
             /\ \A j \in pass[p].todo : pass[p].copy[i].created <= pass[p].copy[j].created
             /\ DrainOn(p, pass[p].todo \ {i})
     \/ At(p, "settle") /\ Goto(p, AfterSettle(p))
     \/ pass[p].at \in {"readSchedule", "writeSchedule"} /\ Goto(p, "merge")
     \/ pass[p].at \in {"merge", "status"} /\ DrainOn(p, pass[p].todo)
  /\ UNCHANGED <<tables, cmd, up, online, ghosts>>

PassStep(p) ==
  \/ ListDueScheduled(p) \/ ClaimScheduled(p) \/ StampScheduled(p) \/ EnqueueScheduled(p)
  \/ ListDueQueue(p) \/ ClaimQueue(p)
  \/ Accept(p) \/ Refuse(p) \/ LoseAnswer(p) \/ FindNoPhone(p)
  \/ Settle(p) \/ ReadSchedule(p) \/ WriteSchedule(p) \/ MirrorMerge(p) \/ MirrorStatus(p)

-----------------------------------------------------------------------------
(* The user, in the TUI.  A command is a goroutine of a few statements; one is *)
(* in flight at a time. *)

Ready == "tui" \in up /\ cmd = NoCmd

\* What the composer files has a fresh id; a retry of a failed message has the
\* id of that message, and an INSERT may find the row of the first time.
Composed(i) ==
  /\ Ready
  /\ \/ granted[i] = 0 /\ UNCHANGED left
     \/ msg[i] = "failed" /\ Spend("command")

Grant(i) == granted' = [granted EXCEPT ![i] = @ + 1]

QueueForLater(i) ==
  /\ Composed(i)
  /\ \/ /\ ~InQueue(i)
        /\ queue' = Enqueued(i, clock + 2)
        /\ clock' = clock + 2
        /\ Grant(i)
        /\ cmd' = [NoCmd EXCEPT !.step = "mergeQueued", !.id = i]
     \/ InQueue(i) /\ UNCHANGED <<queue, clock, granted, cmd>>
  /\ UNCHANGED <<sched, msg, pass, up, online, handed, tries>>

StoreSchedule(i) ==
  /\ Composed(i)
  /\ \/ /\ sched[i].state = "none"
        /\ sched' = [sched EXCEPT ![i] = [state |-> "scheduled", at |-> "future"]]
        /\ Grant(i)
        /\ cmd' = [NoCmd EXCEPT !.step = "mergeScheduled", !.id = i]
     \/ sched[i].state # "none" /\ UNCHANGED <<sched, granted, cmd>>
  /\ UNCHANGED <<queue, msg, clock, pass, up, online, handed, tries>>

MergeComposed ==
  /\ \/ cmd.step = "mergeQueued" /\ MergeMessage(cmd.id, "queued")
     \/ cmd.step = "mergeScheduled" /\ MergeMessage(cmd.id, "scheduled")
  /\ cmd' = NoCmd
  /\ UNCHANGED <<queue, sched, clock, pass, up, online, left, ghosts>>

\* "s" and "p" in the queue view read the row and write all of it back later.
ReadRow(i) ==
  /\ Ready
  /\ InQueue(i)
  /\ Spend("command")
  /\ \E step \in {"resend", "pause"} :
       cmd' = [step |-> step, id |-> i, row |-> queue[i]]
  /\ UNCHANGED <<tables, pass, up, online, ghosts>>

\* A row the user put back in the queue may go out once more.
Regrant(i) == IF InQueue(i) THEN Grant(i) ELSE UNCHANGED granted

Resend ==
  /\ cmd.step = "resend"
  /\ UpdateQueue(cmd.id, [cmd.row EXCEPT !.state = "queued", !.next = "now"])
  /\ Regrant(cmd.id)
  /\ cmd' = NoCmd
  /\ UNCHANGED <<sched, msg, clock, pass, up, online, left, handed, tries>>

PauseOrResume ==
  /\ cmd.step = "pause"
  /\ \/ /\ cmd.row.state = "paused"
        /\ UpdateQueue(cmd.id, [cmd.row EXCEPT !.state = "queued", !.next = "now"])
        /\ Regrant(cmd.id)
     \/ /\ cmd.row.state = "queued"
        /\ UpdateQueue(cmd.id, [cmd.row EXCEPT !.state = "paused"])
        /\ UNCHANGED granted
     \/ /\ cmd.row.state \notin {"paused", "queued"}
        /\ UpdateQueue(cmd.id, cmd.row)
        /\ UNCHANGED granted
  /\ cmd' = NoCmd
  /\ UNCHANGED <<sched, msg, clock, pass, up, online, left, handed, tries>>

\* "s" on a schedule entry, whatever has become of it since.
FindSchedule(i) ==
  /\ Ready
  /\ sched[i].state # "none"
  /\ Spend("command")
  /\ cmd' = [NoCmd EXCEPT !.step = "sendNow", !.id = i]
  /\ UNCHANGED <<tables, pass, up, online, ghosts>>

SendNow ==
  /\ cmd.step = "sendNow"
  /\ UpdateScheduled(cmd.id, [state |-> "scheduled", at |-> "past"])
  /\ IF sched[cmd.id].state # "none" THEN Grant(cmd.id) ELSE UNCHANGED granted
  /\ cmd' = NoCmd
  /\ UNCHANGED <<queue, msg, clock, pass, up, online, left, handed, tries>>

\* "d" and "e" drop the entry's own row, then the local message.
DropEntry(i) ==
  /\ Ready
  /\ Spend("command")
  /\ \/ /\ InQueue(i)
        /\ queue' = [queue EXCEPT ![i] = NoRow]
        /\ UNCHANGED sched
     \/ /\ sched[i].state # "none"
        /\ sched' = [sched EXCEPT ![i] = NoSchedule]
        /\ UNCHANGED queue
  /\ cmd' = [NoCmd EXCEPT !.step = "deleteMessage", !.id = i]
  /\ UNCHANGED <<msg, clock, pass, up, online, ghosts>>

DeleteMessage ==
  /\ cmd.step = "deleteMessage"
  /\ msg' = [msg EXCEPT ![cmd.id] = "none"]
  /\ cmd' = NoCmd
  /\ UNCHANGED <<queue, sched, clock, pass, up, online, left, ghosts>>

\* Deleting the message in its conversation drops all three rows, one by one.
DeleteLocalCopy(i) ==
  /\ Ready
  /\ msg[i] # "none"
  /\ Spend("command")
  /\ cmd' = [NoCmd EXCEPT !.step = "deleteCopy", !.id = i]
  /\ UNCHANGED <<tables, pass, up, online, ghosts>>

\* The next statement of deleteLocalCopy, which runs them all.
NextDrop ==
  IF cmd.step = "dropSchedule" THEN NoCmd
  ELSE [cmd EXCEPT !.step = IF @ = "deleteCopy" THEN "dropQueue" ELSE "dropSchedule"]

Dropping == cmd.step \in {"deleteCopy", "dropQueue", "dropSchedule"}

DropRows ==
  /\ Dropping
  /\ msg' = IF cmd.step = "deleteCopy" THEN [msg EXCEPT ![cmd.id] = "none"] ELSE msg
  /\ queue' = IF cmd.step = "dropQueue" THEN [queue EXCEPT ![cmd.id] = NoRow] ELSE queue
  /\ sched' = IF cmd.step = "dropSchedule" THEN [sched EXCEPT ![cmd.id] = NoSchedule] ELSE sched
  /\ cmd' = NextDrop
  /\ UNCHANGED <<clock, pass, up, online, left, ghosts>>

CmdStep ==
  MergeComposed \/ Resend \/ PauseOrResume \/ SendNow \/ DeleteMessage \/ DropRows

\* A failed statement ends the command; deleteLocalCopy alone goes on.
CmdFails ==
  /\ cmd # NoCmd
  /\ Spend("sqlError")
  /\ cmd' = IF Dropping THEN NextDrop ELSE NoCmd
  /\ UNCHANGED <<tables, pass, up, online, ghosts>>

-----------------------------------------------------------------------------
(* Processes, the phone and time. *)

Start(proc) ==
  /\ proc \notin up
  /\ up' = up \cup {proc}
  /\ Recover
  /\ UNCHANGED <<sched, msg, clock, pass, cmd, online, left, ghosts>>

\* A crash, or a quit: goroutines are not waited for.
Stop(proc) ==
  /\ proc \in up
  /\ Spend("restart")
  /\ up' = up \ {proc}
  /\ pass' = [p \in Passes |-> IF ProcOf(p) = proc THEN Idle ELSE pass[p]]
  /\ cmd' = IF proc = "tui" THEN NoCmd ELSE cmd
  /\ UNCHANGED <<tables, online, ghosts>>

\* tidesms api and tidesms reply open the database beside a running sender.
OpenElsewhere ==
  /\ Spend("restart")
  /\ Recover
  /\ UNCHANGED <<sched, msg, clock, actors, online, ghosts>>

Disconnect ==
  /\ online
  /\ Spend("outage")
  /\ online' = FALSE
  /\ UNCHANGED <<tables, actors, ghosts>>

Connect ==
  /\ ~online
  /\ online' = TRUE
  /\ UNCHANGED <<tables, actors, left, ghosts>>

\* A retry delay is over.
Elapse(i) ==
  /\ queue[i].next = "later"
  /\ queue' = [queue EXCEPT ![i].next = "now"]
  /\ UNCHANGED <<sched, msg, clock, actors, online, left, ghosts>>

\* A scheduled time has come.
Arrive(i) ==
  /\ sched[i].at = "future"
  /\ sched' = [sched EXCEPT ![i].at = "past"]
  /\ UNCHANGED <<queue, msg, clock, actors, online, left, ghosts>>

User(i) ==
  \/ QueueForLater(i) \/ StoreSchedule(i) \/ ReadRow(i) \/ FindSchedule(i)
  \/ DropEntry(i) \/ DeleteLocalCopy(i)

Next ==
  \/ \E p \in Passes : Begin(p) \/ PassStep(p) \/ StatementFails(p)
  \/ \E i \in Ids : User(i) \/ Elapse(i) \/ Arrive(i)
  \/ CmdStep \/ CmdFails
  \/ \E proc \in Procs : Start(proc) \/ Stop(proc)
  \/ OpenElsewhere \/ Disconnect \/ Connect

Spec == Init /\ [][Next]_vars

-----------------------------------------------------------------------------
(* What the scheduling gives: a goroutine that can go on does, the TUI and *)
(* the daemon keep starting passes (device refresh, ticker) and are started *)
(* again, an outage ends, a delay passes and a scheduled time comes. *)

Fairness ==
  /\ \A p \in Passes : WF_vars(Begin(p)) /\ WF_vars(PassStep(p))
  /\ WF_vars(CmdStep)
  /\ \A proc \in Procs : WF_vars(Start(proc))
  /\ WF_vars(Connect)
  /\ \A i \in Ids : WF_vars(Elapse(i)) /\ WF_vars(Arrive(i))

FairSpec == Spec /\ Fairness

-----------------------------------------------------------------------------
(* What the outbox promises. *)

\* Passes about to hand message i to the phone, or to put it in the queue.
InFlight(i) ==
  {p \in Passes :
     /\ Item(p) = i
     /\ \/ pass[p].at \in {"stamp", "enqueue", "send"}
        \/ At(p, "settle") /\ Carried(p).state = "queued"}

\* Ways in which message i may still reach the phone without the user's doing:
\* a queued row, a row waiting in the schedule, a pass.
Permits(i) ==
  Cardinality(InFlight(i)) + (IF queue[i].state = "queued" THEN 1 ELSE 0)
                           + (IF sched[i].state = "scheduled" THEN 1 ELSE 0)

\* However passes, processes, crashes and the user's commands interleave, the
\* phone accepts a message at most once for its composition, for each command
\* that puts it back in the queue, and for each attempt whose answer was lost;
\* and there are never more claims on it than that leaves.
HandedWithinGrant == \A i \in Ids : handed[i] + Permits(i) <= granted[i]

\* The same as an implementation: every step of the outbox is one of Delivery.
Abstract == INSTANCE Delivery WITH permits <- [i \in Ids |-> Permits(i)]

ImplementsDelivery == Abstract!Spec

\* A message waiting for its time stays in the schedule, and keeps the claim it
\* has there: whatever of it is queued, carried by a pass or with the phone was
\* granted by another command (scheduler/run.go: "never touches a message before
\* its time").
NeverEarly ==
  \A i \in Ids : sched[i].at = "future" =>
    /\ sched[i].state = "scheduled"
    /\ handed[i] + Cardinality(InFlight(i)) + (IF queue[i].state = "queued" THEN 1 ELSE 0)
         < granted[i]

\* While the user leaves the queue alone, no two passes hold one row between
\* the claim and the write of its outcome, whatever restarts and failures do.
OneOwner ==
  \A p, q \in Passes :
    /\ pass[p].at \in {"send", "settle"}
    /\ pass[q].at \in {"send", "settle"}
    /\ Item(p) = Item(q)
    => p = q

\* While the user leaves the queue alone, a row changes state only as
\* CanTransition allows, but for one case: Open paused a row another process
\* was sending, and that process then writes how the send went.
RulesKept ==
  [][\A i \in Ids : InQueue(i) =>
       \/ CanTransition(queue[i].state, queue'[i].state)
       \/ queue[i].state = "paused" /\ queue'[i].state = "sent"]_vars

\* No automatic action moves a sent or failed row (Terminal in queue.go).
TerminalIsFinal ==
  [][\A i \in Ids : Terminal(queue[i].state) => queue'[i].state = queue[i].state]_vars

\* A message goes out before an older one only when an attempt at the older
\* one has come back without success (ProcessOnce: "oldest first").
OldestFirst ==
  [][\A i, j \in Ids :
       /\ handed'[i] > handed[i]
       /\ queue[j].state = "queued"
       /\ queue[j].created < queue[i].created
       => queue[j].attempts > 0 \/ queue[j].offlineWait]_vars

\* A message fails after at most MaxAttempts attempts, offline waits not
\* counted, as long as passes do not overlap.
AttemptBudget == \A i \in Ids : MaxAttempts > 0 => tries[i] <= MaxAttempts

\* Nobody is between two statements about message i.
Quiet(i) == cmd.id # i /\ \A p \in Passes : Item(p) # i

\* With one pass at a time, the conversation shows what became of the row.
MirrorAgrees ==
  \A i \in Ids : InQueue(i) /\ Quiet(i) =>
    \/ msg[i] = MirrorOf(queue[i].state)
    \/ msg[i] = "scheduled" /\ queue[i].state = "queued" /\ queue[i].attempts = 0

\* With the daemon as the only sender, so does the schedule.
ScheduleAgrees ==
  \A i \in Ids : InQueue(i) /\ Quiet(i) =>
    \/ sched[i].state = "none"
    \/ sched[i].state = (IF Terminal(queue[i].state) THEN queue[i].state ELSE "queued")

\* A sent row does not return to the queue (queue.go: CanTransition exists so
\* that it cannot), not even when the user read the row before it was sent.
\* The code does not keep it.
SentNotRequeued ==
  [][\A i \in Ids : queue[i].state = "sent" /\ queue'[i].state = "queued"
                      => cmd.row.state = "sent"]_vars

\* A message released from the schedule is in the queue, or a pass is putting
\* it there (run.go).  The code does not keep it.
ReleasedIsQueued ==
  \A i \in Ids : sched[i].state = "queued" => InQueue(i) \/ InFlight(i) # {}

\* Every message composed is sent or failed in the end.
EveryMessageEnds ==
  \A i \in Ids : granted[i] > 0 ~> queue[i].state \in {"sent", "failed"}
=============================================================================
