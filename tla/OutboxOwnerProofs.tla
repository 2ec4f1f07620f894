-------------------------- MODULE OutboxOwnerProofs --------------------------
(***************************************************************************)
(* While the user leaves the queue alone, a row that is being sent has one *)
(* pass, states change by the rules of internal/queue and a final outcome  *)
(* stays: for any number of messages, passes, restarts, failed statements  *)
(* and lost answers.  With one pass at a time attempts stay within their   *)
(* limit, the oldest message goes first, and what the conversation and the *)
(* schedule show is what became of the row.                                *)
(***************************************************************************)
EXTENDS OutboxProofs

\* The user gives no command: nothing is in flight but the statement that
\* completes what the composer filed.
Alone ==
  /\ left["command"] = 0
  /\ cmd.step \in {"none", "mergeQueued", "mergeScheduled"}

\* A pass in state v holds its row between the claim and the write of the outcome.
Holds(v) == v.at \in {"send", "settle"}

\* The states of a row that a pass holds: the last is what Open makes of it.
HeldStates == {"sending", "paused"}
Outcomes == {"queued", "sent", "failed"}

HeldRows ==
  /\ \A p \in Passes : Holds(pass[p]) => queue[Item(p)].state \in HeldStates
  /\ \A p \in Passes : At(p, "settle") => Carried(p).state \in Outcomes

OwnerInv == HeldRows /\ OneOwner

-----------------------------------------------------------------------------

LEMMA AloneInit == Init /\ Allowed["command"] = 0 => Alone
BY DEF Init, Alone, NoCmd

LEMMA AloneStep == TInv /\ Alone /\ [Next]_vars => Alone'
<1> SUFFICES ASSUME TInv, Alone, [Next]_vars PROVE Alone'
  OBVIOUS
<1>1. left \in [Events -> Nat] /\ left["command"] = 0 /\ cmd.step \in {"none", "mergeQueued", "mergeScheduled"}
  BY DEF TInv, TypeOK, Alone
<1>2. /\ ~Spend("command")
      /\ \A e \in Events \ {"command"} : Spend(e) => left'["command"] = 0
      /\ left' = left => left'["command"] = 0
  BY <1>1 DEF Spend, Events
<1>3. ASSUME NEW p \in Passes, Begin(p) \/ PassStep(p) \/ StatementFails(p) PROVE Alone'
  <2>1. cmd' = cmd
    BY <1>3 DEF Begin, PassStep, StatementFails, tables, ListDueScheduled, ClaimScheduled,
                StampScheduled, EnqueueScheduled, ListDueQueue, ClaimQueue, Accept, Refuse,
                LoseAnswer, FindNoPhone, Settle, ReadSchedule, WriteSchedule, MirrorMerge, MirrorStatus
  <2>2. left' = left \/ Spend("sqlError") \/ Spend("lostAnswer")
    BY <1>3 DEF Begin, PassStep, StatementFails, tables, ListDueScheduled, ClaimScheduled,
                StampScheduled, EnqueueScheduled, ListDueQueue, ClaimQueue, Accept, Refuse,
                LoseAnswer, FindNoPhone, Settle, ReadSchedule, WriteSchedule, MirrorMerge, MirrorStatus
  <2> QED
    BY <1>1, <1>2, <2>1, <2>2 DEF Alone, Events
<1>4. ASSUME NEW i \in Ids, User(i) PROVE Alone'
  <2>1. QueueForLater(i) \/ StoreSchedule(i)
    BY <1>2, <1>4 DEF User, ReadRow, FindSchedule, DropEntry, DeleteLocalCopy
  <2>2. left' = left
    BY <1>2, <2>1 DEF QueueForLater, StoreSchedule, Composed
  <2>3. cmd' = cmd \/ \E step \in {"mergeQueued", "mergeScheduled"} :
                        cmd' = [NoCmd EXCEPT !.step = step, !.id = i]
    BY <2>1 DEF QueueForLater, StoreSchedule
  <2>4. cmd'.step \in {"none", "mergeQueued", "mergeScheduled"}
    BY <1>1, <2>3 DEF NoCmd
  <2> QED
    BY <1>2, <2>2, <2>4 DEF Alone
<1>5. ASSUME NEW i \in Ids, Elapse(i) \/ Arrive(i) PROVE Alone'
  BY <1>5 DEF Elapse, Arrive, actors, Alone
<1>6. ASSUME CmdStep \/ CmdFails PROVE Alone'
  <2>1. cmd' = NoCmd
    BY <1>1, <1>6 DEF CmdStep, CmdFails, MergeComposed, Resend, PauseOrResume, SendNow,
                      DeleteMessage, DropRows, Dropping
  <2>2. left' = left \/ Spend("sqlError")
    BY <1>6 DEF CmdStep, CmdFails, MergeComposed, Resend, PauseOrResume, SendNow,
                DeleteMessage, DropRows
  <2> QED
    BY <1>2, <2>1, <2>2 DEF Alone, Events, NoCmd
<1>7. ASSUME \/ \E proc \in Procs : Start(proc) \/ Stop(proc)
             \/ OpenElsewhere \/ Disconnect \/ Connect \/ UNCHANGED vars
      PROVE  Alone'
  <2>1. cmd' = cmd \/ cmd' = NoCmd
    BY <1>7 DEF Start, Stop, OpenElsewhere, Disconnect, Connect, vars, actors
  <2>2. left' = left \/ Spend("restart") \/ Spend("outage")
    BY <1>7 DEF Start, Stop, OpenElsewhere, Disconnect, Connect, vars
  <2> QED
    BY <1>1, <1>2, <2>1, <2>2 DEF Alone, Events, NoCmd
<1> QED
  BY <1>3, <1>4, <1>5, <1>6, <1>7 DEF Next

-----------------------------------------------------------------------------
(* What a step does to the state of a row. *)

\* The state changes that happen by themselves.
Automatic(i) ==
  \/ queue'[i].state = queue[i].state
  \/ queue[i].state = "none"
  \/ queue[i].state = "queued" /\ queue'[i].state = "sending"
  \/ queue[i].state = "sending" /\ queue'[i].state = "paused"

\* Pass p writes the outcome of row i.
Written(p, i) ==
  /\ Item(p) = i /\ At(p, "settle") /\ ~Holds(pass'[p])
  /\ queue[i].state \in HeldStates
  /\ queue'[i].state \in Outcomes

\* The rows SentRow, WaitingRow and RefusedRow write.
LEMMA OutcomeStates ==
  ASSUME NEW row \in Row
  PROVE  /\ SentRow(row).state \in Outcomes /\ WaitingRow(row).state \in Outcomes
         /\ RefusedRow(row).state \in Outcomes
BY DEF Row, SentRow, WaitingRow, RefusedRow, Outcomes

\* An INSERT takes effect where there was no row, and keeps the others.
LEMMA InsertAutomatic ==
  ASSUME queue \in [Ids -> Row], NEW i \in Ids, NEW n, ~InQueue(i), queue' = Enqueued(i, n)
  PROVE  \A j \in Ids : Automatic(j)
BY DEF Enqueued, InQueue, Automatic

\* The steps of a pass at which no row changes hands.
LEMMA OpenSteps ==
  ASSUME TInv, NEW p \in Passes,
         \/ Begin(p) \/ ListDueScheduled(p) \/ ClaimScheduled(p)
         \/ StampScheduled(p) \/ EnqueueScheduled(p) \/ ListDueQueue(p)
         \/ ReadSchedule(p) \/ WriteSchedule(p) \/ MirrorMerge(p) \/ MirrorStatus(p)
         \/ StatementFails(p)
  PROVE  /\ \A i \in Ids : Automatic(i)
         /\ \E v : pass' = [pass EXCEPT ![p] = v] /\ ~Holds(v)
<1> PassOK /\ queue \in [Ids -> Row] /\ pass[p] \in Pass
  BY Parts DEF PassOK
<1> DEFINE Moved == \E v : pass' = [pass EXCEPT ![p] = v] /\ ~Holds(v)
<1>1. queue' = queue => \A i \in Ids : Automatic(i)
  BY DEF Automatic
<1>2. ASSUME NEW step, step \notin {"send", "settle"}, Goto(p, step) PROVE Moved
  <2> DEFINE v == [pass[p] EXCEPT !.at = step]
  <2>1. pass' = [pass EXCEPT ![p] = v] /\ v.at = step
    BY <1>2 DEF Goto, Pass
  <2> QED
    BY <1>2, <2>1 DEF Holds
<1>3. ASSUME AbandonRelease(p) PROVE Moved
  <2> DEFINE v == IF p \in TuiPasses THEN Idle ELSE [Idle EXCEPT !.at = "release"]
  <2>1. pass' = [pass EXCEPT ![p] = v] /\ v.at \in {"idle", "release"}
    BY <1>3 DEF AbandonRelease, Idle
  <2> QED
    BY <2>1 DEF Holds
<1>4. ASSUME NEW todo, DrainOn(p, todo) PROVE Moved
  <2> DEFINE v == IF todo = {} THEN Idle ELSE [pass[p] EXCEPT !.at = "claim", !.todo = todo, !.item = None]
  <2>1. pass' = [pass EXCEPT ![p] = v]
    BY <1>4 DEF DrainOn
  <2>2. v.at \in {"idle", "claim"}
    BY DEF Idle, Pass
  <2> QED
    BY <2>1, <2>2 DEF Holds
<1>5. CASE Begin(p)
  <2>1. \A i \in Ids : queue'[i].state = queue[i].state
    BY <1>5 DEF Begin, ReleaseOfflineWaits, Row
  <2> QED
    BY <1>2, <1>5, <2>1 DEF Begin, Automatic
<1>6. CASE ListDueScheduled(p)
  <2> DEFINE v == [pass[p] EXCEPT !.at = "release", !.todo = DueScheduled, !.began = clock + 1]
  <2>1. pass' = [pass EXCEPT ![p] = v] /\ v.at = "release"
    BY <1>6 DEF ListDueScheduled, Pass
  <2> QED
    BY <1>1, <1>6, <2>1 DEF ListDueScheduled, tables, Holds
<1>7. CASE ClaimScheduled(p)
  <2>1. PICK i \in pass[p].todo :
          \/ pass' = [pass EXCEPT ![p].at = "stamp", ![p].item = i, ![p].todo = @ \ {i}]
          \/ pass' = [pass EXCEPT ![p].todo = @ \ {i}]
    BY <1>7 DEF ClaimScheduled
  <2> DEFINE v == [pass[p] EXCEPT !.at = "stamp", !.item = i, !.todo = @ \ {i}]
             w == [pass[p] EXCEPT !.todo = @ \ {i}]
  <2>2. v.at = "stamp" /\ w.at = "release"
    BY <1>7 DEF ClaimScheduled, At, Pass
  <2>3. pass' = [pass EXCEPT ![p] = v] \/ pass' = [pass EXCEPT ![p] = w]
    BY <2>1
  <2> QED
    BY <1>1, <1>7, <2>2, <2>3 DEF ClaimScheduled, Holds
<1>8. CASE StampScheduled(p)
  BY <1>1, <1>2, <1>8 DEF StampScheduled
<1>9. CASE EnqueueScheduled(p)
  <2>1. Item(p) \in Ids
    BY <1>9 DEF EnqueueScheduled, At, PassOK, Item, Carrying
  <2>2. \A i \in Ids : Automatic(i)
    BY <1>1, <1>9, <2>1, InsertAutomatic DEF EnqueueScheduled
  <2> DEFINE v == [pass[p] EXCEPT !.at = "release", !.item = None]
  <2>3. v.at = "release"
    BY DEF Pass
  <2>4. AbandonRelease(p) \/ pass' = [pass EXCEPT ![p] = v]
    BY <1>9 DEF EnqueueScheduled
  <2> QED
    BY <1>3, <2>2, <2>3, <2>4 DEF Holds
<1>10. CASE ListDueQueue(p)
  <2>1. PICK rows \in DueQueue :
          pass' = [pass EXCEPT ![p] =
            IF rows = {} THEN Idle
            ELSE [Idle EXCEPT !.at = "claim", !.todo = rows,
                    !.copy = [i \in Ids |-> IF i \in rows THEN queue[i] ELSE NoRow]]]
    BY <1>10 DEF ListDueQueue
  <2> DEFINE v == IF rows = {} THEN Idle
            ELSE [Idle EXCEPT !.at = "claim", !.todo = rows,
                    !.copy = [i \in Ids |-> IF i \in rows THEN queue[i] ELSE NoRow]]
  <2>2. v.at \in {"idle", "claim"}
    BY DEF Idle
  <2>3. pass' = [pass EXCEPT ![p] = v]
    BY <2>1
  <2> QED
    BY <1>1, <1>10, <2>2, <2>3 DEF ListDueQueue, tables, Holds
<1>11. CASE ReadSchedule(p) \/ WriteSchedule(p) \/ MirrorMerge(p)
  BY <1>1, <1>2, <1>11 DEF ReadSchedule, WriteSchedule, MirrorMerge, tables
<1>12. CASE MirrorStatus(p)
  BY <1>1, <1>4, <1>12 DEF MirrorStatus
<1>13. CASE StatementFails(p)
  <2>1. queue' = queue
    BY <1>13 DEF StatementFails, tables
  <2>2. \/ AbandonRelease(p)
        \/ pass' = [pass EXCEPT ![p] = Idle]
        \/ \E todo : DrainOn(p, todo)
        \/ \E step \in {"readSchedule", "merge"} : Goto(p, step)
    BY <1>13 DEF StatementFails, AfterSettle
  <2>3. ~Holds(Idle)
    BY DEF Idle, Holds
  <2>4. ASSUME pass' = [pass EXCEPT ![p] = Idle] PROVE Moved
    BY <2>3, <2>4
  <2> QED
    BY <1>1, <1>2, <1>3, <1>4, <2>1, <2>2, <2>4
<1> QED
  BY <1>5, <1>6, <1>7, <1>8, <1>9, <1>10, <1>11, <1>12, <1>13

\* The claim: one row is taken that was queued, or the pass goes on.
LEMMA ClaimSteps ==
  ASSUME TInv, NEW p \in Passes, ClaimQueue(p)
  PROVE  /\ \A i \in Ids : Automatic(i)
         /\ \E v : /\ pass' = [pass EXCEPT ![p] = v]
                   /\ \/ ~Holds(v)
                      \/ /\ v.at = "send" /\ v.item \in Ids
                         /\ queue[v.item].state = "queued" /\ queue'[v.item].state = "sending"
<1> PassOK /\ queue \in [Ids -> Row] /\ pass[p] \in Pass
  BY Parts DEF PassOK
<1>1. PICK i \in pass[p].todo :
        \/ /\ queue[i].state = "queued"
           /\ queue' = [queue EXCEPT ![i].state = "sending", ![i].attempts = @ + 1]
           /\ pass' = [pass EXCEPT ![p].at = "send", ![p].item = i, ![p].todo = @ \ {i}]
        \/ DrainOn(p, pass[p].todo \ {i}) /\ queue' = queue
  BY DEF ClaimQueue
<1>2. i \in Ids
  BY DEF Pass
<1>3. CASE queue[i].state = "queued"
           /\ queue' = [queue EXCEPT ![i].state = "sending", ![i].attempts = @ + 1]
           /\ pass' = [pass EXCEPT ![p].at = "send", ![p].item = i, ![p].todo = @ \ {i}]
  <2> DEFINE v == [pass[p] EXCEPT !.at = "send", !.item = i, !.todo = @ \ {i}]
  <2>1. pass' = [pass EXCEPT ![p] = v] /\ v.at = "send" /\ v.item = i
    BY <1>3 DEF Pass
  <2>2. \A j \in Ids : queue'[j].state = IF j = i THEN "sending" ELSE queue[j].state
    BY <1>2, <1>3 DEF Row
  <2> QED
    BY <1>2, <1>3, <2>1, <2>2 DEF Automatic
<1>4. CASE DrainOn(p, pass[p].todo \ {i}) /\ queue' = queue
  <2> DEFINE todo == pass[p].todo \ {i}
             v == IF todo = {} THEN Idle ELSE [pass[p] EXCEPT !.at = "claim", !.todo = todo, !.item = None]
  <2>1. pass' = [pass EXCEPT ![p] = v]
    BY <1>4 DEF DrainOn
  <2>2. v.at \in {"idle", "claim"}
    BY DEF Idle, Pass
  <2> QED
    BY <1>4, <2>1, <2>2 DEF Holds, Automatic
<1> QED
  BY <1>1, <1>3, <1>4

\* The send: the pass goes from it to the write with a row that has an outcome.
LEMMA SendSteps ==
  ASSUME TInv, NEW p \in Passes, Accept(p) \/ Refuse(p) \/ LoseAnswer(p) \/ FindNoPhone(p)
  PROVE  /\ queue' = queue /\ At(p, "send")
         /\ \E v : /\ pass' = [pass EXCEPT ![p] = v]
                   /\ v.at = "settle" /\ v.item = Item(p)
                   /\ v.copy[v.item].state \in Outcomes
<1> PassOK /\ pass[p] \in Pass
  BY Parts DEF PassOK
<1>1. queue' = queue /\ At(p, "send")
  BY DEF Accept, Refuse, LoseAnswer, FindNoPhone, tables
<1>2. Item(p) \in Ids /\ Carried(p) \in Row
  BY <1>1 DEF PassOK, At, Item, Carrying, Carried, Pass
<1>3. PICK row : Answer(p, row) /\ row.state \in Outcomes
  BY <1>2, OutcomeStates DEF Accept, Refuse, LoseAnswer, FindNoPhone
<1> DEFINE v == [pass[p] EXCEPT !.at = "settle", !.copy = [@ EXCEPT ![Item(p)] = row]]
<1>4. pass' = [pass EXCEPT ![p] = v]
  BY <1>3 DEF Answer
<1>5. v.at = "settle" /\ v.item = Item(p) /\ v.copy[v.item].state \in Outcomes
  BY <1>2, <1>3 DEF Pass, Item
<1> QED
  BY <1>1, <1>4, <1>5

\* The write of the outcome.
LEMMA SettleSteps ==
  ASSUME TInv, HeldRows, NEW p \in Passes, Settle(p)
  PROVE  /\ Item(p) \in Ids
         /\ \E v : pass' = [pass EXCEPT ![p] = v] /\ ~Holds(v)
         /\ Written(p, Item(p))
         /\ \A j \in Ids \ {Item(p)} : queue'[j] = queue[j]
<1> PassOK /\ queue \in [Ids -> Row] /\ pass[p] \in Pass
  BY Parts DEF PassOK
<1>1. At(p, "settle") /\ Item(p) \in Ids /\ Carried(p) \in Row
  BY DEF Settle, PassOK, At, Item, Carrying, Carried, Pass
<1> DEFINE v == [pass[p] EXCEPT !.at = AfterSettle(p)]
<1>2. pass' = [pass EXCEPT ![p] = v] /\ v.at \in {"readSchedule", "merge"}
  BY DEF Settle, Goto, AfterSettle, Pass
<1>3. queue[Item(p)].state \in HeldStates /\ Carried(p).state \in Outcomes
  BY <1>1 DEF HeldRows, Holds, At
<1>4. InQueue(Item(p))
  BY <1>3 DEF InQueue, HeldStates
<1> DEFINE row == [Carried(p) EXCEPT !.created = queue[Item(p)].created]
<1>5. queue' = [queue EXCEPT ![Item(p)] = row]
  BY <1>4 DEF Settle, UpdateQueue
<1>6. row.state = Carried(p).state
  BY <1>1 DEF Row
<1>7. pass'[p] = v
  BY <1>2 DEF PassOK
<1> QED
  BY <1>1, <1>2, <1>3, <1>5, <1>6, <1>7 DEF Written, Holds

-----------------------------------------------------------------------------
(* The steps that are not of a pass, and the invariant. *)

\* A pass stands where it stood, or holds no row any more.
LetGo == \A p \in Passes : pass'[p] = pass[p] \/ ~Holds(pass'[p])

LEMMA OtherSteps ==
  ASSUME TInv, Alone,
         \/ \E i \in Ids : User(i) \/ Elapse(i) \/ Arrive(i)
         \/ CmdStep \/ CmdFails
         \/ \E proc \in Procs : Start(proc) \/ Stop(proc)
         \/ OpenElsewhere \/ Disconnect \/ Connect \/ UNCHANGED vars
  PROVE  (\A i \in Ids : Automatic(i)) /\ LetGo
<1> queue \in [Ids -> Row]
  BY Parts
<1>0. /\ queue' = queue => \A i \in Ids : Automatic(i)
      /\ pass' = pass => LetGo
  BY DEF Automatic, LetGo
<1>1. ~Spend("command") /\ cmd.step \in {"none", "mergeQueued", "mergeScheduled"}
  BY DEF Alone, Spend
<1>2. ASSUME NEW i \in Ids, User(i) PROVE (\A j \in Ids : Automatic(j)) /\ LetGo
  <2>1. QueueForLater(i) \/ StoreSchedule(i)
    BY <1>1, <1>2 DEF User, ReadRow, FindSchedule, DropEntry, DeleteLocalCopy
  <2>2. pass' = pass
    BY <2>1 DEF QueueForLater, StoreSchedule
  <2>3. queue' = queue \/ (~InQueue(i) /\ queue' = Enqueued(i, clock + 2))
    BY <2>1 DEF QueueForLater, StoreSchedule
  <2> QED
    BY <1>0, <2>2, <2>3, InsertAutomatic
<1>3. ASSUME NEW i \in Ids, Elapse(i) \/ Arrive(i)
      PROVE  (\A j \in Ids : Automatic(j)) /\ LetGo
  <2>1. \A j \in Ids : queue'[j].state = queue[j].state
    BY <1>3 DEF Elapse, Arrive, Row
  <2> QED
    BY <1>0, <1>3, <2>1 DEF Elapse, Arrive, actors, Automatic
<1>4. CASE CmdStep \/ CmdFails
  <2>1. MergeComposed \/ CmdFails
    BY <1>1, <1>4 DEF CmdStep, Resend, PauseOrResume, SendNow, DeleteMessage, DropRows, Dropping
  <2> QED
    BY <1>0, <2>1 DEF MergeComposed, CmdFails, tables
<1>5. Recover => \A i \in Ids : Automatic(i)
  <2>1. ASSUME Recover, NEW i \in Ids
        PROVE  queue'[i].state = IF queue[i].state = "sending" THEN "paused" ELSE queue[i].state
    BY <2>1 DEF Recover, Row
  <2> QED
    BY <2>1 DEF Automatic
<1>6. ASSUME NEW proc \in Procs, Start(proc) \/ Stop(proc)
      PROVE  (\A j \in Ids : Automatic(j)) /\ LetGo
  <2>1. ~Holds(Idle)
    BY DEF Idle, Holds
  <2>2. Stop(proc) => LetGo
    BY <2>1 DEF Stop, LetGo
  <2> QED
    BY <1>0, <1>5, <1>6, <2>2 DEF Start, Stop, tables
<1>7. CASE OpenElsewhere
  BY <1>0, <1>5, <1>7 DEF OpenElsewhere, actors
<1>8. CASE Disconnect \/ Connect \/ UNCHANGED vars
  BY <1>0, <1>8 DEF Disconnect, Connect, vars, tables, actors
<1> QED
  BY <1>2, <1>3, <1>4, <1>6, <1>7, <1>8

\* Where no pass takes a row and states change by themselves, nothing is lost.
LEMMA OwnerKept ==
  ASSUME OwnerInv, \A p \in Passes : Holds(pass[p]) => Item(p) \in Ids,
         \A i \in Ids : Automatic(i), LetGo
  PROVE  OwnerInv'
<1>1. \A i \in Ids : queue[i].state \in HeldStates => queue'[i].state \in HeldStates
  BY DEF Automatic, HeldStates
<1>2. ASSUME NEW p \in Passes, Holds(pass[p])'
      PROVE  Holds(pass[p]) /\ pass'[p] = pass[p]
  BY <1>2 DEF LetGo
<1>3. HeldRows'
  BY <1>1, <1>2 DEF OwnerInv, HeldRows, Holds, Item, At, Carried
<1>4. OneOwner'
  BY <1>2 DEF OwnerInv, OneOwner, Holds, Item
<1> QED
  BY <1>3, <1>4 DEF OwnerInv

LEMMA OwnerStep ==
  ASSUME TInv, Alone, OwnerInv, [Next]_vars
  PROVE  /\ OwnerInv'
         /\ \A i \in Ids : Automatic(i) \/ \E p \in Passes : Written(p, i)
<1> DEFINE Goal == /\ OwnerInv'
                   /\ \A i \in Ids : Automatic(i) \/ \E p \in Passes : Written(p, i)
<1>0. /\ PassOK /\ queue \in [Ids -> Row]
      /\ \A p \in Passes : Holds(pass[p]) => Item(p) \in Ids
  BY Parts DEF PassOK, Holds, Item, Carrying
<1>1. ASSUME \A i \in Ids : Automatic(i), LetGo PROVE Goal
  BY <1>0, <1>1, OwnerKept
<1>2. ASSUME NEW p \in Passes, NEW v, pass' = [pass EXCEPT ![p] = v]
      PROVE  pass'[p] = v /\ \A q \in Passes \ {p} : pass'[q] = pass[q]
  BY <1>0, <1>2 DEF PassOK
<1>3. ASSUME NEW p \in Passes,
             \/ Begin(p) \/ ListDueScheduled(p) \/ ClaimScheduled(p)
             \/ StampScheduled(p) \/ EnqueueScheduled(p) \/ ListDueQueue(p)
             \/ ReadSchedule(p) \/ WriteSchedule(p) \/ MirrorMerge(p) \/ MirrorStatus(p)
             \/ StatementFails(p)
      PROVE  Goal
  <2>1. PICK v : pass' = [pass EXCEPT ![p] = v] /\ ~Holds(v)
    BY <1>3, OpenSteps
  <2>2. LetGo
    BY <1>2, <2>1 DEF LetGo
  <2>3. \A i \in Ids : Automatic(i)
    BY <1>3, OpenSteps
  <2> QED
    BY <1>1, <2>2, <2>3
<1>4. ASSUME NEW p \in Passes, ClaimQueue(p) PROVE Goal
  <2>1. PICK v : /\ pass' = [pass EXCEPT ![p] = v]
                 /\ \/ ~Holds(v)
                    \/ /\ v.at = "send" /\ v.item \in Ids
                       /\ queue[v.item].state = "queued" /\ queue'[v.item].state = "sending"
    BY <1>4, ClaimSteps
  <2>2. \A i \in Ids : Automatic(i)
    BY <1>4, ClaimSteps
  <2>3. CASE ~Holds(v)
    BY <1>1, <1>2, <2>1, <2>2, <2>3 DEF LetGo
  <2>4. CASE v.at = "send" /\ v.item \in Ids
             /\ queue[v.item].state = "queued" /\ queue'[v.item].state = "sending"
    <3>1. pass'[p] = v /\ \A q \in Passes \ {p} : pass'[q] = pass[q]
      BY <1>2, <2>1
    <3>2. \A q \in Passes : Holds(pass[q]) => Item(q) # v.item
      BY <2>4 DEF OwnerInv, HeldRows, HeldStates
    <3>3. \A i \in Ids : queue[i].state \in HeldStates => queue'[i].state \in HeldStates
      BY <2>2 DEF Automatic, HeldStates
    <3>4. HeldRows'
      <4>1. ASSUME NEW q \in Passes, Holds(pass[q])' PROVE (queue[Item(q)].state \in HeldStates)'
        <5>1. CASE q = p
          BY <2>4, <3>1, <5>1 DEF Item, HeldStates
        <5>2. CASE q # p
          BY <1>0, <3>1, <3>3, <4>1, <5>2 DEF OwnerInv, HeldRows, Item
        <5> QED
          BY <5>1, <5>2
      <4>2. ASSUME NEW q \in Passes, At(q, "settle")' PROVE (Carried(q).state \in Outcomes)'
        BY <2>4, <3>1, <4>2 DEF OwnerInv, HeldRows, At, Carried, Item
      <4> QED
        BY <4>1, <4>2 DEF HeldRows
    <3>5. OneOwner'
      BY <2>4, <3>1, <3>2 DEF OwnerInv, OneOwner, Holds, Item
    <3> QED
      BY <2>2, <3>4, <3>5 DEF OwnerInv
  <2> QED
    BY <2>1, <2>3, <2>4
<1>5. ASSUME NEW p \in Passes, Accept(p) \/ Refuse(p) \/ LoseAnswer(p) \/ FindNoPhone(p)
      PROVE  Goal
  <2>1. queue' = queue /\ At(p, "send")
    BY <1>5, SendSteps
  <2>2. PICK v : /\ pass' = [pass EXCEPT ![p] = v]
                 /\ v.at = "settle" /\ v.item = Item(p)
                 /\ v.copy[v.item].state \in Outcomes
    BY <1>5, SendSteps
  <2>3. pass'[p] = v /\ \A q \in Passes \ {p} : pass'[q] = pass[q]
    BY <1>2, <2>2
  <2>4. \A q \in Passes : Item(q)' = Item(q) /\ (Holds(pass[q])' <=> Holds(pass[q]))
    BY <2>1, <2>2, <2>3 DEF Item, Holds, At
  <2>5. \A q \in Passes : At(q, "settle")' => (Carried(q).state \in Outcomes)'
    BY <2>2, <2>3 DEF OwnerInv, HeldRows, At, Carried, Item
  <2>6. HeldRows'
    BY <2>1, <2>4, <2>5 DEF OwnerInv, HeldRows
  <2>7. OneOwner'
    BY <2>4 DEF OwnerInv, OneOwner, Holds
  <2> QED
    BY <2>1, <2>6, <2>7 DEF OwnerInv, Automatic
<1>6. ASSUME NEW p \in Passes, Settle(p) PROVE Goal
  <2>1. /\ Item(p) \in Ids /\ Written(p, Item(p))
        /\ \A j \in Ids \ {Item(p)} : queue'[j] = queue[j]
    BY <1>6, SettleSteps DEF OwnerInv
  <2>2. PICK v : pass' = [pass EXCEPT ![p] = v] /\ ~Holds(v)
    BY <1>6, SettleSteps DEF OwnerInv
  <2>3. pass'[p] = v /\ \A q \in Passes \ {p} : pass'[q] = pass[q]
    BY <1>2, <2>2
  <2>4. ASSUME NEW q \in Passes, Holds(pass[q])'
        PROVE  /\ q # p /\ pass'[q] = pass[q]
               /\ Item(q) # Item(p) /\ queue'[Item(q)] = queue[Item(q)]
    <3>1. q # p /\ pass'[q] = pass[q] /\ Holds(pass[q])
      BY <2>2, <2>3, <2>4
    <3>2. Holds(pass[p])
      BY <2>1 DEF Written, At, Holds
    <3>3. Item(q) # Item(p)
      BY <3>1, <3>2 DEF OwnerInv, OneOwner, Holds
    <3> QED
      BY <1>0, <2>1, <3>1, <3>3
  <2>5. HeldRows'
    <3>1. \A q \in Passes : At(q, "settle")' => Holds(pass[q])'
      BY DEF At, Holds
    <3> QED
      BY <2>4, <3>1 DEF OwnerInv, HeldRows, Item, At, Carried
  <2>6. OneOwner'
    BY <2>4 DEF OwnerInv, OneOwner, Holds, Item
  <2>7. \A j \in Ids : Automatic(j) \/ Written(p, j)
    BY <2>1 DEF Automatic
  <2> QED
    BY <2>5, <2>6, <2>7 DEF OwnerInv
<1>7. ASSUME \/ \E i \in Ids : User(i) \/ Elapse(i) \/ Arrive(i)
             \/ CmdStep \/ CmdFails
             \/ \E proc \in Procs : Start(proc) \/ Stop(proc)
             \/ OpenElsewhere \/ Disconnect \/ Connect \/ UNCHANGED vars
      PROVE  Goal
  <2>1. (\A i \in Ids : Automatic(i)) /\ LetGo
    BY <1>7, OtherSteps
  <2> QED
    BY <1>1, <2>1
<1> QED
  BY <1>3, <1>4, <1>5, <1>6, <1>7 DEF Next, PassStep

-----------------------------------------------------------------------------

LEMMA OwnerInit == Init => OwnerInv
BY DEF Init, Idle, OwnerInv, HeldRows, OneOwner, Holds, At

LEMMA LeftAlone == Allowed["command"] = 0 /\ Spec => [](TInv /\ Alone /\ OwnerInv)
<1>1. Init /\ Allowed["command"] = 0 => Alone /\ OwnerInv
  BY AloneInit, OwnerInit
<1>2. TInv /\ Alone /\ OwnerInv /\ [Next]_vars => Alone' /\ OwnerInv'
  BY AloneStep, OwnerStep
<1> QED
  BY <1>1, <1>2, TypeCorrect, PTL DEF Spec

\* While the user leaves the queue alone, two passes of the TUI, or one of the
\* TUI and the daemon's, never hold the same row: the UPDATE of a claim takes it
\* only when queued, and only its owner writes the outcome.
THEOREM RowHasOneOwner == ASSUME Allowed["command"] = 0 PROVE Spec => []OneOwner
BY LeftAlone, PTL DEF OwnerInv

\* What a step may do to a row: by itself, or by the write of an outcome.
LEMMA RowSteps ==
  ASSUME TInv, Alone, OwnerInv, [Next]_vars, NEW i \in Ids
  PROVE  /\ InQueue(i) => \/ CanTransition(queue[i].state, queue'[i].state)
                          \/ queue[i].state = "paused" /\ queue'[i].state = "sent"
         /\ Terminal(queue[i].state) => queue'[i].state = queue[i].state
<1>1. Automatic(i) \/ \E p \in Passes : Written(p, i)
  BY OwnerStep
<1>2. CASE Automatic(i)
  BY <1>2 DEF Automatic, InQueue, Terminal, CanTransition, LegalChanges
<1>3. CASE \E p \in Passes : Written(p, i)
  BY <1>3 DEF Written, HeldStates, Outcomes, Terminal, CanTransition, LegalChanges
<1> QED
  BY <1>1, <1>2, <1>3

\* While the user leaves the queue alone, rows change state as CanTransition
\* allows, or from paused to sent when Open had paused a row under a sender.
THEOREM StatesByTheRules == ASSUME Allowed["command"] = 0 PROVE Spec => RulesKept
<1>1. TInv /\ Alone /\ OwnerInv /\ [Next]_vars =>
        \A i \in Ids : InQueue(i) =>
          \/ CanTransition(queue[i].state, queue'[i].state)
          \/ queue[i].state = "paused" /\ queue'[i].state = "sent"
  BY RowSteps
<1> QED
  BY <1>1, LeftAlone, PTL DEF Spec, RulesKept

\* While the user leaves the queue alone, a sent or failed row stays as it is:
\* no pass, recovery or release writes over it.
THEOREM OutcomesStay == ASSUME Allowed["command"] = 0 PROVE Spec => TerminalIsFinal
<1>1. TInv /\ Alone /\ OwnerInv /\ [Next]_vars =>
        \A i \in Ids : Terminal(queue[i].state) => queue'[i].state = queue[i].state
  BY RowSteps
<1> QED
  BY <1>1, LeftAlone, PTL DEF Spec, TerminalIsFinal

-----------------------------------------------------------------------------
(* The attempt budget, with one pass at a time. *)

OnePass == \A p, q \in Passes : p = q

\* The steps of a pass that drains the queue with the rows it listed.
Draining == {"claim", "send", "settle", "readSchedule", "writeSchedule", "merge", "status"}

\* As many failures are counted in the row as there were, and one more try is left.
TryLeft(failed, row) == failed <= row.attempts /\ row.attempts < MaxAttempts

QueueWithin ==
  \A i \in Ids :
    /\ tries[i] <= MaxAttempts
    /\ ~InQueue(i) => tries[i] = 0
    /\ queue[i].state = "queued" => TryLeft(tries[i], queue[i])

\* What a pass in state v lists and carries, when t counts the failures.
Within(v, t) ==
  /\ v.at \in Draining => v.item \notin v.todo /\ \A i \in v.todo : TryLeft(t[i], v.copy[i])
  /\ v.at = "send" => TryLeft(t[v.item], v.copy[v.item])
  /\ v.at = "settle" /\ v.copy[v.item].state = "queued" => TryLeft(t[v.item], v.copy[v.item])

BudgetInv == QueueWithin /\ \A p \in Passes : Within(pass[p], tries)

\* Row i is not put back in the queue, and stays as it is there; or it is new.
NotRequeued(i) ==
  \/ /\ InQueue(i)' = InQueue(i)
     /\ queue'[i].state = "queued" => queue[i].state = "queued" /\ queue'[i].attempts = queue[i].attempts
  \/ ~InQueue(i) /\ queue'[i].state = "queued" /\ queue'[i].attempts = 0

LEMMA NotRequeuedWithin ==
  ASSUME MaxAttempts > 0, QueueWithin, tries' = tries, \A i \in Ids : NotRequeued(i)
  PROVE  QueueWithin'
<1> SUFFICES ASSUME NEW i \in Ids
             PROVE  (/\ tries[i] <= MaxAttempts
                     /\ ~InQueue(i) => tries[i] = 0
                     /\ queue[i].state = "queued" => TryLeft(tries[i], queue[i]))'
  BY DEF QueueWithin
<1>1. /\ tries[i] <= MaxAttempts
      /\ ~InQueue(i) => tries[i] = 0
      /\ queue[i].state = "queued" => TryLeft(tries[i], queue[i])
  BY DEF QueueWithin
<1>2. NotRequeued(i)
  OBVIOUS
<1> QED
  BY OutboxAssumption, <1>1, <1>2 DEF NotRequeued, InQueue, TryLeft

\* The statements on the queue that put no row back.
LEMMA NotRequeuedSteps ==
  ASSUME queue \in [Ids -> Row]
  PROVE  /\ queue' = queue => \A i \in Ids : NotRequeued(i)
         /\ ReleaseOfflineWaits => \A i \in Ids : NotRequeued(i)
         /\ Recover => \A i \in Ids : NotRequeued(i)
         /\ \A j \in Ids : Elapse(j) => \A i \in Ids : NotRequeued(i)
         /\ \A j \in Ids, n \in Nat :
              ~InQueue(j) /\ queue' = Enqueued(j, n) => \A i \in Ids : NotRequeued(i)
<1>1. queue' = queue => \A i \in Ids : NotRequeued(i)
  BY DEF NotRequeued, InQueue
<1>2. ASSUME ReleaseOfflineWaits, NEW i \in Ids PROVE NotRequeued(i)
  <2>1. queue'[i].state = queue[i].state /\ queue'[i].attempts = queue[i].attempts
    BY <1>2 DEF ReleaseOfflineWaits, Row
  <2> QED
    BY <2>1 DEF NotRequeued, InQueue
<1>3. ASSUME Recover, NEW i \in Ids PROVE NotRequeued(i)
  <2>1. /\ queue[i].state = "sending" => queue'[i].state = "paused"
        /\ queue[i].state # "sending" => queue'[i] = queue[i]
    BY <1>3 DEF Recover, Row
  <2> QED
    BY <2>1 DEF NotRequeued, InQueue
<1>4. ASSUME NEW j \in Ids, Elapse(j), NEW i \in Ids PROVE NotRequeued(i)
  <2>1. queue'[i].state = queue[i].state /\ queue'[i].attempts = queue[i].attempts
    BY <1>4 DEF Elapse, Row
  <2> QED
    BY <2>1 DEF NotRequeued, InQueue
<1>5. ASSUME NEW j \in Ids, NEW n \in Nat, ~InQueue(j), queue' = Enqueued(j, n), NEW i \in Ids
      PROVE  NotRequeued(i)
  <2>1. /\ i = j => queue'[i].state = "queued" /\ queue'[i].attempts = 0
        /\ i # j => queue'[i] = queue[i]
    BY <1>5 DEF Enqueued, NoRow
  <2> QED
    BY <1>5, <2>1 DEF NotRequeued, InQueue
<1> QED
  BY <1>1, <1>2, <1>3, <1>4, <1>5

\* A pass that turns to the rest of its list, or to another step with it.
LEMMA WithinDrain ==
  ASSUME PassOK, NEW p \in Passes, NEW t, Within(pass[p], t), pass[p].at \in Draining
  PROVE  /\ \A todo \in SUBSET pass[p].todo :
              DrainOn(p, todo) => Within(pass'[p], t)
         /\ \A step \in Draining \ {"send", "settle"} : Goto(p, step) => Within(pass'[p], t)
<1> USE DEF PassOK
<1>1. ASSUME NEW todo \in SUBSET pass[p].todo, DrainOn(p, todo) PROVE Within(pass'[p], t)
  <2>1. CASE todo = {}
    BY <1>1, <2>1 DEF DrainOn, Idle, Within, Draining
  <2>2. CASE todo # {}
    <3>1. /\ pass'[p].at = "claim" /\ pass'[p].todo = todo /\ pass'[p].item = None
          /\ pass'[p].copy = pass[p].copy
      BY <1>1, <2>2 DEF DrainOn, Pass
    <3>2. None \notin todo
      BY OutboxAssumption DEF Pass
    <3> QED
      BY <3>1, <3>2 DEF Within
  <2> QED
    BY <2>1, <2>2
<1>2. ASSUME NEW step \in Draining \ {"send", "settle"}, Goto(p, step) PROVE Within(pass'[p], t)
  <2>1. /\ pass'[p].at = step /\ pass'[p].todo = pass[p].todo /\ pass'[p].item = pass[p].item
        /\ pass'[p].copy = pass[p].copy
    BY <1>2 DEF Goto, Pass
  <2> QED
    BY <2>1 DEF Within
<1> QED
  BY <1>1, <1>2

\* The one pass there is got a value within the budget, and no row was put back.
LEMMA BudgetKept ==
  ASSUME MaxAttempts > 0, TInv, OnePass, QueueWithin, NEW p \in Passes, Within(pass'[p], tries),
         tries' = tries, \A i \in Ids : NotRequeued(i)
  PROVE  BudgetInv'
<1>1. QueueWithin'
  BY NotRequeuedWithin
<1>2. \A q \in Passes : q = p
  BY DEF OnePass
<1>3. \A q \in Passes : Within(pass[q], tries)'
  BY <1>2
<1> QED
  BY <1>1, <1>3 DEF BudgetInv

\* A pass that does not drain the queue is within any budget.
LEMMA WithinOutside ==
  ASSUME NEW v, NEW t, v.at \notin Draining PROVE Within(v, t)
BY DEF Within, Draining

\* The steps of a pass that release, list or mirror.
LEMMA BudgetOpen ==
  ASSUME MaxAttempts > 0, TInv, OnePass, BudgetInv, NEW p \in Passes,
         \/ Begin(p) \/ ListDueScheduled(p) \/ ClaimScheduled(p)
         \/ StampScheduled(p) \/ EnqueueScheduled(p) \/ ListDueQueue(p)
         \/ ReadSchedule(p) \/ WriteSchedule(p) \/ MirrorMerge(p) \/ MirrorStatus(p)
         \/ StatementFails(p)
  PROVE  BudgetInv'
<1> /\ PassOK /\ queue \in [Ids -> Row] /\ pass \in [Passes -> Pass] /\ pass[p] \in Pass
    /\ OtherTypes /\ QueueWithin /\ Within(pass[p], tries)
  BY Parts DEF PassOK, BudgetInv
<1>1. tries' = tries
  BY DEF Begin, ListDueScheduled, ClaimScheduled, StampScheduled, EnqueueScheduled, ListDueQueue,
         ReadSchedule, WriteSchedule, MirrorMerge, MirrorStatus, StatementFails, ghosts
<1>2. \A i \in Ids : NotRequeued(i)
  <2>1. CASE Begin(p)
    BY <2>1, NotRequeuedSteps DEF Begin
  <2>2. CASE EnqueueScheduled(p)
    <3>1. Item(p) \in Ids /\ pass[p].began \in Nat
      BY <2>2 DEF EnqueueScheduled, At, PassOK, Item, Pass, Carrying
    <3> QED
      BY <2>2, <3>1, NotRequeuedSteps DEF EnqueueScheduled
  <2>3. CASE ~Begin(p) /\ ~EnqueueScheduled(p)
    <3>1. queue' = queue
      BY <2>3 DEF ListDueScheduled, ClaimScheduled, StampScheduled, ListDueQueue,
                  ReadSchedule, WriteSchedule, MirrorMerge, MirrorStatus, StatementFails, tables
    <3> QED
      BY <3>1, NotRequeuedSteps
  <2> QED
    BY <2>1, <2>2, <2>3
<1> SUFFICES Within(pass'[p], tries)
  BY <1>1, <1>2, BudgetKept
<1>3. ASSUME pass'[p].at \notin Draining PROVE Within(pass'[p], tries)
  BY <1>3, WithinOutside
<1>4. ASSUME NEW step, step \notin Draining, Goto(p, step) PROVE pass'[p].at \notin Draining
  BY <1>4 DEF Goto, Pass
<1>5. AbandonRelease(p) \/ pass' = [pass EXCEPT ![p] = Idle] => pass'[p].at \notin Draining
  BY DEF AbandonRelease, Idle, Draining
<1>6. ASSUME pass[p].at \in Draining,
             \/ \E todo \in SUBSET pass[p].todo : DrainOn(p, todo)
             \/ \E step \in {"readSchedule", "writeSchedule", "merge", "status"} : Goto(p, step)
      PROVE  Within(pass'[p], tries)
  BY <1>6, WithinDrain DEF Draining
<1>7. CASE Begin(p) \/ StampScheduled(p)
  BY <1>3, <1>4, <1>7 DEF Begin, StampScheduled, Draining
<1>8. CASE ListDueScheduled(p) \/ ClaimScheduled(p)
  <2>1. ListDueScheduled(p) => pass'[p].at = "release"
    BY DEF ListDueScheduled, Pass
  <2>2. ASSUME ClaimScheduled(p) PROVE pass'[p].at \in {"release", "stamp"}
    <3>1. PICK i \in pass[p].todo :
            \/ pass' = [pass EXCEPT ![p].at = "stamp", ![p].item = i, ![p].todo = @ \ {i}]
            \/ pass' = [pass EXCEPT ![p].todo = @ \ {i}]
      BY <2>2 DEF ClaimScheduled
    <3> DEFINE v == [pass[p] EXCEPT !.at = "stamp", !.item = i, !.todo = @ \ {i}]
               w == [pass[p] EXCEPT !.todo = @ \ {i}]
    <3>2. v.at = "stamp" /\ w.at = "release"
      BY <2>2 DEF ClaimScheduled, At, Pass
    <3>3. pass' = [pass EXCEPT ![p] = v] \/ pass' = [pass EXCEPT ![p] = w]
      BY <3>1
    <3> QED
      BY <3>2, <3>3
  <2> QED
    BY <1>3, <1>8, <2>1, <2>2 DEF Draining
<1>9. CASE EnqueueScheduled(p)
  <2>1. AbandonRelease(p) \/ pass'[p].at = "release"
    BY <1>9 DEF EnqueueScheduled, Pass
  <2> QED
    BY <1>3, <1>5, <2>1 DEF Draining
<1>10. CASE ListDueQueue(p)
  <2>1. PICK rows \in DueQueue :
          pass' = [pass EXCEPT ![p] =
            IF rows = {} THEN Idle
            ELSE [Idle EXCEPT !.at = "claim", !.todo = rows,
                    !.copy = [i \in Ids |-> IF i \in rows THEN queue[i] ELSE NoRow]]]
    BY <1>10 DEF ListDueQueue
  <2>2. \A i \in rows : i \in Ids /\ queue[i].state = "queued"
    BY DEF DueQueue
  <2>3. CASE rows = {}
    BY <1>3, <1>5, <2>1, <2>3
  <2>4. CASE rows # {}
    <3>1. /\ pass'[p].at = "claim" /\ pass'[p].todo = rows /\ pass'[p].item = None
          /\ pass'[p].copy = [i \in Ids |-> IF i \in rows THEN queue[i] ELSE NoRow]
      BY <2>1, <2>4 DEF Idle
    <3>2. None \notin rows
      BY OutboxAssumption, <2>2
    <3>3. \A i \in rows : TryLeft(tries[i], pass'[p].copy[i])
      BY <2>2, <3>1 DEF QueueWithin
    <3> QED
      BY <3>1, <3>2, <3>3 DEF Within
  <2> QED
    BY <2>3, <2>4
<1>11. CASE ReadSchedule(p) \/ WriteSchedule(p) \/ MirrorMerge(p)
  BY <1>6, <1>11 DEF ReadSchedule, WriteSchedule, MirrorMerge, At, Draining
<1>12. CASE MirrorStatus(p)
  BY <1>6, <1>12 DEF MirrorStatus, At, Draining
<1>13. CASE StatementFails(p)
  <2>1. \/ AbandonRelease(p) \/ pass' = [pass EXCEPT ![p] = Idle]
        \/ /\ pass[p].at \in Draining
           /\ \/ \E todo \in SUBSET pass[p].todo : DrainOn(p, todo)
              \/ \E step \in {"readSchedule", "writeSchedule", "merge", "status"} : Goto(p, step)
    BY <1>13 DEF StatementFails, At, AfterSettle, Draining
  <2> QED
    BY <1>3, <1>5, <1>6, <2>1
<1> QED
  BY <1>7, <1>8, <1>9, <1>10, <1>11, <1>12, <1>13

\* The claim takes a listed row, of which a try is left, out of the queue.
LEMMA BudgetClaim ==
  ASSUME MaxAttempts > 0, TInv, OnePass, BudgetInv, NEW p \in Passes, ClaimQueue(p)
  PROVE  BudgetInv'
<1> /\ PassOK /\ queue \in [Ids -> Row] /\ pass[p] \in Pass /\ QueueWithin
    /\ Within(pass[p], tries) /\ pass[p].at \in Draining /\ tries' = tries
  BY Parts DEF PassOK, BudgetInv, ClaimQueue, At, Draining, ghosts
<1>1. PICK i \in pass[p].todo :
        \/ /\ queue[i].state = "queued"
           /\ queue' = [queue EXCEPT ![i].state = "sending", ![i].attempts = @ + 1]
           /\ pass' = [pass EXCEPT ![p].at = "send", ![p].item = i, ![p].todo = @ \ {i}]
        \/ DrainOn(p, pass[p].todo \ {i}) /\ queue' = queue
  BY DEF ClaimQueue
<1>2. i \in Ids
  BY DEF Pass
<1>3. CASE queue[i].state = "queued"
           /\ queue' = [queue EXCEPT ![i].state = "sending", ![i].attempts = @ + 1]
           /\ pass' = [pass EXCEPT ![p].at = "send", ![p].item = i, ![p].todo = @ \ {i}]
  <2>1. /\ pass'[p].at = "send" /\ pass'[p].item = i /\ pass'[p].todo = pass[p].todo \ {i}
        /\ pass'[p].copy = pass[p].copy
    BY <1>3 DEF PassOK, Pass
  <2>2. Within(pass'[p], tries)
    BY <2>1 DEF Within
  <2>3. /\ queue'[i].state = "sending"
        /\ \A j \in Ids \ {i} : queue'[j] = queue[j]
    BY <1>2, <1>3 DEF Row
  <2>4. \A j \in Ids : NotRequeued(j)
    BY <1>3, <2>3 DEF NotRequeued, InQueue
  <2> QED
    BY <2>2, <2>4, BudgetKept
<1>4. CASE DrainOn(p, pass[p].todo \ {i}) /\ queue' = queue
  BY <1>4, WithinDrain, NotRequeuedSteps, BudgetKept
<1> QED
  BY <1>1, <1>3, <1>4

\* The rows the outcomes write: a try is counted, and one put back has one left.
LEMMA OutcomeWithin ==
  ASSUME MaxAttempts > 0, NEW row \in Row, NEW failed \in Nat, TryLeft(failed, row)
  PROVE  /\ failed + 1 <= MaxAttempts
         /\ SentRow(row).state # "queued"
         /\ TryLeft(failed, WaitingRow(row))
         /\ RefusedRow(row).state = "queued" => TryLeft(failed + 1, RefusedRow(row))
<1>1. row.attempts \in Nat /\ failed <= row.attempts /\ row.attempts < MaxAttempts
  BY DEF TryLeft, Row
<1>2. failed + 1 <= MaxAttempts
  BY OutboxAssumption, <1>1
<1>3. SentRow(row).state # "queued"
  BY DEF SentRow, Row
<1>4. WaitingRow(row).attempts = row.attempts
  BY DEF WaitingRow, Row
<1>5. TryLeft(failed, WaitingRow(row))
  BY <1>1, <1>4 DEF TryLeft
<1>6. ASSUME RefusedRow(row).state = "queued" PROVE TryLeft(failed + 1, RefusedRow(row))
  <2>1. ~Exhausted(row.attempts + 1, MaxAttempts)
    BY <1>6 DEF RefusedRow, Row
  <2>2. RefusedRow(row).attempts = row.attempts + 1
    BY <2>1 DEF RefusedRow, Row
  <2> QED
    BY OutboxAssumption, <1>1, <2>1, <2>2 DEF TryLeft, Exhausted
<1> QED
  BY <1>2, <1>3, <1>5, <1>6

\* A failed attempt is counted once, and never past what the row has left.
LEMMA BudgetSend ==
  ASSUME MaxAttempts > 0, TInv, OnePass, BudgetInv, OwnerInv, NEW p \in Passes,
         Accept(p) \/ Refuse(p) \/ LoseAnswer(p) \/ FindNoPhone(p)
  PROVE  BudgetInv'
<1> /\ PassOK /\ queue \in [Ids -> Row] /\ pass[p] \in Pass /\ QueueWithin /\ OtherTypes
    /\ Within(pass[p], tries)
  BY Parts DEF PassOK, BudgetInv
<1>1. queue' = queue /\ At(p, "send")
  BY DEF Accept, Refuse, LoseAnswer, FindNoPhone, tables
<1>2. Item(p) \in Ids /\ Carried(p) \in Row /\ tries[Item(p)] \in Nat
  BY <1>1 DEF PassOK, At, Item, Carrying, Carried, Pass, OtherTypes
<1>3. TryLeft(tries[Item(p)], Carried(p)) /\ Item(p) \notin pass[p].todo
  BY <1>1 DEF Within, At, Item, Carried, Draining
<1>4. InQueue(Item(p)) /\ queue[Item(p)].state # "queued"
  BY <1>1 DEF OwnerInv, HeldRows, Holds, At, HeldStates, InQueue
<1>5. PICK row \in Row, failed \in {tries[Item(p)], tries[Item(p)] + 1} :
        /\ Answer(p, row)
        /\ tries'[Item(p)] <= failed
        /\ row.state = "queued" => TryLeft(failed, row)
        /\ tries' \in [Ids -> 0 .. MaxTries]
        /\ \A j \in Ids \ {Item(p)} : tries'[j] = tries[j]
  <2>1. ASSUME Counted(Item(p))
        PROVE  /\ tries' \in [Ids -> 0 .. MaxTries]
               /\ tries'[Item(p)] <= tries[Item(p)] + 1
               /\ \A j \in Ids \ {Item(p)} : tries'[j] = tries[j]
    BY <1>2, <2>1, OutboxAssumption DEF Counted, OtherTypes
  <2>2. CASE Accept(p)
    BY <1>2, <1>3, <2>2, OutcomeWithin, RowTypes DEF Accept, OtherTypes
  <2>3. CASE FindNoPhone(p)
    BY <1>2, <1>3, <2>3, OutcomeWithin, RowTypes DEF FindNoPhone, ghosts, OtherTypes
  <2>4. CASE Refuse(p) \/ LoseAnswer(p)
    <3>1. Counted(Item(p)) /\ Answer(p, RefusedRow(Carried(p)))
      BY <2>4 DEF Refuse, LoseAnswer
    <3> QED
      BY <1>2, <1>3, <2>1, <3>1, OutcomeWithin, RowTypes
  <2> QED
    BY <2>2, <2>3, <2>4
<1>6. /\ tries'[Item(p)] \in Nat /\ failed \in Nat /\ failed <= MaxAttempts
      /\ tries'[Item(p)] <= MaxAttempts
      /\ row.state = "queued" => TryLeft(tries'[Item(p)], row)
  <2>1. failed <= MaxAttempts /\ failed \in Nat /\ tries'[Item(p)] \in Nat
    BY <1>2, <1>3, <1>5, OutcomeWithin DEF QueueWithin
  <2>2. ASSUME row.state = "queued" PROVE TryLeft(tries'[Item(p)], row)
    <3>1. row.state = "queued" => failed <= row.attempts /\ row.attempts < MaxAttempts
      BY <1>5 DEF TryLeft
    <3> QED
      BY <1>5, <2>1, <2>2, <3>1 DEF TryLeft, Row
  <2> QED
    BY <1>5, <2>1, <2>2, OutboxAssumption
<1>7. QueueWithin'
  BY <1>1, <1>4, <1>5, <1>6 DEF QueueWithin, InQueue
<1>8. /\ pass'[p].at = "settle" /\ pass'[p].todo = pass[p].todo /\ pass'[p].item = Item(p)
      /\ pass'[p].copy = [pass[p].copy EXCEPT ![Item(p)] = row]
  BY <1>5 DEF Answer, PassOK, Pass, Item
<1>9. Within(pass'[p], tries')
  <2>1. pass'[p].copy[Item(p)] = row
    BY <1>2, <1>8 DEF Pass
  <2>2. \A i \in pass[p].todo : i # Item(p) /\ i \in Ids
                                /\ tries'[i] = tries[i] /\ pass'[p].copy[i] = pass[p].copy[i]
    BY <1>3, <1>5, <1>8 DEF Pass
  <2>3. \A i \in pass[p].todo : TryLeft(tries[i], pass[p].copy[i])
    BY <1>1 DEF Within, At, Draining
  <2> QED
    BY <1>3, <1>6, <1>8, <2>1, <2>2, <2>3 DEF Within
<1> QED
  BY <1>7, <1>9 DEF BudgetInv, OnePass

\* What is written back into the queue has a try left.
LEMMA BudgetSettle ==
  ASSUME MaxAttempts > 0, TInv, OnePass, BudgetInv, OwnerInv, NEW p \in Passes, Settle(p)
  PROVE  BudgetInv'
<1> /\ PassOK /\ queue \in [Ids -> Row] /\ pass[p] \in Pass /\ QueueWithin
    /\ Within(pass[p], tries)
  BY Parts DEF PassOK, BudgetInv
<1>1. At(p, "settle") /\ Item(p) \in Ids /\ Carried(p) \in Row /\ tries' = tries
  BY DEF Settle, PassOK, At, Item, Carrying, Carried, Pass, ghosts
<1>2. InQueue(Item(p)) /\ Carried(p).state # "none"
  BY <1>1 DEF OwnerInv, HeldRows, Holds, At, HeldStates, Outcomes, InQueue
<1> DEFINE row == [Carried(p) EXCEPT !.created = queue[Item(p)].created]
<1>3. queue' = [queue EXCEPT ![Item(p)] = row]
  BY <1>2 DEF Settle, UpdateQueue
<1>4. row.state = Carried(p).state /\ row.attempts = Carried(p).attempts
  BY <1>1 DEF Row
<1>5. queue'[Item(p)] = row /\ \A j \in Ids \ {Item(p)} : queue'[j] = queue[j]
  BY <1>1, <1>3
<1>6. Carried(p).state = "queued" => TryLeft(tries[Item(p)], Carried(p))
  BY <1>1 DEF Within, At, Carried, Item
<1>7. QueueWithin'
  BY <1>1, <1>2, <1>4, <1>5, <1>6 DEF QueueWithin, InQueue, TryLeft
<1>8. Within(pass'[p], tries)
  BY <1>1, WithinDrain DEF Settle, At, AfterSettle, Draining
<1> QED
  BY <1>1, <1>7, <1>8 DEF BudgetInv, OnePass

\* What is not a pass stops one, puts a new row in the queue, or leaves both.
LEMMA OtherMoves ==
  ASSUME TInv, Alone,
         \/ \E i \in Ids : User(i) \/ Elapse(i) \/ Arrive(i)
         \/ CmdStep \/ CmdFails
         \/ \E proc \in Procs : Start(proc) \/ Stop(proc)
         \/ OpenElsewhere \/ Disconnect \/ Connect \/ UNCHANGED vars
  PROVE  /\ \A p \in Passes : pass'[p] = pass[p] \/ pass'[p] = Idle
         /\ \A i \in Ids : NotRequeued(i)
         /\ UNCHANGED <<handed, tries>>
<1> queue \in [Ids -> Row] /\ clock + 2 \in Nat
  BY Parts DEF OtherTypes
<1>1. ~Spend("command") /\ cmd.step \in {"none", "mergeQueued", "mergeScheduled"}
  BY DEF Alone, Spend
<1>2. ASSUME NEW i \in Ids, User(i)
      PROVE  /\ pass' = pass /\ UNCHANGED <<handed, tries>>
             /\ queue' = queue \/ (~InQueue(i) /\ queue' = Enqueued(i, clock + 2))
  <2>1. QueueForLater(i) \/ StoreSchedule(i)
    BY <1>1, <1>2 DEF User, ReadRow, FindSchedule, DropEntry, DeleteLocalCopy
  <2> QED
    BY <2>1 DEF QueueForLater, StoreSchedule
<1>3. ASSUME NEW i \in Ids, Elapse(i) \/ Arrive(i)
      PROVE  pass' = pass /\ UNCHANGED <<handed, tries>> /\ (queue' = queue \/ Elapse(i))
  BY <1>3 DEF Elapse, Arrive, actors, ghosts
<1>4. ASSUME CmdStep \/ CmdFails PROVE UNCHANGED <<pass, queue, handed, tries>>
  <2>1. MergeComposed \/ CmdFails
    BY <1>1, <1>4 DEF CmdStep, Resend, PauseOrResume, SendNow, DeleteMessage, DropRows, Dropping
  <2> QED
    BY <2>1 DEF MergeComposed, CmdFails, tables, ghosts
<1>5. ASSUME NEW proc \in Procs, Start(proc) \/ Stop(proc)
      PROVE  /\ \A p \in Passes : pass'[p] = pass[p] \/ pass'[p] = Idle
             /\ queue' = queue \/ Recover
             /\ UNCHANGED <<handed, tries>>
  BY <1>5 DEF Start, Stop, tables, ghosts
<1>6. ASSUME OpenElsewhere \/ Disconnect \/ Connect \/ UNCHANGED vars
      PROVE  /\ pass' = pass /\ UNCHANGED <<handed, tries>>
             /\ queue' = queue \/ Recover
  BY <1>6 DEF OpenElsewhere, Disconnect, Connect, vars, tables, actors, ghosts
<1> QED
  BY <1>2, <1>3, <1>4, <1>5, <1>6, NotRequeuedSteps

LEMMA BudgetStep ==
  ASSUME MaxAttempts > 0, TInv, Alone, OnePass, OwnerInv, BudgetInv, [Next]_vars
  PROVE  BudgetInv'
<1>1. ASSUME NEW p \in Passes, Begin(p) \/ PassStep(p) \/ StatementFails(p) PROVE BudgetInv'
  BY <1>1, BudgetOpen, BudgetClaim, BudgetSend, BudgetSettle DEF PassStep
<1>2. ASSUME \/ \E i \in Ids : User(i) \/ Elapse(i) \/ Arrive(i)
             \/ CmdStep \/ CmdFails
             \/ \E proc \in Procs : Start(proc) \/ Stop(proc)
             \/ OpenElsewhere \/ Disconnect \/ Connect \/ UNCHANGED vars
      PROVE  BudgetInv'
  <2>1. /\ \A p \in Passes : pass'[p] = pass[p] \/ pass'[p] = Idle
        /\ \A i \in Ids : NotRequeued(i)
        /\ tries' = tries
    BY <1>2, OtherMoves
  <2>2. Within(Idle, tries)
    BY WithinOutside DEF Idle, Draining
  <2> QED
    BY <2>1, <2>2, NotRequeuedWithin DEF BudgetInv
<1> QED
  BY <1>1, <1>2 DEF Next

\* With one pass at a time and the user away, a message fails after MaxAttempts
\* attempts at most, whatever restarts, failed statements and lost answers do:
\* the row a pass listed counts every failure before it, and is put back only
\* while one is left.
THEOREM AttemptsBounded ==
  ASSUME OnePass, Allowed["command"] = 0 PROVE Spec => []AttemptBudget
<1>1. CASE MaxAttempts > 0
  <2>1. Init => BudgetInv
    <3>1. Init => QueueWithin
      BY <1>1, OutboxAssumption DEF Init, QueueWithin, NoRow, InQueue
    <3>2. Init => \A p \in Passes : pass[p] = Idle
      BY DEF Init
    <3>3. Within(Idle, tries)
      BY WithinOutside DEF Idle, Draining
    <3> QED
      BY <3>1, <3>2, <3>3 DEF BudgetInv
  <2>2. TInv /\ Alone /\ OwnerInv /\ BudgetInv /\ [Next]_vars => BudgetInv'
    BY <1>1, BudgetStep
  <2>3. BudgetInv => AttemptBudget
    BY DEF BudgetInv, QueueWithin, AttemptBudget
  <2> QED
    BY <2>1, <2>2, <2>3, LeftAlone, PTL DEF Spec
<1>2. CASE ~(MaxAttempts > 0)
  <2>1. AttemptBudget
    BY <1>2 DEF AttemptBudget
  <2> QED
    BY <2>1, PTL
<1> QED
  BY <1>1, <1>2

-----------------------------------------------------------------------------
(* The order of the queue, with one pass at a time and no failed statement. *)

\* Outside events are only used up.
LEMMA LeftFalls ==
  ASSUME TInv, [Next]_vars PROVE \A e \in Events : left[e] = 0 => left'[e] = 0
<1>1. left' = left \/ \E e \in Events : Spend(e)
  <2>1. ASSUME NEW p \in Passes, Begin(p) \/ PassStep(p) \/ StatementFails(p)
        PROVE  left' = left \/ Spend("lostAnswer") \/ Spend("sqlError")
    BY <2>1 DEF Begin, PassStep, StatementFails, tables, ListDueScheduled, ClaimScheduled,
                StampScheduled, EnqueueScheduled, ListDueQueue, ClaimQueue, Accept, Refuse,
                LoseAnswer, FindNoPhone, Settle, ReadSchedule, WriteSchedule, MirrorMerge, MirrorStatus
  <2>2. ASSUME NEW i \in Ids, User(i) \/ Elapse(i) \/ Arrive(i)
        PROVE  left' = left \/ Spend("command")
    BY <2>2 DEF User, Elapse, Arrive, QueueForLater, StoreSchedule, Composed, ReadRow,
                FindSchedule, DropEntry, DeleteLocalCopy
  <2>3. ASSUME CmdStep \/ CmdFails PROVE left' = left \/ Spend("sqlError")
    BY <2>3 DEF CmdStep, CmdFails, MergeComposed, Resend, PauseOrResume, SendNow,
                DeleteMessage, DropRows
  <2>4. ASSUME \/ \E proc \in Procs : Start(proc) \/ Stop(proc)
               \/ OpenElsewhere \/ Disconnect \/ Connect \/ UNCHANGED vars
        PROVE  left' = left \/ Spend("restart") \/ Spend("outage")
    BY <2>4 DEF Start, Stop, OpenElsewhere, Disconnect, Connect, vars
  <2> QED
    BY <2>1, <2>2, <2>3, <2>4 DEF Next, Events
<1>2. \A e \in Events : Spend(e) => \A f \in Events : left[f] = 0 => left'[f] = 0
  BY DEF TInv, TypeOK, Spend
<1> QED
  BY <1>1, <1>2

\* Row i waits for its first attempt.
Fresh(i) == queue[i].state = "queued" /\ queue[i].attempts = 0 /\ ~queue[i].offlineWait

\* created_at lies in the past, and a row waiting for its first attempt is due.
Dated ==
  /\ \A i \in Ids : InQueue(i) => queue[i].created <= clock + 1
  /\ \A i \in Ids : Fresh(i) => queue[i].next = "now"
  /\ \A p \in Passes : pass[p].began <= clock + 1

\* A pass in state v that drains the queue has listed the oldest fresh rows and
\* sends no row that is younger than a fresh one.
InOrder(v) ==
  /\ v.at \in Draining =>
       /\ v.item \notin v.todo
       /\ \A k \in v.todo :
            /\ InQueue(k)
            /\ v.copy[k].created = queue[k].created
            /\ \A j \in Ids \ v.todo : Fresh(j) => queue[k].created <= queue[j].created
  /\ v.at = "send" => \A j \in Ids : Fresh(j) => queue[v.item].created <= queue[j].created
  /\ v.at = "settle" /\ v.copy[v.item].state = "queued" =>
       v.copy[v.item].attempts > 0 \/ v.copy[v.item].offlineWait

OrderInv == Dated /\ \A p \in Passes : InOrder(pass[p])

\* Row i stays and keeps its date; it becomes fresh only as the youngest row.
Aged(i) ==
  /\ InQueue(i) => InQueue(i)' /\ queue'[i].created = queue[i].created
  /\ Fresh(i)' => Fresh(i) \/ (~InQueue(i) /\ queue'[i].created > clock + 1)

LEMMA InOrderKept ==
  ASSUME queue \in [Ids -> Row], queue' \in [Ids -> Row], clock \in Nat, Dated,
         \A i \in Ids : Aged(i), NEW v \in Pass, InOrder(v),
         v.at = "send" => v.item \in Ids /\ InQueue(v.item)
  PROVE  InOrder(v)'
<1>1. ASSUME NEW k \in Ids, InQueue(k), NEW j \in Ids, Fresh(j)',
             Fresh(j) => queue[k].created <= queue[j].created
      PROVE  queue'[k].created <= queue'[j].created
  <2>1. queue'[k].created = queue[k].created /\ queue[k].created <= clock + 1
    BY <1>1 DEF Aged, Dated
  <2>2. /\ queue[k].created \in Nat /\ queue'[k].created \in Nat
        /\ queue[j].created \in Nat /\ queue'[j].created \in Nat
    BY DEF Row
  <2>3. CASE Fresh(j)
    BY <1>1, <2>1, <2>3 DEF Aged, Fresh, InQueue
  <2>4. CASE ~Fresh(j)
    BY <1>1, <2>1, <2>2, <2>4 DEF Aged
  <2> QED
    BY <2>3, <2>4
<1>2. ASSUME v.at \in Draining, NEW k \in v.todo
      PROVE  /\ InQueue(k)'
             /\ v.copy[k].created = queue'[k].created
             /\ \A j \in Ids \ v.todo : Fresh(j)' => queue'[k].created <= queue'[j].created
  <2>1. k \in Ids /\ InQueue(k) /\ v.copy[k].created = queue[k].created
        /\ \A j \in Ids \ v.todo : Fresh(j) => queue[k].created <= queue[j].created
    BY <1>2 DEF InOrder, Pass
  <2> QED
    BY <1>1, <2>1 DEF Aged
<1>3. ASSUME v.at = "send" PROVE \A j \in Ids : Fresh(j)' => queue'[v.item].created <= queue'[j].created
  BY <1>1, <1>3 DEF InOrder
<1> QED
  BY <1>2, <1>3 DEF InOrder

\* A pass goes on to another step with its list, or to the rest of it.
LEMMA InOrderDrain ==
  ASSUME PassOK, NEW p \in Passes, InOrder(pass[p]), pass[p].at \in Draining
  PROVE  /\ \A i : ~Fresh(i) /\ DrainOn(p, pass[p].todo \ {i}) => InOrder(pass'[p])
         /\ DrainOn(p, pass[p].todo) => InOrder(pass'[p])
         /\ \A step \in Draining \ {"send", "settle"} : Goto(p, step) => InOrder(pass'[p])
<1> USE DEF PassOK
<1>1. ASSUME NEW todo \in SUBSET pass[p].todo, DrainOn(p, todo),
             \A j \in pass[p].todo \ todo : ~Fresh(j)
      PROVE  InOrder(pass'[p])
  <2>1. CASE todo = {}
    BY <1>1, <2>1 DEF DrainOn, Idle, InOrder, Draining
  <2>2. CASE todo # {}
    <3>1. /\ pass'[p].at = "claim" /\ pass'[p].todo = todo /\ pass'[p].item = None
          /\ pass'[p].copy = pass[p].copy
      BY <1>1, <2>2 DEF DrainOn, Pass
    <3>2. None \notin todo
      BY OutboxAssumption DEF Pass
    <3>3. \A k \in todo : /\ InQueue(k) /\ pass[p].copy[k].created = queue[k].created
                          /\ \A j \in Ids \ todo : Fresh(j) => queue[k].created <= queue[j].created
      BY <1>1 DEF InOrder
    <3> QED
      BY <3>1, <3>2, <3>3 DEF InOrder
  <2> QED
    BY <2>1, <2>2
<1>2. ASSUME NEW step \in Draining \ {"send", "settle"}, Goto(p, step) PROVE InOrder(pass'[p])
  <2>1. /\ pass'[p].at = step /\ pass'[p].todo = pass[p].todo /\ pass'[p].item = pass[p].item
        /\ pass'[p].copy = pass[p].copy
    BY <1>2 DEF Goto, Pass
  <2> QED
    BY <2>1 DEF InOrder
<1>3. ASSUME NEW i, ~Fresh(i), DrainOn(p, pass[p].todo \ {i}) PROVE InOrder(pass'[p])
  BY <1>1, <1>3
<1>4. ASSUME DrainOn(p, pass[p].todo) PROVE InOrder(pass'[p])
  BY <1>1, <1>4
<1> QED
  BY <1>2, <1>3, <1>4

\* The one pass there is got a value in order, and the rows only aged.
LEMMA OrderKept ==
  ASSUME TInv, TInv', OnePass, Dated, Dated', \A i \in Ids : Aged(i),
         NEW p \in Passes, InOrder(pass'[p]), pass'[p].at = "send" => InQueue(pass'[p].item)
  PROVE  OrderInv'
<1> PassOK' /\ queue \in [Ids -> Row] /\ queue' \in [Ids -> Row] /\ clock \in Nat
  BY DEF TInv, TypeOK, ItemHeld, PassOK, Item, Carried
<1>1. PICK v \in Pass : v = pass'[p]
  BY DEF PassOK
<1>2. v.at = "send" => v.item \in Ids
  BY <1>1 DEF PassOK, Carrying
<1>3. InOrder(v)'
  BY <1>1, <1>2, InOrderKept
<1>4. \A q \in Passes : pass'[q] = v
  BY <1>1 DEF OnePass
<1>5. \A q \in Passes : InOrder(pass[q])'
  BY <1>3, <1>4 DEF InOrder
<1> QED
  BY <1>5 DEF OrderInv

\* The statements on the queue age it, and keep it dated.
LEMMA AgedSteps ==
  ASSUME queue \in [Ids -> Row], clock \in Nat, Dated
  PROVE  /\ queue' = queue => \A i \in Ids : Aged(i)
         /\ queue' = queue /\ clock' = clock /\ (\A p \in Passes : pass'[p].began <= clock + 1) => Dated'
         /\ Recover \/ (\E j \in Ids : Elapse(j)) => \A i \in Ids : Aged(i)
         /\ (Recover \/ \E j \in Ids : Elapse(j)) /\ clock' = clock
              /\ (\A p \in Passes : pass'[p].began <= clock + 1) => Dated'
<1>1. queue' = queue => \A i \in Ids : Aged(i)
  BY DEF Aged, InQueue, Fresh
<1>2. ASSUME queue' = queue, clock' = clock, \A p \in Passes : pass'[p].began <= clock + 1
      PROVE  Dated'
  BY <1>2 DEF Dated, InQueue, Fresh
<1>3. ASSUME Recover \/ \E j \in Ids : Elapse(j), NEW i \in Ids
      PROVE  /\ queue'[i].created = queue[i].created
             /\ InQueue(i)' = InQueue(i)
             /\ Fresh(i)' => Fresh(i)
             /\ Fresh(i)' => queue'[i].next = "now"
  <2>1. CASE Recover
    <3>1. /\ queue[i].state # "sending" => queue'[i] = queue[i]
          /\ queue[i].state = "sending" =>
               queue'[i].state = "paused" /\ queue'[i].created = queue[i].created
      BY <2>1 DEF Recover, Row
    <3> QED
      BY <3>1 DEF InQueue, Fresh, Dated
  <2>2. ASSUME NEW j \in Ids, Elapse(j)
        PROVE  /\ queue'[i].created = queue[i].created
               /\ InQueue(i)' = InQueue(i)
               /\ Fresh(i)' => Fresh(i)
               /\ Fresh(i)' => queue'[i].next = "now"
    <3>1. /\ i # j => queue'[i] = queue[i]
          /\ i = j => queue'[i].next = "now"
          /\ queue'[i].state = queue[i].state /\ queue'[i].created = queue[i].created
          /\ queue'[i].attempts = queue[i].attempts
          /\ queue'[i].offlineWait = queue[i].offlineWait
      BY <2>2 DEF Elapse, Row
    <3> QED
      BY <3>1 DEF InQueue, Fresh, Dated
  <2> QED
    BY <1>3, <2>1, <2>2
<1>4. Recover \/ (\E j \in Ids : Elapse(j)) => \A i \in Ids : Aged(i)
  BY <1>3 DEF Aged
<1>5. (Recover \/ \E j \in Ids : Elapse(j)) /\ clock' = clock
        /\ (\A p \in Passes : pass'[p].began <= clock + 1) => Dated'
  BY <1>3 DEF Dated
<1> QED
  BY <1>1, <1>2, <1>4, <1>5

\* An INSERT keeps the queue dated, when the date is not in the future.
LEMMA DatedInsert ==
  ASSUME queue \in [Ids -> Row], clock \in Nat, clock' \in Nat, clock <= clock', Dated,
         NEW i \in Ids, ~InQueue(i), NEW n \in Nat, n <= clock' + 1, queue' = Enqueued(i, n),
         \A p \in Passes : pass'[p].began \in Nat /\ pass'[p].began <= clock' + 1
  PROVE  Dated'
<1>1. /\ queue'[i].created = n /\ queue'[i].next = "now"
      /\ \A j \in Ids \ {i} : queue'[j] = queue[j]
  BY DEF Enqueued, NoRow
<1>2. \A j \in Ids : queue[j].created \in Nat
  BY DEF Row
<1>3. ASSUME NEW j \in Ids
      PROVE  /\ InQueue(j)' => queue'[j].created <= clock' + 1
             /\ Fresh(j)' => queue'[j].next = "now"
  <2>1. CASE j = i
    BY <1>1, <2>1
  <2>2. CASE j # i
    <3>1. queue'[j] = queue[j] /\ queue[j].created \in Nat
      BY <1>1, <1>2, <2>2
    <3>2. InQueue(j)' => queue[j].created <= clock + 1
      BY <3>1 DEF Dated, InQueue
    <3>3. Fresh(j)' => queue[j].next = "now"
      BY <3>1 DEF Dated, Fresh
    <3> QED
      BY <3>1, <3>2, <3>3
  <2> QED
    BY <2>1, <2>2
<1> QED
  BY <1>3 DEF Dated

\* The one pass there is does not drain the queue.
LEMMA OrderOutside ==
  ASSUME OnePass, Dated', NEW p \in Passes, pass'[p].at \notin Draining
  PROVE  OrderInv'
<1>1. \A q \in Passes : q = p
  BY DEF OnePass
<1>2. \A q \in Passes : InOrder(pass[q])'
  BY <1>1 DEF InOrder, Draining
<1> QED
  BY <1>2 DEF OrderInv

\* The steps of a pass that release or list.
LEMMA OrderRelease ==
  ASSUME TInv, TInv', OnePass, OrderInv, NEW p \in Passes,
         \/ Begin(p) \/ ListDueScheduled(p) \/ ClaimScheduled(p)
         \/ StampScheduled(p) \/ EnqueueScheduled(p)
  PROVE  OrderInv'
<1> /\ PassOK /\ queue \in [Ids -> Row] /\ pass \in [Passes -> Pass] /\ pass[p] \in Pass
    /\ clock \in Nat /\ clock + 1 \in Nat /\ pass[p].began \in Nat
    /\ Dated /\ pass[p].began <= clock + 1
  BY Parts DEF PassOK, OtherTypes, OrderInv, Dated, Pass
<1>0. clock' = clock
  BY DEF Begin, ListDueScheduled, ClaimScheduled, StampScheduled, EnqueueScheduled, tables
<1>1. ASSUME pass'[p].began <= clock + 1 PROVE \A q \in Passes : pass'[q].began <= clock + 1
  BY <1>1 DEF OnePass
<1>2. ASSUME NEW step, Goto(p, step) PROVE pass'[p].at = step /\ pass'[p].began = pass[p].began
  BY <1>2 DEF Goto, Pass
<1>3. ASSUME AbandonRelease(p) PROVE pass'[p].at \in {"idle", "release"} /\ pass'[p].began = 0
  BY <1>3 DEF AbandonRelease, Idle
<1>4. CASE Begin(p)
  <2>1. pass'[p].at = "listDue" /\ \A q \in Passes : pass'[q].began <= clock + 1
    BY <1>1, <1>2, <1>4 DEF Begin
  <2>2. ASSUME NEW i \in Ids, ReleaseOfflineWaits
        PROVE  /\ InQueue(i)' = InQueue(i) /\ queue'[i].created = queue[i].created
               /\ Fresh(i)' => queue'[i].next = "now"
    <3>1. CASE queue[i].state = "queued" /\ queue[i].offlineWait
      <4>1. queue'[i] = [queue[i] EXCEPT !.next = "now", !.offlineWait = FALSE]
        BY <2>2, <3>1 DEF ReleaseOfflineWaits
      <4> QED
        BY <4>1 DEF InQueue, Row
    <3>2. CASE ~(queue[i].state = "queued" /\ queue[i].offlineWait)
      <4>1. queue'[i] = queue[i]
        BY <2>2, <3>2 DEF ReleaseOfflineWaits
      <4> QED
        BY <4>1 DEF InQueue, Fresh, Dated
    <3> QED
      BY <3>1, <3>2
  <2>3. Dated'
    <3>1. CASE queue' = queue
      BY <1>0, <2>1, <3>1, AgedSteps
    <3>2. CASE ReleaseOfflineWaits
      BY <1>0, <2>1, <2>2, <3>2 DEF Dated
    <3> QED
      BY <1>4, <3>1, <3>2 DEF Begin
  <2> QED
    BY <2>1, <2>3, OrderOutside DEF Draining
<1>5. CASE ListDueScheduled(p)
  <2>1. pass'[p].at = "release" /\ pass'[p].began = clock + 1 /\ queue' = queue
    BY <1>5 DEF ListDueScheduled, tables, Pass
  <2>2. Dated'
    BY <1>0, <1>1, <2>1, AgedSteps
  <2> QED
    BY <2>1, <2>2, OrderOutside DEF Draining
<1>6. CASE ClaimScheduled(p)
  <2>1. PICK i \in pass[p].todo :
          \/ pass' = [pass EXCEPT ![p].at = "stamp", ![p].item = i, ![p].todo = @ \ {i}]
          \/ pass' = [pass EXCEPT ![p].todo = @ \ {i}]
    BY <1>6 DEF ClaimScheduled
  <2> DEFINE v == [pass[p] EXCEPT !.at = "stamp", !.item = i, !.todo = @ \ {i}]
             w == [pass[p] EXCEPT !.todo = @ \ {i}]
  <2>2. v.at = "stamp" /\ w.at = "release" /\ v.began = pass[p].began /\ w.began = pass[p].began
    BY <1>6 DEF ClaimScheduled, At, Pass
  <2>3. pass' = [pass EXCEPT ![p] = v] \/ pass' = [pass EXCEPT ![p] = w]
    BY <2>1
  <2>4. pass'[p].at \in {"stamp", "release"} /\ pass'[p].began = pass[p].began
    BY <2>2, <2>3
  <2>5. Dated'
    BY <1>0, <1>1, <1>6, <2>4, AgedSteps DEF ClaimScheduled
  <2> QED
    BY <2>4, <2>5, OrderOutside DEF Draining
<1>7. CASE StampScheduled(p)
  <2>1. pass'[p].at = "enqueue" /\ pass'[p].began = pass[p].began /\ queue' = queue
    BY <1>2, <1>7 DEF StampScheduled
  <2>2. Dated'
    BY <1>0, <1>1, <2>1, AgedSteps
  <2> QED
    BY <2>1, <2>2, OrderOutside DEF Draining
<1>8. CASE EnqueueScheduled(p)
  <2>1. Item(p) \in Ids
    BY <1>8 DEF EnqueueScheduled, At, PassOK, Item, Carrying
  <2> DEFINE v == [pass[p] EXCEPT !.at = "release", !.item = None]
  <2>2. v.at = "release" /\ v.began = pass[p].began
    BY DEF Pass
  <2>3. pass'[p].at \in {"idle", "release"} /\ pass'[p].began \in Nat /\ pass'[p].began <= clock + 1
    <3>1. AbandonRelease(p) \/ pass' = [pass EXCEPT ![p] = v]
      BY <1>8 DEF EnqueueScheduled
    <3>2. CASE AbandonRelease(p)
      BY <1>3, <3>2
    <3>3. CASE pass' = [pass EXCEPT ![p] = v]
      <4>1. pass'[p] = v
        BY <3>3
      <4> QED
        BY <2>2, <4>1
    <3> QED
      BY <3>1, <3>2, <3>3
  <2>4. Dated'
    <3>1. \A q \in Passes : pass'[q].began \in Nat /\ pass'[q].began <= clock' + 1
      BY <1>0, <2>3 DEF OnePass
    <3>2. CASE ~InQueue(Item(p)) /\ queue' = Enqueued(Item(p), pass[p].began)
      BY <1>0, <2>1, <3>1, <3>2, DatedInsert
    <3>3. CASE queue' = queue
      BY <1>0, <3>1, <3>3, AgedSteps
    <3> QED
      BY <1>8, <3>2, <3>3 DEF EnqueueScheduled
  <2> QED
    BY <2>3, <2>4, OrderOutside DEF Draining
<1> QED
  BY <1>4, <1>5, <1>6, <1>7, <1>8

\* The list: of the rows that are due the oldest, and a fresh row is due.
LEMMA OrderList ==
  ASSUME TInv, TInv', OnePass, OrderInv, NEW p \in Passes, ListDueQueue(p)
  PROVE  OrderInv'
<1> /\ PassOK /\ queue \in [Ids -> Row] /\ pass[p] \in Pass /\ clock \in Nat /\ Dated
  BY Parts DEF PassOK, OtherTypes, OrderInv
<1>0. queue' = queue /\ clock' = clock
  BY DEF ListDueQueue, tables
<1>1. PICK rows \in DueQueue :
        pass' = [pass EXCEPT ![p] =
          IF rows = {} THEN Idle
          ELSE [Idle EXCEPT !.at = "claim", !.todo = rows,
                  !.copy = [i \in Ids |-> IF i \in rows THEN queue[i] ELSE NoRow]]]
  BY DEF ListDueQueue
<1>2. /\ \A i \in rows : i \in Ids /\ InQueue(i)
      /\ \A i \in rows, j \in Ids \ rows : Fresh(j) => queue[i].created <= queue[j].created
  BY DEF DueQueue, Fresh, InQueue, Dated
<1>3. pass'[p].began = 0
  BY <1>1 DEF PassOK, Idle
<1>4. Dated'
  BY <1>0, <1>3, AgedSteps DEF OnePass
<1>5. CASE rows = {}
  BY <1>1, <1>4, <1>5, OrderOutside DEF PassOK, Idle, Draining
<1>6. CASE rows # {}
  <2>1. /\ pass'[p].at = "claim" /\ pass'[p].todo = rows /\ pass'[p].item = None
        /\ pass'[p].copy = [i \in Ids |-> IF i \in rows THEN queue[i] ELSE NoRow]
    BY <1>1, <1>6 DEF Idle, PassOK
  <2>2. None \notin rows
    BY OutboxAssumption, <1>2
  <2>3. InOrder(pass'[p])
    BY <1>2, <2>1, <2>2 DEF InOrder
  <2> QED
    BY <1>0, <1>4, <2>1, <2>3, OrderKept, AgedSteps
<1> QED
  BY <1>5, <1>6

\* The claim takes the oldest row of the list, and no fresh row is older.
LEMMA OrderClaim ==
  ASSUME TInv, TInv', OnePass, OrderInv, NEW p \in Passes, ClaimQueue(p)
  PROVE  OrderInv'
<1> /\ PassOK /\ queue \in [Ids -> Row] /\ pass \in [Passes -> Pass] /\ pass[p] \in Pass
    /\ clock \in Nat /\ Dated /\ InOrder(pass[p]) /\ pass[p].at = "claim"
    /\ \A q \in Passes : pass[q].began <= clock + 1
  BY Parts DEF PassOK, OtherTypes, OrderInv, ClaimQueue, At, Dated
<1>0. clock' = clock /\ pass[p].at \in Draining
  BY DEF ClaimQueue, Draining
<1>1. PICK i \in pass[p].todo :
        /\ \A j \in pass[p].todo : pass[p].copy[i].created <= pass[p].copy[j].created
        /\ \/ /\ queue[i].state = "queued"
              /\ queue' = [queue EXCEPT ![i].state = "sending", ![i].attempts = @ + 1]
              /\ pass' = [pass EXCEPT ![p].at = "send", ![p].item = i, ![p].todo = @ \ {i}]
           \/ /\ queue[i].state # "queued"
              /\ DrainOn(p, pass[p].todo \ {i})
              /\ queue' = queue
  BY DEF ClaimQueue
<1>2. i \in Ids /\ InQueue(i)
  BY <1>0 DEF Pass, InOrder
<1>3. CASE /\ queue[i].state = "queued"
           /\ queue' = [queue EXCEPT ![i].state = "sending", ![i].attempts = @ + 1]
           /\ pass' = [pass EXCEPT ![p].at = "send", ![p].item = i, ![p].todo = @ \ {i}]
  <2>1. /\ pass'[p].at = "send" /\ pass'[p].item = i /\ pass'[p].todo = pass[p].todo \ {i}
        /\ pass'[p].copy = pass[p].copy /\ pass'[p].began = pass[p].began
    BY <1>3 DEF Pass
  <2>2. /\ queue'[i].state = "sending" /\ queue'[i].created = queue[i].created
        /\ \A j \in Ids \ {i} : queue'[j] = queue[j]
    BY <1>2, <1>3 DEF Row
  <2>3. \A j \in Ids : Fresh(j) => queue[i].created <= queue[j].created
    BY <1>0, <1>1 DEF InOrder
  <2>4. \A j \in Ids : Aged(j)
    BY <1>2, <2>2 DEF Aged, InQueue, Fresh
  <2>5. \A q \in Passes : pass'[q].began <= clock + 1
    BY <2>1 DEF OnePass
  <2>6. Dated'
    BY <1>0, <1>2, <2>2, <2>5 DEF Dated, InQueue, Fresh
  <2>7. ASSUME NEW w, w = pass'[p] PROVE InOrder(w)'
    <3>1. \A j \in Ids : Fresh(j)' => j # i /\ Fresh(j) /\ queue'[j] = queue[j]
      BY <2>2 DEF Fresh
    <3>2. ASSUME NEW k \in pass[p].todo \ {i}
          PROVE  /\ k \in Ids /\ queue'[k] = queue[k] /\ InQueue(k)
                 /\ pass[p].copy[k].created = queue[k].created
                 /\ \A j \in Ids \ pass[p].todo : Fresh(j) => queue[k].created <= queue[j].created
      BY <1>0, <2>2 DEF InOrder, Pass
    <3>3. \A k \in w.todo :
            /\ InQueue(k)'
            /\ w.copy[k].created = queue'[k].created
            /\ \A j \in Ids \ w.todo : Fresh(j)' => queue'[k].created <= queue'[j].created
      BY <2>1, <2>7, <3>1, <3>2 DEF InQueue
    <3>4. \A j \in Ids : Fresh(j)' => queue'[w.item].created <= queue'[j].created
      BY <2>1, <2>2, <2>3, <2>7, <3>1
    <3>5. w.at = "send" /\ w.item \notin w.todo
      BY <2>1, <2>7
    <3> QED
      BY <3>3, <3>4, <3>5 DEF InOrder
  <2>8. \A q \in Passes : q = p
    BY DEF OnePass
  <2>9. \A q \in Passes : InOrder(pass[q])'
    BY <2>7, <2>8 DEF InOrder
  <2> QED
    BY <2>6, <2>9 DEF OrderInv
<1>4. CASE queue[i].state # "queued" /\ DrainOn(p, pass[p].todo \ {i}) /\ queue' = queue
  <2>1. InOrder(pass'[p])
    BY <1>0, <1>4, InOrderDrain DEF Fresh
  <2>2. pass'[p].began <= clock + 1 /\ pass'[p].at # "send"
    <3> DEFINE v == [pass[p] EXCEPT !.at = "claim", !.todo = pass[p].todo \ {i}, !.item = None]
    <3>1. v.at = "claim" /\ v.began = pass[p].began
      BY DEF Pass
    <3>2. pass'[p] = Idle \/ pass'[p] = v
      BY <1>4 DEF DrainOn
    <3>3. Idle.at = "idle" /\ Idle.began <= clock + 1
      BY DEF Idle
    <3> HIDE DEF v
    <3> QED
      BY <3>1, <3>2, <3>3
  <2>3. Dated'
    BY <1>0, <1>4, <2>2, AgedSteps DEF OnePass
  <2> QED
    BY <1>4, <2>1, <2>2, <2>3, OrderKept, AgedSteps
<1> QED
  BY <1>1, <1>3, <1>4

\* The mirror leaves the queue and goes on with the list.
LEMMA OrderMirror ==
  ASSUME TInv, TInv', OnePass, OrderInv, NEW p \in Passes,
         ReadSchedule(p) \/ WriteSchedule(p) \/ MirrorMerge(p) \/ MirrorStatus(p)
  PROVE  OrderInv'
<1> /\ PassOK /\ queue \in [Ids -> Row] /\ pass \in [Passes -> Pass] /\ pass[p] \in Pass
    /\ clock \in Nat /\ Dated /\ InOrder(pass[p]) /\ pass[p].began <= clock + 1
  BY Parts DEF PassOK, OtherTypes, OrderInv, Dated
<1>0. queue' = queue /\ clock' = clock
  BY DEF ReadSchedule, WriteSchedule, MirrorMerge, MirrorStatus, tables
<1>1. /\ pass[p].at \in Draining
      /\ \/ \E step \in {"writeSchedule", "merge", "status"} : Goto(p, step)
         \/ DrainOn(p, pass[p].todo)
  BY DEF ReadSchedule, WriteSchedule, MirrorMerge, MirrorStatus, At, Draining
<1>2. InOrder(pass'[p])
  BY <1>1, InOrderDrain DEF Draining
<1>3. pass'[p].at # "send" /\ pass'[p].began <= clock + 1
  <2>1. ASSUME NEW step \in {"writeSchedule", "merge", "status"}, Goto(p, step)
        PROVE  pass'[p].at = step /\ pass'[p].began = pass[p].began
    BY <2>1 DEF Goto, Pass
  <2>2. ASSUME DrainOn(p, pass[p].todo) PROVE pass'[p].at # "send" /\ pass'[p].began <= clock + 1
    <3> DEFINE v == [pass[p] EXCEPT !.at = "claim", !.todo = pass[p].todo, !.item = None]
    <3>1. v.at = "claim" /\ v.began = pass[p].began
      BY DEF Pass
    <3>2. pass'[p] = Idle \/ pass'[p] = v
      BY <2>2 DEF DrainOn
    <3>3. Idle.at = "idle" /\ Idle.began <= clock + 1
      BY DEF Idle
    <3> HIDE DEF v
    <3> QED
      BY <3>1, <3>2, <3>3
  <2> QED
    BY <1>1, <2>1, <2>2
<1>4. Dated'
  BY <1>0, <1>3, AgedSteps DEF OnePass
<1> QED
  BY <1>0, <1>2, <1>3, <1>4, OrderKept, AgedSteps

\* The send leaves the queue; what it will put back in it is not fresh.
LEMMA OrderSend ==
  ASSUME TInv, TInv', OnePass, OrderInv, NEW p \in Passes,
         Accept(p) \/ Refuse(p) \/ LoseAnswer(p) \/ FindNoPhone(p)
  PROVE  OrderInv'
<1> /\ PassOK /\ queue \in [Ids -> Row] /\ pass \in [Passes -> Pass] /\ pass[p] \in Pass
    /\ clock \in Nat /\ Dated /\ InOrder(pass[p]) /\ pass[p].began <= clock + 1
  BY Parts DEF PassOK, OtherTypes, OrderInv, Dated
<1>0. queue' = queue /\ clock' = clock /\ pass[p].at = "send" /\ pass[p].at \in Draining
  BY DEF Accept, Refuse, LoseAnswer, FindNoPhone, At, tables, Draining
<1>1. Item(p) \in Ids /\ Carried(p) \in Row
  BY <1>0 DEF PassOK, Item, Carrying, Carried, Pass
<1>2. PICK row : Answer(p, row) /\ (row.state = "queued" => row.attempts > 0 \/ row.offlineWait)
  <2>1. PICK was \in Row : was = Carried(p)
    BY <1>1
  <2>2. SentRow(was).state # "queued"
    BY DEF SentRow, Row
  <2>3. WaitingRow(was).offlineWait
    BY DEF WaitingRow, Row
  <2>4. RefusedRow(was).attempts > 0
    BY DEF RefusedRow, Row
  <2> QED
    BY <2>1, <2>2, <2>3, <2>4 DEF Accept, Refuse, LoseAnswer, FindNoPhone
<1>3. /\ pass'[p].at = "settle" /\ pass'[p].todo = pass[p].todo /\ pass'[p].item = Item(p)
      /\ pass'[p].copy = [pass[p].copy EXCEPT ![Item(p)] = row] /\ pass'[p].began = pass[p].began
  BY <1>2 DEF Answer, Pass, Item
<1>4. pass'[p].copy[Item(p)] = row /\ \A k \in Ids \ {Item(p)} : pass'[p].copy[k] = pass[p].copy[k]
  BY <1>1, <1>3 DEF Pass
<1>5. InOrder(pass'[p])
  <2>1. ASSUME NEW k \in pass[p].todo
        PROVE  /\ InQueue(k) /\ pass'[p].copy[k].created = queue[k].created
               /\ \A j \in Ids \ pass[p].todo : Fresh(j) => queue[k].created <= queue[j].created
    <3>1. k \in Ids /\ k # Item(p)
      BY <1>0 DEF InOrder, Item, Pass
    <3> QED
      BY <1>0, <1>4, <3>1 DEF InOrder
  <2>2. Item(p) \notin pass[p].todo
    BY <1>0 DEF InOrder, Item
  <2> QED
    BY <1>2, <1>3, <1>4, <2>1, <2>2 DEF InOrder
<1>6. Dated'
  BY <1>0, <1>3, AgedSteps DEF OnePass
<1> QED
  BY <1>0, <1>3, <1>5, <1>6, OrderKept, AgedSteps

\* What is written back is not fresh, and keeps the date of its row.
LEMMA OrderSettle ==
  ASSUME TInv, TInv', OnePass, OrderInv, OwnerInv, NEW p \in Passes, Settle(p)
  PROVE  OrderInv'
<1> /\ PassOK /\ queue \in [Ids -> Row] /\ pass \in [Passes -> Pass] /\ pass[p] \in Pass
    /\ clock \in Nat /\ Dated /\ InOrder(pass[p]) /\ pass[p].began <= clock + 1
  BY Parts DEF PassOK, OtherTypes, OrderInv, Dated
<1>1. /\ pass[p].at = "settle" /\ Item(p) \in Ids /\ Carried(p) \in Row /\ clock' = clock
      /\ pass[p].at \in Draining
  BY DEF Settle, PassOK, At, Item, Carrying, Carried, Pass, Draining
<1>2. InQueue(Item(p)) /\ Carried(p).state \in Outcomes
  BY <1>1 DEF OwnerInv, HeldRows, Holds, At, HeldStates, InQueue
<1> DEFINE row == [Carried(p) EXCEPT !.created = queue[Item(p)].created]
<1>3. queue' = [queue EXCEPT ![Item(p)] = row]
  BY <1>2 DEF Settle, UpdateQueue
<1>4. /\ row.state = Carried(p).state /\ row.attempts = Carried(p).attempts
      /\ row.offlineWait = Carried(p).offlineWait /\ row.created = queue[Item(p)].created
  BY <1>1 DEF Row
<1> HIDE DEF row
<1>5. PICK i \in Ids : i = Item(p) /\ queue'[i] = row /\ \A j \in Ids \ {i} : queue'[j] = queue[j]
  BY <1>1, <1>3
<1>6. ~Fresh(i)'
  <2>1. Carried(p).state = "queued" => Carried(p).attempts > 0 \/ Carried(p).offlineWait
    BY <1>1 DEF InOrder, Carried, Item
  <2>2. Carried(p).attempts \in Nat
    BY <1>1 DEF Row
  <2> QED
    BY <1>4, <1>5, <2>1, <2>2 DEF Fresh
<1>7. InQueue(i) /\ InQueue(i)' /\ queue'[i].created = queue[i].created
  BY <1>2, <1>4, <1>5 DEF InQueue, Outcomes
<1>8. \A j \in Ids : Aged(j)
  BY <1>5, <1>6, <1>7 DEF Aged, InQueue, Fresh
<1>9. PICK step \in {"readSchedule", "merge"} : Goto(p, step)
  BY DEF Settle, AfterSettle
<1>10. pass'[p].at = step /\ pass'[p].began = pass[p].began
  BY <1>9 DEF Goto, Pass
<1>11. InOrder(pass'[p])
  BY <1>1, <1>9, InOrderDrain DEF Draining
<1>12. Dated'
  <2>1. \A q \in Passes : pass'[q].began <= clock + 1
    BY <1>10 DEF OnePass
  <2>2. \A j \in Ids : InQueue(j)' => queue'[j].created <= clock + 1
    BY <1>5, <1>7 DEF Dated, InQueue
  <2>3. \A j \in Ids : Fresh(j)' => queue'[j].next = "now"
    BY <1>5, <1>6 DEF Dated, Fresh
  <2> QED
    BY <1>1, <2>1, <2>2, <2>3 DEF Dated
<1> QED
  BY <1>8, <1>10, <1>11, <1>12, OrderKept

\* What is not a pass leaves the order, or adds the youngest row.
LEMMA OrderOther ==
  ASSUME TInv, TInv', Alone, OnePass, OrderInv, OwnerInv,
         \/ \E i \in Ids : User(i) \/ Elapse(i) \/ Arrive(i)
         \/ CmdStep \/ CmdFails
         \/ \E proc \in Procs : Start(proc) \/ Stop(proc)
         \/ OpenElsewhere \/ Disconnect \/ Connect \/ UNCHANGED vars
  PROVE  OrderInv'
<1> /\ PassOK /\ queue \in [Ids -> Row] /\ queue' \in [Ids -> Row] /\ clock \in Nat /\ clock' \in Nat
    /\ Dated /\ \A p \in Passes : pass[p].began \in Nat /\ pass[p].began <= clock + 1
  BY Parts DEF PassOK, OtherTypes, OrderInv, Dated, TInv, TypeOK, Pass
<1>1. ~Spend("command") /\ cmd.step \in {"none", "mergeQueued", "mergeScheduled"}
  BY DEF Alone, Spend
<1>2. \A p \in Passes : pass'[p] = pass[p] \/ pass'[p] = Idle
  BY OtherMoves
<1>3. \A p \in Passes : pass'[p].began \in Nat /\ pass'[p].began <= clock + 1
  BY <1>2 DEF Idle
<1>4. \/ queue' = queue /\ clock' = clock
      \/ (Recover \/ \E j \in Ids : Elapse(j)) /\ clock' = clock
      \/ \E i \in Ids : ~InQueue(i) /\ queue' = Enqueued(i, clock + 2) /\ clock' = clock + 2
  <2>1. ASSUME NEW i \in Ids, User(i)
        PROVE  \/ queue' = queue /\ clock' = clock
               \/ ~InQueue(i) /\ queue' = Enqueued(i, clock + 2) /\ clock' = clock + 2
    <3>1. QueueForLater(i) \/ StoreSchedule(i)
      BY <1>1, <2>1 DEF User, ReadRow, FindSchedule, DropEntry, DeleteLocalCopy
    <3> QED
      BY <3>1 DEF QueueForLater, StoreSchedule
  <2>2. ASSUME NEW i \in Ids, Elapse(i) \/ Arrive(i)
        PROVE  clock' = clock /\ (queue' = queue \/ Elapse(i))
    BY <2>2 DEF Elapse, Arrive
  <2>3. ASSUME CmdStep \/ CmdFails PROVE queue' = queue /\ clock' = clock
    <3>1. MergeComposed \/ CmdFails
      BY <1>1, <2>3 DEF CmdStep, Resend, PauseOrResume, SendNow, DeleteMessage, DropRows, Dropping
    <3> QED
      BY <3>1 DEF MergeComposed, CmdFails, tables
  <2>4. ASSUME \/ \E proc \in Procs : Start(proc) \/ Stop(proc)
               \/ OpenElsewhere \/ Disconnect \/ Connect \/ UNCHANGED vars
        PROVE  clock' = clock /\ (queue' = queue \/ Recover)
    BY <2>4 DEF Start, Stop, OpenElsewhere, Disconnect, Connect, vars, tables
  <2> QED
    BY <2>1, <2>2, <2>3, <2>4
<1>5. (\A i \in Ids : Aged(i)) /\ Dated'
  <2>1. CASE queue' = queue /\ clock' = clock
    BY <1>3, <2>1, AgedSteps
  <2>2. CASE (Recover \/ \E j \in Ids : Elapse(j)) /\ clock' = clock
    BY <1>3, <2>2, AgedSteps
  <2>3. ASSUME NEW i \in Ids, ~InQueue(i), queue' = Enqueued(i, clock + 2), clock' = clock + 2
        PROVE  (\A j \in Ids : Aged(j)) /\ Dated'
    <3>1. /\ queue'[i].state = "queued" /\ queue'[i].created = clock + 2
          /\ \A j \in Ids \ {i} : queue'[j] = queue[j]
      BY <2>3 DEF Enqueued, NoRow
    <3>2. \A j \in Ids : Aged(j)
      BY <2>3, <3>1 DEF Aged, InQueue, Fresh
    <3>3. Dated'
      <4>1. clock <= clock' /\ clock + 2 \in Nat /\ clock + 2 <= clock' + 1
        BY <2>3
      <4>2. \A p \in Passes : pass'[p].began \in Nat /\ pass'[p].began <= clock' + 1
        BY <1>3, <2>3
      <4> QED
        BY <2>3, <4>1, <4>2, DatedInsert
    <3> QED
      BY <3>2, <3>3
  <2> QED
    BY <1>4, <2>1, <2>2, <2>3
<1>6. ASSUME NEW p \in Passes PROVE InOrder(pass'[p]) /\ (pass'[p].at = "send" => InQueue(pass'[p].item))
  <2>1. CASE pass'[p] = pass[p]
    BY <2>1 DEF OrderInv, OwnerInv, HeldRows, Holds, HeldStates, InQueue, Item
  <2>2. CASE pass'[p] = Idle
    BY <2>2 DEF Idle, InOrder, Draining
  <2> QED
    BY <1>2, <2>1, <2>2
<1>7. CASE Passes = {}
  BY <1>5, <1>7 DEF OrderInv
<1>8. ASSUME NEW p \in Passes PROVE OrderInv'
  BY <1>5, <1>6, OrderKept
<1> QED
  BY <1>7, <1>8

LEMMA OrderStep ==
  ASSUME TInv, TInv', Alone, OnePass, OrderInv, OwnerInv, left["sqlError"] = 0, [Next]_vars
  PROVE  OrderInv'
<1>1. ASSUME NEW p \in Passes, Begin(p) \/ PassStep(p) PROVE OrderInv'
  BY <1>1, OrderRelease, OrderList, OrderClaim, OrderSend, OrderSettle, OrderMirror DEF PassStep
<1>2. ~\E p \in Passes : StatementFails(p)
  BY DEF StatementFails, Spend
<1>3. ASSUME \/ \E i \in Ids : User(i) \/ Elapse(i) \/ Arrive(i)
             \/ CmdStep \/ CmdFails
             \/ \E proc \in Procs : Start(proc) \/ Stop(proc)
             \/ OpenElsewhere \/ Disconnect \/ Connect \/ UNCHANGED vars
      PROVE  OrderInv'
  BY <1>3, OrderOther
<1> QED
  BY <1>1, <1>2, <1>3 DEF Next

LEMMA OrderInit == Init => OrderInv
<1> SUFFICES ASSUME Init PROVE OrderInv
  OBVIOUS
<1>1. Dated
  BY DEF Init, Dated, Idle, NoRow, InQueue, Fresh
<1>2. \A p \in Passes : pass[p].at = "idle"
  BY DEF Init, Idle
<1> QED
  BY <1>1, <1>2 DEF OrderInv, InOrder, Draining

\* What goes out is what a pass carries to the phone, and that is in order.
LEMMA HandedInOrder ==
  ASSUME TInv, Alone, OrderInv, [Next]_vars, NEW i \in Ids, NEW j \in Ids, handed'[i] > handed[i],
         queue[j].state = "queued", queue[j].created < queue[i].created
  PROVE  queue[j].attempts > 0 \/ queue[j].offlineWait
<1> PassOK /\ queue \in [Ids -> Row] /\ handed \in [Ids -> Nat]
  BY Parts DEF OtherTypes
<1>1. handed' # handed
  <2>1. handed[i] \in Nat
    OBVIOUS
  <2> QED
    BY <2>1
<1>2. PICK p \in Passes : Accept(p) \/ LoseAnswer(p)
  <2>1. ASSUME NEW p \in Passes, Begin(p) \/ PassStep(p) \/ StatementFails(p)
        PROVE  Accept(p) \/ LoseAnswer(p)
    BY <1>1, <2>1 DEF Begin, PassStep, StatementFails, ghosts, ListDueScheduled, ClaimScheduled,
                StampScheduled, EnqueueScheduled, ListDueQueue, ClaimQueue, Refuse,
                FindNoPhone, Settle, ReadSchedule, WriteSchedule, MirrorMerge, MirrorStatus
  <2>2. ~ \/ \E k \in Ids : User(k) \/ Elapse(k) \/ Arrive(k)
          \/ CmdStep \/ CmdFails
          \/ \E proc \in Procs : Start(proc) \/ Stop(proc)
          \/ OpenElsewhere \/ Disconnect \/ Connect \/ UNCHANGED vars
    BY <1>1, OtherMoves
  <2> QED
    BY <2>1, <2>2 DEF Next
<1>3. pass[p].at = "send" /\ Item(p) \in Ids /\ handed' = [handed EXCEPT ![Item(p)] = @ + 1]
  BY <1>2 DEF Accept, LoseAnswer, At, PassOK, Item, Carrying
<1>4. i = Item(p)
  <2>1. ASSUME i # Item(p) PROVE FALSE
    <3>1. handed'[i] = handed[i] /\ handed[i] \in Nat
      BY <1>3, <2>1
    <3> QED
      BY <3>1
  <2> QED
    BY <2>1
<1>5. \A k \in Ids : Fresh(k) => queue[i].created <= queue[k].created
  BY <1>3, <1>4 DEF OrderInv, InOrder, Item
<1>6. ~Fresh(j)
  <2>1. queue[i].created \in Nat /\ queue[j].created \in Nat
    BY DEF Row
  <2> QED
    BY <1>5, <2>1
<1>7. queue[j].attempts \in Nat
  BY DEF Row
<1> QED
  BY <1>6, <1>7 DEF Fresh

\* With one pass at a time, the user away and no statement failing, a message
\* goes out before an older one only when an attempt at the older one came back
\* without success: a list holds the oldest rows, and what is queued while the
\* list is worked off is younger than all of it.
THEOREM SentInOrder ==
  ASSUME OnePass, Allowed["command"] = 0, Allowed["sqlError"] = 0 PROVE Spec => OldestFirst
<1> DEFINE NoErrors == left["sqlError"] = 0
<1>1. Init => NoErrors /\ OrderInv
  BY OrderInit DEF Init
<1>2. TInv /\ NoErrors /\ [Next]_vars => NoErrors'
  BY LeftFalls DEF Events
<1>3. TInv /\ TInv' /\ Alone /\ OwnerInv /\ NoErrors /\ OrderInv /\ [Next]_vars => OrderInv'
  BY OrderStep
<1>4. TInv /\ Alone /\ OrderInv /\ [Next]_vars =>
        \A i, j \in Ids :
          /\ handed'[i] > handed[i]
          /\ queue[j].state = "queued"
          /\ queue[j].created < queue[i].created
          => queue[j].attempts > 0 \/ queue[j].offlineWait
  BY HandedInOrder
<1> HIDE DEF NoErrors
<1> QED
  BY <1>1, <1>2, <1>3, <1>4, LeftAlone, PTL DEF Spec, OldestFirst

-----------------------------------------------------------------------------
(* What the conversation shows, with one pass at a time and no failure. *)

\* The steps at which a pass has taken a row and has yet to tell of it.
Sending == {"send", "settle", "readSchedule", "writeSchedule", "merge", "status"}

Mine(i) == \E p \in Passes : pass[p].at \in Sending /\ Item(p) = i

\* The statement that shows message i in its conversation is still to come.
Merging(i) == cmd.step \in {"mergeQueued", "mergeScheduled"} /\ cmd.id = i

Agrees(i) ==
  \/ msg[i] = MirrorOf(queue[i].state)
  \/ msg[i] = "scheduled" /\ queue[i].state = "queued" /\ queue[i].attempts = 0

\* A message nobody composed is nowhere.
Known(i) ==
  granted[i] = 0 => /\ ~InQueue(i) /\ sched[i].state = "none" /\ msg[i] = "none"
                    /\ cmd.step # "none" => cmd.id # i

Shown(i) ==
  /\ InQueue(i) /\ ~Mine(i) =>
       \/ Agrees(i)
       \/ msg[i] = "none" /\ Merging(i) /\ queue[i].state = "queued" /\ queue[i].attempts = 0
  /\ ~InQueue(i) => /\ msg[i] \in {"none", "scheduled"}
                    /\ sched[i].state # "none" => msg[i] = "scheduled" \/ Merging(i)
                    /\ ~(cmd.step = "mergeQueued" /\ cmd.id = i)

\* A pass in state v releases what the schedule holds, and tells what it wrote.
Telling(v) ==
  /\ v.at \in {"stamp", "enqueue"} => sched[v.item].state # "none"
  /\ v.at \in {"readSchedule", "writeSchedule", "merge", "status"} =>
       queue[v.item].state \in Outcomes /\ queue[v.item].state = v.copy[v.item].state
  /\ v.at = "status" => msg[v.item] # "none"

MirrorInv ==
  /\ \A i \in Ids : Known(i) /\ Shown(i)
  /\ \A p \in Passes : Telling(pass[p])

Undisturbed == left["sqlError"] = 0 /\ left["restart"] = 0

\* Row i says the same of the message.
Steady(i) ==
  /\ InQueue(i)' = InQueue(i)
  /\ MirrorOf(queue'[i].state) = MirrorOf(queue[i].state)
  /\ queue[i].state = "queued" => queue'[i].state = "queued" /\ queue'[i].attempts = queue[i].attempts
  /\ queue[i].state \in Outcomes => queue'[i].state = queue[i].state

LEMMA SteadySteps ==
  ASSUME queue \in [Ids -> Row],
         \/ queue' = queue \/ ReleaseOfflineWaits \/ Recover \/ \E j \in Ids : Elapse(j)
  PROVE  \A i \in Ids : Steady(i)
<1> SUFFICES ASSUME NEW i \in Ids PROVE Steady(i)
  OBVIOUS
<1>1. CASE queue' = queue
  BY <1>1 DEF Steady, InQueue
<1>2. CASE ReleaseOfflineWaits
  <2>1. queue'[i].state = queue[i].state /\ queue'[i].attempts = queue[i].attempts
    BY <1>2 DEF ReleaseOfflineWaits, Row
  <2> QED
    BY <2>1 DEF Steady, InQueue
<1>3. CASE Recover
  <2>1. /\ queue[i].state = "sending" => queue'[i].state = "paused"
        /\ queue[i].state # "sending" => queue'[i] = queue[i]
    BY <1>3 DEF Recover, Row
  <2> QED
    BY <2>1 DEF Steady, InQueue, MirrorOf, Outcomes
<1>4. CASE \E j \in Ids : Elapse(j)
  <2>1. queue'[i].state = queue[i].state /\ queue'[i].attempts = queue[i].attempts
    BY <1>4 DEF Elapse, Row
  <2> QED
    BY <2>1 DEF Steady, InQueue
<1> QED
  BY <1>1, <1>2, <1>3, <1>4

\* A message stays shown while its row is steady and nobody lets go of it.
LEMMA ShownKept ==
  ASSUME NEW i \in Ids, Known(i), Shown(i), Steady(i), msg'[i] = msg[i], cmd' = cmd,
         sched'[i].state = "none" <=> sched[i].state = "none",
         granted'[i] = 0 => granted[i] = 0, Mine(i) => Mine(i)'
  PROVE  Known(i)' /\ Shown(i)'
<1>1. Known(i)'
  BY DEF Known, Steady, InQueue
<1>2. ASSUME InQueue(i)', ~Mine(i)'
      PROVE  \/ Agrees(i)'
             \/ /\ msg'[i] = "none" /\ Merging(i)'
                /\ queue'[i].state = "queued" /\ queue'[i].attempts = 0
  <2>1. \/ Agrees(i)
        \/ msg[i] = "none" /\ Merging(i) /\ queue[i].state = "queued" /\ queue[i].attempts = 0
    BY <1>2 DEF Shown, Steady
  <2> QED
    BY <2>1 DEF Agrees, Merging, Steady
<1>3. ASSUME ~InQueue(i)'
      PROVE  /\ msg'[i] \in {"none", "scheduled"}
             /\ sched'[i].state # "none" => msg'[i] = "scheduled" \/ Merging(i)'
             /\ ~(cmd'.step = "mergeQueued" /\ cmd'.id = i)
  BY <1>3 DEF Shown, Steady, Merging
<1> QED
  BY <1>1, <1>2, <1>3 DEF Shown

\* A pass that stands still goes on telling the truth.
LEMMA TellingKept ==
  ASSUME NEW v, Telling(v), v.at \in Carrying => v.item \in Ids, \A i \in Ids : Steady(i),
         \A i \in Ids : sched[i].state # "none" => sched'[i].state # "none",
         \A i \in Ids : msg[i] # "none" => msg'[i] # "none"
  PROVE  Telling(v)'
BY DEF Telling, Steady, Carrying, Outcomes


LEMMA DrainSteps ==
  ASSUME PassOK, NEW p \in Passes, NEW todo, DrainOn(p, todo)
  PROVE  pass'[p].at \in {"idle", "claim"}
<1> DEFINE v == [pass[p] EXCEPT !.at = "claim", !.todo = todo, !.item = None]
<1>1. v.at = "claim" /\ Idle.at = "idle"
  BY DEF PassOK, Pass, Idle
<1>2. pass'[p] = Idle \/ pass'[p] = v
  BY DEF DrainOn, PassOK
<1> HIDE DEF v
<1> QED
  BY <1>1, <1>2

\* The one pass there is: what is in its hands, and what it tells.
LEMMA OnlyPass ==
  ASSUME OnePass, NEW p \in Passes
  PROVE  /\ \A i : Mine(i) <=> pass[p].at \in Sending /\ pass[p].item = i
         /\ \A i : Mine(i)' <=> pass'[p].at \in Sending /\ pass'[p].item = i
         /\ (\A q \in Passes : Telling(pass[q])') <=> Telling(pass[p])'
<1>1. \A q \in Passes : q = p
  BY DEF OnePass
<1> QED
  BY <1>1 DEF Mine, Item, Telling

\* The steps of a pass that release or list: it has no row in hand.
LEMMA MirrorRelease ==
  ASSUME TInv, OnePass, MirrorInv, NEW p \in Passes,
         \/ Begin(p) \/ ListDueScheduled(p) \/ ClaimScheduled(p)
         \/ StampScheduled(p) \/ ListDueQueue(p)
  PROVE  MirrorInv'
<1> /\ PassOK /\ queue \in [Ids -> Row] /\ sched \in [Ids -> ScheduleRow]
    /\ pass \in [Passes -> Pass] /\ pass[p] \in Pass /\ Telling(pass[p])
  BY Parts DEF PassOK, OtherTypes, MirrorInv
<1>1. /\ msg' = msg /\ cmd' = cmd /\ granted' = granted
      /\ pass[p].at \notin Sending
  BY DEF Begin, ListDueScheduled, ClaimScheduled, StampScheduled, ListDueQueue, ghosts, tables, At, Sending
<1>2. \A i \in Ids : Steady(i)
  BY SteadySteps DEF Begin, ListDueScheduled, ClaimScheduled, StampScheduled, ListDueQueue, tables
<1>3. \A i \in Ids : sched'[i].state = "none" <=> sched[i].state = "none"
  <2>1. CASE sched' = sched
    BY <2>1
  <2>2. CASE ClaimScheduled(p)
    <3>1. sched' = sched \/ \E i \in DueScheduled : sched' = [sched EXCEPT ![i].state = "queued"]
      BY <2>2 DEF ClaimScheduled
    <3> QED
      BY <3>1 DEF DueScheduled, ScheduleRow
  <2>3. CASE StampScheduled(p)
    BY <2>3 DEF StampScheduled, UpdateScheduled, ScheduleRow
  <2> QED
    BY <2>1, <2>2, <2>3 DEF Begin, ListDueScheduled, ListDueQueue, tables
<1>4. \A i \in Ids : Known(i)' /\ Shown(i)'
  BY <1>1, <1>2, <1>3, OnlyPass, ShownKept DEF MirrorInv
<1>5. Telling(pass[p])'
  <2>1. pass'[p].at \notin {"stamp", "enqueue"} \cup Sending => Telling(pass[p])'
    BY DEF Telling, Sending
  <2>2. CASE Begin(p)
    BY <2>1, <2>2 DEF Begin, Goto, Pass, Sending
  <2>3. CASE ListDueScheduled(p)
    <3>1. pass'[p].at = "release"
      BY <2>3 DEF ListDueScheduled, Pass
    <3> QED
      BY <2>1, <3>1 DEF Sending
  <2>4. CASE ListDueQueue(p)
    <3>1. pass'[p].at \in {"idle", "claim"}
      <4>1. PICK rows \in DueQueue :
              pass' = [pass EXCEPT ![p] =
                IF rows = {} THEN Idle
                ELSE [Idle EXCEPT !.at = "claim", !.todo = rows,
                        !.copy = [i \in Ids |-> IF i \in rows THEN queue[i] ELSE NoRow]]]
        BY <2>4 DEF ListDueQueue
      <4> DEFINE w == [Idle EXCEPT !.at = "claim", !.todo = rows,
                         !.copy = [i \in Ids |-> IF i \in rows THEN queue[i] ELSE NoRow]]
      <4>2. w.at = "claim" /\ Idle.at = "idle"
        BY DEF Idle
      <4>3. pass'[p] = Idle \/ pass'[p] = w
        BY <4>1
      <4> HIDE DEF w
      <4> QED
        BY <4>2, <4>3
    <3> QED
      BY <2>1, <3>1 DEF Sending
  <2>5. CASE ClaimScheduled(p)
    <3>1. PICK i \in pass[p].todo :
            \/ /\ i \in DueScheduled
               /\ sched' = [sched EXCEPT ![i].state = "queued"]
               /\ pass' = [pass EXCEPT ![p].at = "stamp", ![p].item = i, ![p].todo = @ \ {i}]
            \/ pass' = [pass EXCEPT ![p].todo = @ \ {i}]
      BY <2>5 DEF ClaimScheduled
    <3> DEFINE v == [pass[p] EXCEPT !.at = "stamp", !.item = i, !.todo = @ \ {i}]
               w == [pass[p] EXCEPT !.todo = @ \ {i}]
    <3>2. v.at = "stamp" /\ v.item = i /\ w.at = "release"
      BY <2>5 DEF ClaimScheduled, At, Pass
    <3> HIDE DEF v, w
    <3>3. CASE pass' = [pass EXCEPT ![p] = w]
      BY <2>1, <3>2, <3>3 DEF Sending
    <3>4. CASE i \in DueScheduled /\ sched' = [sched EXCEPT ![i].state = "queued"]
               /\ pass' = [pass EXCEPT ![p] = v]
      <4>1. sched'[i].state = "queued" /\ pass'[p].at = "stamp" /\ pass'[p].item = i
        BY <3>2, <3>4 DEF DueScheduled, ScheduleRow
      <4> QED
        BY <4>1 DEF Telling
    <3> QED
      BY <3>1, <3>3, <3>4 DEF v, w
  <2>6. CASE StampScheduled(p)
    <3>1. pass'[p].at = "enqueue" /\ pass'[p].item = pass[p].item /\ pass[p].at = "stamp"
          /\ pass[p].item \in Ids
      BY <2>6 DEF StampScheduled, At, Goto, Pass, PassOK, Carrying
    <3>2. sched[pass[p].item].state # "none"
      BY <3>1 DEF Telling
    <3> QED
      BY <1>3, <3>1, <3>2 DEF Telling
  <2> QED
    BY <2>2, <2>3, <2>4, <2>5, <2>6
<1> QED
  BY <1>4, <1>5, OnlyPass DEF MirrorInv

\* The INSERT of a released message, which is shown as scheduled or soon is.
LEMMA MirrorEnqueue ==
  ASSUME TInv, OnePass, MirrorInv, NEW p \in Passes, EnqueueScheduled(p)
  PROVE  MirrorInv'
<1> /\ PassOK /\ queue \in [Ids -> Row] /\ pass \in [Passes -> Pass] /\ pass[p] \in Pass
    /\ Telling(pass[p])
  BY Parts DEF PassOK, MirrorInv
<1>1. /\ msg' = msg /\ cmd' = cmd /\ granted' = granted /\ sched' = sched
      /\ pass[p].at = "enqueue" /\ pass[p].at \notin Sending
  BY DEF EnqueueScheduled, ghosts, At, Sending
<1>2. PICK i \in Ids : i = Item(p) /\ sched[i].state # "none"
  BY <1>1 DEF PassOK, Item, Carrying, Telling
<1>3. pass'[p].at \in {"idle", "release"}
  <2> DEFINE v == [pass[p] EXCEPT !.at = "release", !.item = None]
  <2>1. v.at = "release"
    BY DEF Pass
  <2>2. AbandonRelease(p) \/ pass' = [pass EXCEPT ![p] = v]
    BY DEF EnqueueScheduled
  <2>3. AbandonRelease(p) => pass'[p].at \in {"idle", "release"}
    BY DEF AbandonRelease, Idle
  <2> QED
    BY <2>1, <2>2, <2>3
<1>4. Telling(pass[p])' /\ pass'[p].at \notin Sending
  BY <1>3 DEF Telling, Sending
<1>5. \A j \in Ids : ~Mine(j) /\ ~Mine(j)'
  BY <1>1, <1>4, OnlyPass
<1>6. CASE queue' = queue
  <2>1. \A j \in Ids : Steady(j)
    BY <1>6, SteadySteps
  <2> QED
    BY <1>1, <1>4, <1>5, <2>1, OnlyPass, ShownKept DEF MirrorInv
<1>7. CASE ~InQueue(i) /\ queue' = Enqueued(i, pass[p].began)
  <2>1. /\ queue'[i].state = "queued" /\ queue'[i].attempts = 0
        /\ \A j \in Ids \ {i} : queue'[j] = queue[j]
    BY <1>7 DEF Enqueued, NoRow
  <2>2. \A j \in Ids \ {i} : Steady(j)
    BY <2>1 DEF Steady, InQueue
  <2>3. \A j \in Ids \ {i} : Known(j)' /\ Shown(j)'
    BY <1>1, <1>5, <2>2, ShownKept DEF MirrorInv
  <2>4. Known(i)'
    BY <1>1, <1>2 DEF MirrorInv, Known
  <2>5. Shown(i)'
    <3>1. msg[i] \in {"none", "scheduled"} /\ (msg[i] = "scheduled" \/ Merging(i))
      BY <1>2, <1>7 DEF MirrorInv, Shown
    <3>2. InQueue(i)'
      BY <2>1 DEF InQueue
    <3> QED
      BY <1>1, <2>1, <3>1, <3>2 DEF Shown, Agrees, Merging
  <2> QED
    BY <1>4, <2>3, <2>4, <2>5, OnlyPass DEF MirrorInv
<1> QED
  BY <1>2, <1>6, <1>7 DEF EnqueueScheduled

\* The claim takes a row into the pass's hands; the send keeps it there.
LEMMA MirrorClaim ==
  ASSUME TInv, OnePass, MirrorInv, NEW p \in Passes, ClaimQueue(p)
  PROVE  MirrorInv'
<1> /\ PassOK /\ queue \in [Ids -> Row] /\ pass \in [Passes -> Pass] /\ pass[p] \in Pass
  BY Parts DEF PassOK
<1>1. /\ msg' = msg /\ cmd' = cmd /\ granted' = granted /\ sched' = sched
      /\ pass[p].at = "claim" /\ pass[p].at \notin Sending
  BY DEF ClaimQueue, ghosts, At, Sending
<1>2. PICK i \in pass[p].todo :
        \/ /\ queue[i].state = "queued"
           /\ queue' = [queue EXCEPT ![i].state = "sending", ![i].attempts = @ + 1]
           /\ pass' = [pass EXCEPT ![p].at = "send", ![p].item = i, ![p].todo = @ \ {i}]
        \/ DrainOn(p, pass[p].todo \ {i}) /\ queue' = queue
  BY DEF ClaimQueue
<1>3. i \in Ids
  BY DEF Pass
<1>4. \A j \in Ids : ~Mine(j)
  BY <1>1, OnlyPass
<1>5. CASE /\ queue[i].state = "queued"
           /\ queue' = [queue EXCEPT ![i].state = "sending", ![i].attempts = @ + 1]
           /\ pass' = [pass EXCEPT ![p].at = "send", ![p].item = i, ![p].todo = @ \ {i}]
  <2>1. pass'[p].at = "send" /\ pass'[p].item = i
    BY <1>5 DEF Pass
  <2>2. /\ queue'[i].state = "sending"
        /\ \A j \in Ids \ {i} : queue'[j] = queue[j]
    BY <1>3, <1>5 DEF Row
  <2>3. \A j \in Ids \ {i} : Known(j)' /\ Shown(j)'
    <3>1. \A j \in Ids \ {i} : Steady(j)
      BY <2>2 DEF Steady, InQueue
    <3> QED
      BY <1>1, <1>4, <3>1, ShownKept DEF MirrorInv
  <2>4. Known(i)'
    BY <1>1, <1>3, <1>5 DEF MirrorInv, Known, InQueue
  <2>5. Mine(i)'
    BY <2>1, OnlyPass DEF Sending
  <2>6. Shown(i)'
    BY <2>2, <2>5 DEF Shown, InQueue
  <2>7. Telling(pass[p])'
    BY <2>1 DEF Telling
  <2> QED
    BY <2>3, <2>4, <2>6, <2>7, OnlyPass DEF MirrorInv
<1>6. CASE DrainOn(p, pass[p].todo \ {i}) /\ queue' = queue
  <2>1. pass'[p].at \in {"idle", "claim"}
    BY <1>6, DrainSteps
  <2>2. Telling(pass[p])'
    BY <2>1 DEF Telling
  <2>3. \A j \in Ids : Steady(j)
    BY <1>6, SteadySteps
  <2>4. \A j \in Ids : Known(j)' /\ Shown(j)'
    BY <1>1, <1>4, <2>3, ShownKept DEF MirrorInv
  <2> QED
    BY <2>2, <2>4, OnlyPass DEF MirrorInv
<1> QED
  BY <1>2, <1>5, <1>6

\* From the send to the merge the pass keeps its row in hand.
LEMMA MirrorHeld ==
  ASSUME TInv, OnePass, MirrorInv, OwnerInv, NEW p \in Passes,
         \/ Accept(p) \/ Refuse(p) \/ LoseAnswer(p) \/ FindNoPhone(p)
         \/ ReadSchedule(p) \/ WriteSchedule(p)
  PROVE  MirrorInv'
<1> /\ PassOK /\ queue \in [Ids -> Row] /\ sched \in [Ids -> ScheduleRow]
    /\ granted \in [Ids -> Nat]
    /\ pass \in [Passes -> Pass] /\ pass[p] \in Pass /\ Telling(pass[p])
  BY Parts DEF PassOK, OtherTypes, MirrorInv
<1>1. /\ msg' = msg /\ cmd' = cmd /\ queue' = queue /\ Item(p) \in Ids
      /\ pass[p].at \in Sending /\ Item(p) = pass[p].item
  BY DEF Accept, Refuse, LoseAnswer, FindNoPhone, ReadSchedule, WriteSchedule, tables, At, Sending,
         PassOK, Item, Carrying
<1>2. \A i \in Ids : Steady(i)
  BY <1>1, SteadySteps
<1>3. \A i \in Ids : sched'[i].state = "none" <=> sched[i].state = "none"
  <2>1. CASE sched' = sched
    BY <2>1
  <2>2. CASE WriteSchedule(p)
    <3>1. Carried(p).state # "none"
      BY <2>2 DEF WriteSchedule, At, PassOK, Carried, Item, Terminal
    <3>2. sched' = sched \/ (/\ sched[Item(p)].state # "none"
                             /\ sched' = [sched EXCEPT ![Item(p)] = [state |-> Carried(p).state, at |-> "past"]])
      BY <2>2 DEF WriteSchedule, UpdateScheduled
    <3> QED
      BY <1>1, <3>1, <3>2
  <2> QED
    BY <2>1, <2>2 DEF Accept, Refuse, LoseAnswer, FindNoPhone, ReadSchedule, tables
<1>4. \A i \in Ids : granted'[i] = 0 => granted[i] = 0
  <2>1. CASE granted' = granted
    BY <2>1
  <2>2. CASE LoseAnswer(p)
    BY <1>1, <2>2 DEF LoseAnswer
  <2> QED
    BY <2>1, <2>2 DEF Accept, Refuse, FindNoPhone, ReadSchedule, WriteSchedule, ghosts
<1>5. pass'[p].at \in Sending /\ pass'[p].item = pass[p].item
  <2>1. ASSUME NEW row, Answer(p, row) PROVE pass'[p].at = "settle" /\ pass'[p].item = pass[p].item
    BY <2>1 DEF Answer, Pass
  <2>2. ASSUME NEW step, Goto(p, step) PROVE pass'[p].at = step /\ pass'[p].item = pass[p].item
    BY <2>2 DEF Goto, Pass
  <2> QED
    BY <2>1, <2>2 DEF Accept, Refuse, LoseAnswer, FindNoPhone, ReadSchedule, WriteSchedule, Sending
<1>6. \A i \in Ids : Known(i)' /\ Shown(i)'
  BY <1>1, <1>2, <1>3, <1>4, <1>5, OnlyPass, ShownKept DEF MirrorInv
<1>7. Telling(pass[p])'
  <2>1. ASSUME NEW row, Answer(p, row) PROVE Telling(pass[p])'
    <3>1. pass'[p].at = "settle"
      BY <2>1 DEF Answer, Pass
    <3> QED
      BY <3>1 DEF Telling
  <2>2. ASSUME NEW step \in {"writeSchedule", "merge"}, Goto(p, step),
               pass[p].at \in {"readSchedule", "writeSchedule"}
        PROVE  Telling(pass[p])'
    <3>1. pass'[p].at = step /\ pass'[p].item = pass[p].item /\ pass'[p].copy = pass[p].copy
      BY <2>2 DEF Goto, Pass
    <3>2. /\ queue[pass[p].item].state \in Outcomes
          /\ queue[pass[p].item].state = pass[p].copy[pass[p].item].state
      BY <2>2 DEF Telling
    <3> QED
      BY <1>1, <3>1, <3>2 DEF Telling
  <2> QED
    BY <2>1, <2>2 DEF Accept, Refuse, LoseAnswer, FindNoPhone, ReadSchedule, WriteSchedule, At
<1> QED
  BY <1>6, <1>7, OnlyPass DEF MirrorInv

\* The write of the outcome, of which the pass then tells.
LEMMA MirrorSettle ==
  ASSUME TInv, OnePass, MirrorInv, OwnerInv, NEW p \in Passes, Settle(p)
  PROVE  MirrorInv'
<1> /\ PassOK /\ queue \in [Ids -> Row] /\ pass \in [Passes -> Pass] /\ pass[p] \in Pass
  BY Parts DEF PassOK
<1>1. /\ pass[p].at = "settle" /\ Carried(p) \in Row /\ pass[p].at \in Sending
      /\ msg' = msg /\ cmd' = cmd /\ sched' = sched /\ granted' = granted
  BY DEF Settle, PassOK, At, Item, Carrying, Carried, Pass, Sending, ghosts
<1>2. PICK i \in Ids : i = Item(p) /\ InQueue(i) /\ Carried(p).state \in Outcomes
  BY <1>1 DEF OwnerInv, HeldRows, Holds, At, HeldStates, InQueue, PassOK, Item, Carrying
<1> DEFINE row == [Carried(p) EXCEPT !.created = queue[Item(p)].created]
<1>3. queue' = [queue EXCEPT ![i] = row]
  BY <1>2 DEF Settle, UpdateQueue
<1>4. row.state = Carried(p).state
  BY <1>1 DEF Row
<1> HIDE DEF row
<1>5. queue'[i].state = Carried(p).state /\ \A j \in Ids \ {i} : queue'[j] = queue[j]
  BY <1>3, <1>4
<1>6. PICK step \in {"readSchedule", "merge"} : Goto(p, step)
  BY DEF Settle, AfterSettle
<1>7. pass'[p].at = step /\ pass'[p].item = i /\ pass'[p].copy = pass[p].copy
  BY <1>2, <1>6 DEF Goto, Pass, Item
<1>8. \A j : Mine(j)' <=> Mine(j)
  BY <1>1, <1>2, <1>7, OnlyPass DEF Sending, Item
<1>9. \A j \in Ids \ {i} : Known(j)' /\ Shown(j)'
  <2>1. \A j \in Ids \ {i} : Steady(j)
    BY <1>5 DEF Steady, InQueue
  <2> QED
    BY <1>1, <1>8, <2>1, ShownKept DEF MirrorInv
<1>10. Known(i)'
  BY <1>1, <1>2 DEF MirrorInv, Known
<1>11. Shown(i)'
  <2>1. Mine(i)'
    BY <1>7, OnlyPass DEF Sending
  <2>2. InQueue(i)'
    BY <1>2, <1>5 DEF InQueue, Outcomes
  <2> QED
    BY <2>1, <2>2 DEF Shown
<1>12. Telling(pass[p])'
  BY <1>2, <1>5, <1>7 DEF Telling, Carried
<1> QED
  BY <1>9, <1>10, <1>11, <1>12, OnlyPass DEF MirrorInv

\* The merge makes sure that the message is there.
LEMMA MirrorMerges ==
  ASSUME TInv, OnePass, MirrorInv, NEW p \in Passes, MirrorMerge(p)
  PROVE  MirrorInv'
<1> /\ PassOK /\ queue \in [Ids -> Row] /\ msg \in [Ids -> MessageStates]
    /\ pass \in [Passes -> Pass] /\ pass[p] \in Pass /\ Telling(pass[p])
  BY Parts DEF PassOK, OtherTypes, MirrorInv
<1>1. /\ pass[p].at = "merge" /\ pass[p].at \in Sending
      /\ queue' = queue /\ cmd' = cmd /\ sched' = sched /\ granted' = granted
  BY DEF MirrorMerge, At, Sending, ghosts
<1>2. PICK i \in Ids : i = pass[p].item /\ queue[i].state \in Outcomes
                       /\ queue[i].state = pass[p].copy[i].state
  BY <1>1 DEF PassOK, Carrying, Telling
<1>3. msg'[i] # "none" /\ \A j \in Ids \ {i} : msg'[j] = msg[j]
  BY <1>2 DEF MirrorMerge, MergeMessage, MirrorOf, Item
<1>4. pass'[p].at = "status" /\ pass'[p].item = i /\ pass'[p].copy = pass[p].copy
  BY <1>2 DEF MirrorMerge, Goto, Pass
<1>5. \A j : Mine(j)' <=> Mine(j)
  BY <1>1, <1>2, <1>4, OnlyPass DEF Sending
<1>6. \A j \in Ids \ {i} : Known(j)' /\ Shown(j)'
  BY <1>1, <1>3, <1>5, SteadySteps, ShownKept DEF MirrorInv
<1>7. Known(i)' /\ Shown(i)'
  <2>1. InQueue(i) /\ InQueue(i)'
    BY <1>1, <1>2 DEF InQueue, Outcomes
  <2>2. Known(i)'
    BY <1>1, <2>1 DEF MirrorInv, Known
  <2>3. Mine(i)'
    BY <1>4, OnlyPass DEF Sending
  <2> QED
    BY <2>1, <2>2, <2>3 DEF Shown
<1>8. Telling(pass[p])'
  BY <1>1, <1>2, <1>3, <1>4 DEF Telling
<1> QED
  BY <1>6, <1>7, <1>8, OnlyPass DEF MirrorInv

\* The pass lets go of the row when the message shows what it wrote.
LEMMA MirrorDone ==
  ASSUME TInv, OnePass, MirrorInv, NEW p \in Passes, MirrorStatus(p)
  PROVE  MirrorInv'
<1> /\ PassOK /\ queue \in [Ids -> Row] /\ msg \in [Ids -> MessageStates]
    /\ pass \in [Passes -> Pass] /\ pass[p] \in Pass /\ Telling(pass[p])
  BY Parts DEF PassOK, OtherTypes, MirrorInv
<1>1. /\ pass[p].at = "status" /\ queue' = queue /\ cmd' = cmd /\ sched' = sched /\ granted' = granted
  BY DEF MirrorStatus, At, ghosts
<1>2. PICK i \in Ids : i = pass[p].item /\ queue[i].state \in Outcomes /\ msg[i] # "none"
                       /\ queue[i].state = pass[p].copy[i].state
  BY <1>1 DEF PassOK, Carrying, Telling
<1>3. msg'[i] = MirrorOf(queue[i].state) /\ \A j \in Ids \ {i} : msg'[j] = msg[j]
  BY <1>2 DEF MirrorStatus, MessageStatus, Item, Carried
<1>4. pass'[p].at \in {"idle", "claim"}
  BY DrainSteps DEF MirrorStatus
<1>5. \A j \in Ids \ {i} : ~Mine(j)
  BY <1>2, OnlyPass
<1>6. \A j \in Ids \ {i} : Known(j)' /\ Shown(j)'
  BY <1>1, <1>3, <1>5, SteadySteps, ShownKept DEF MirrorInv
<1>7. Known(i)' /\ Shown(i)'
  <2>1. InQueue(i) /\ InQueue(i)'
    BY <1>1, <1>2 DEF InQueue, Outcomes
  <2>2. Known(i)'
    BY <1>1, <2>1 DEF MirrorInv, Known
  <2>3. Agrees(i)'
    BY <1>1, <1>3 DEF Agrees
  <2> QED
    BY <2>1, <2>2, <2>3 DEF Shown
<1>8. Telling(pass[p])'
  BY <1>4 DEF Telling
<1> QED
  BY <1>6, <1>7, <1>8, OnlyPass DEF MirrorInv

\* Filing a message: its row or its schedule entry comes first, the message next.
LEMMA MirrorFile ==
  ASSUME TInv, Alone, MirrorInv, NEW i \in Ids, User(i)
  PROVE  MirrorInv'
<1> /\ PassOK /\ CmdOK /\ queue \in [Ids -> Row] /\ sched \in [Ids -> ScheduleRow]
    /\ granted \in [Ids -> Nat]
  BY Parts DEF OtherTypes
<1>1. ~Spend("command")
  BY DEF Alone, Spend
<1>2. QueueForLater(i) \/ StoreSchedule(i)
  BY <1>1 DEF User, ReadRow, FindSchedule, DropEntry, DeleteLocalCopy
<1>3. granted[i] = 0 /\ cmd = NoCmd /\ msg' = msg /\ pass' = pass
  BY <1>1, <1>2 DEF QueueForLater, StoreSchedule, Composed, Ready
<1>4. ~InQueue(i) /\ sched[i].state = "none" /\ msg[i] = "none"
  BY <1>3 DEF MirrorInv, Known
<1>5. \A j : Mine(j)' <=> Mine(j)
  BY <1>3 DEF Mine, Item
<1>6. PICK step \in {"mergeQueued", "mergeScheduled"} :
        /\ cmd' = [NoCmd EXCEPT !.step = step, !.id = i]
        /\ granted' = [granted EXCEPT ![i] = @ + 1]
        /\ \/ step = "mergeQueued" /\ queue' = Enqueued(i, clock + 2) /\ sched' = sched
           \/ step = "mergeScheduled" /\ queue' = queue
                /\ sched' = [sched EXCEPT ![i] = [state |-> "scheduled", at |-> "future"]]
  BY <1>2, <1>4 DEF QueueForLater, StoreSchedule, Grant
<1>7. cmd'.step = step /\ cmd'.id = i
  BY <1>6 DEF NoCmd
<1>8. /\ granted'[i] # 0
      /\ \A j \in Ids \ {i} : granted'[j] = granted[j] /\ queue'[j] = queue[j] /\ sched'[j] = sched[j]
  BY <1>6 DEF Enqueued
<1>9. \/ step = "mergeQueued" /\ queue'[i].state = "queued" /\ queue'[i].attempts = 0
      \/ step = "mergeScheduled" /\ queue'[i] = queue[i]
  BY <1>6 DEF Enqueued, NoRow
<1>10. Known(i)' /\ Shown(i)'
  <2>1. Known(i)'
    BY <1>8 DEF Known
  <2>2. Merging(i)' /\ msg'[i] = "none"
    BY <1>3, <1>4, <1>7 DEF Merging
  <2>3. step = "mergeQueued" => InQueue(i)'
    BY <1>9 DEF InQueue
  <2>4. step = "mergeScheduled" => ~InQueue(i)'
    BY <1>4, <1>9 DEF InQueue
  <2> QED
    BY <1>7, <1>9, <2>1, <2>2, <2>3, <2>4 DEF Shown
<1>11. ASSUME NEW j \in Ids \ {i} PROVE Known(j)' /\ Shown(j)'
  <2>1. Known(j) /\ Shown(j) /\ ~Merging(j)
    BY <1>3 DEF MirrorInv, Merging, NoCmd
  <2>2. Known(j)'
    BY <1>3, <1>7, <1>8, <2>1 DEF Known, InQueue
  <2>3. Shown(j)'
    BY <1>3, <1>5, <1>7, <1>8, <2>1 DEF Shown, InQueue, Agrees, Merging
  <2> QED
    BY <2>2, <2>3
<1>12. ASSUME NEW p \in Passes PROVE Telling(pass[p])'
  <2>1. Telling(pass[p]) /\ (pass[p].at \in Carrying => pass[p].item \in Ids)
    BY DEF MirrorInv, PassOK
  <2>2. pass[p].at \in {"readSchedule", "writeSchedule", "merge", "status"} => pass[p].item # i
    BY <1>4, <2>1 DEF Telling, InQueue, Outcomes
  <2>3. pass[p].at \in {"stamp", "enqueue"} => pass[p].item # i
    BY <1>4, <2>1 DEF Telling
  <2> QED
    BY <1>3, <1>8, <2>1, <2>2, <2>3 DEF Telling, Carrying
<1> QED
  BY <1>10, <1>11, <1>12 DEF MirrorInv

\* The filed message appears in its conversation.
LEMMA MirrorComposed ==
  ASSUME TInv, MirrorInv, MergeComposed
  PROVE  MirrorInv'
<1> /\ PassOK /\ CmdOK /\ queue \in [Ids -> Row] /\ msg \in [Ids -> MessageStates]
  BY Parts DEF OtherTypes
<1>1. /\ queue' = queue /\ sched' = sched /\ pass' = pass /\ granted' = granted /\ cmd' = NoCmd
      /\ cmd.step \in {"mergeQueued", "mergeScheduled"}
  BY DEF MergeComposed, ghosts
<1>2. cmd'.step = "none"
  BY <1>1 DEF NoCmd
<1>3. PICK i \in Ids : i = cmd.id
  BY <1>1 DEF CmdOK
<1>4. /\ \A j \in Ids \ {i} : msg'[j] = msg[j]
      /\ msg[i] # "none" => msg'[i] = msg[i]
      /\ msg[i] = "none" => \/ cmd.step = "mergeQueued" /\ msg'[i] = "queued"
                            \/ cmd.step = "mergeScheduled" /\ msg'[i] = "scheduled"
  BY <1>3 DEF MergeComposed, MergeMessage
<1>5. \A j : Mine(j)' <=> Mine(j)
  BY <1>1 DEF Mine, Item
<1>6. Known(i)' /\ Shown(i)'
  <2>1. Known(i) /\ Shown(i) /\ Merging(i)
    BY <1>1, <1>3 DEF MirrorInv, Merging
  <2>2. Known(i)'
    BY <1>1, <1>3, <2>1 DEF Known, InQueue
  <2>3. ASSUME InQueue(i)', ~Mine(i)' PROVE Agrees(i)'
    BY <1>1, <1>4, <1>5, <2>1, <2>3 DEF Shown, Agrees, InQueue, MirrorOf
  <2>4. ASSUME ~InQueue(i)' PROVE msg'[i] = "scheduled"
    <3>1. cmd.step = "mergeScheduled" /\ msg[i] \in {"none", "scheduled"}
      BY <1>1, <1>3, <2>1, <2>4 DEF Shown, InQueue
    <3> QED
      BY <1>4, <3>1
  <2> QED
    BY <1>2, <2>2, <2>3, <2>4 DEF Shown
<1>7. ASSUME NEW j \in Ids \ {i} PROVE Known(j)' /\ Shown(j)'
  <2>1. Known(j) /\ Shown(j) /\ ~Merging(j) /\ msg'[j] = msg[j]
    BY <1>3, <1>4 DEF MirrorInv, Merging
  <2>2. Known(j)'
    BY <1>1, <1>2, <2>1 DEF Known, InQueue
  <2>3. Shown(j)'
    BY <1>1, <1>2, <1>5, <2>1 DEF Shown, InQueue, Agrees
  <2> QED
    BY <2>2, <2>3
<1>8. ASSUME NEW p \in Passes PROVE Telling(pass[p])'
  <2>1. Telling(pass[p]) /\ (pass[p].at \in Carrying => pass[p].item \in Ids)
    BY DEF MirrorInv, PassOK
  <2>2. \A j \in Ids : msg[j] # "none" => msg'[j] # "none"
    BY <1>4
  <2> QED
    BY <1>1, <2>1, <2>2 DEF Telling, Carrying
<1> QED
  BY <1>6, <1>7, <1>8 DEF MirrorInv

\* The other steps: time, the phone, a process that starts.
LEMMA MirrorWorld ==
  ASSUME TInv, MirrorInv, Undisturbed,
         \/ \E i \in Ids : Elapse(i) \/ Arrive(i)
         \/ CmdFails
         \/ \E proc \in Procs : Start(proc) \/ Stop(proc)
         \/ OpenElsewhere \/ Disconnect \/ Connect \/ UNCHANGED vars
  PROVE  MirrorInv'
<1> /\ PassOK /\ queue \in [Ids -> Row] /\ sched \in [Ids -> ScheduleRow]
  BY Parts DEF OtherTypes
<1>1. ~Spend("sqlError") /\ ~Spend("restart")
  BY DEF Undisturbed, Spend
<1>2. /\ msg' = msg /\ cmd' = cmd /\ pass' = pass /\ granted' = granted
      /\ \/ queue' = queue \/ Recover \/ \E j \in Ids : Elapse(j)
      /\ sched' = sched \/ \E i \in Ids : Arrive(i)
  BY <1>1 DEF Elapse, Arrive, CmdFails, Start, Stop, OpenElsewhere, Disconnect, Connect, vars,
              tables, actors, ghosts
<1>3. \A i \in Ids : Steady(i)
  BY <1>2, SteadySteps
<1>4. \A i \in Ids : sched'[i].state = sched[i].state
  BY <1>2 DEF Arrive, ScheduleRow
<1>5. \A i : Mine(i)' <=> Mine(i)
  BY <1>2 DEF Mine, Item
<1>6. \A i \in Ids : Known(i)' /\ Shown(i)'
  BY <1>2, <1>3, <1>4, <1>5, ShownKept DEF MirrorInv
<1>7. ASSUME NEW p \in Passes PROVE Telling(pass[p])'
  <2>1. PICK v : v = pass[p]
    OBVIOUS
  <2>2. Telling(v) /\ (v.at \in Carrying => v.item \in Ids)
    BY <2>1 DEF MirrorInv, PassOK
  <2>3. Telling(v)'
    BY <1>2, <1>3, <1>4, <2>2, TellingKept
  <2>4. pass'[p] = v
    BY <1>2, <2>1
  <2> QED
    BY <2>3, <2>4 DEF Telling
<1> QED
  BY <1>6, <1>7 DEF MirrorInv

LEMMA MirrorStep ==
  ASSUME TInv, Alone, OnePass, OwnerInv, MirrorInv, Undisturbed, [Next]_vars
  PROVE  MirrorInv'
<1>1. ASSUME NEW p \in Passes, Begin(p) \/ PassStep(p) PROVE MirrorInv'
  BY <1>1, MirrorRelease, MirrorEnqueue, MirrorClaim, MirrorHeld, MirrorSettle, MirrorMerges,
     MirrorDone DEF PassStep
<1>2. ~\E p \in Passes : StatementFails(p)
  BY DEF StatementFails, Spend, Undisturbed
<1>3. CmdStep => MergeComposed
  BY DEF Alone, CmdStep, Resend, PauseOrResume, SendNow, DeleteMessage, DropRows, Dropping
<1> QED
  BY <1>1, <1>2, <1>3, MirrorFile, MirrorComposed, MirrorWorld DEF Next

LEMMA MirrorInit == Init => MirrorInv
<1> SUFFICES ASSUME Init PROVE MirrorInv
  OBVIOUS
<1>1. \A i \in Ids : ~InQueue(i) /\ sched[i].state = "none" /\ msg[i] = "none"
  BY DEF Init, InQueue, NoRow, NoSchedule
<1>2. cmd.step = "none"
  BY DEF Init, NoCmd
<1>3. \A p \in Passes : pass[p].at = "idle"
  BY DEF Init, Idle
<1> QED
  BY <1>1, <1>2, <1>3 DEF MirrorInv, Known, Shown, Telling

LEMMA Mirrored ==
  ASSUME OnePass, Allowed["command"] = 0, Allowed["sqlError"] = 0, Allowed["restart"] = 0
  PROVE  Spec => [](TInv /\ Alone /\ OwnerInv /\ Undisturbed /\ MirrorInv)
<1>1. Init => Undisturbed /\ MirrorInv
  BY MirrorInit DEF Init, Undisturbed
<1>2. TInv /\ Undisturbed /\ [Next]_vars => Undisturbed'
  BY LeftFalls DEF Events, Undisturbed
<1>3. TInv /\ Alone /\ OwnerInv /\ MirrorInv /\ Undisturbed /\ [Next]_vars => MirrorInv'
  BY MirrorStep
<1> QED
  BY <1>1, <1>2, <1>3, LeftAlone, PTL DEF Spec

\* With one pass at a time, the user away, no statement failing and no process
\* stopping, a message between two statements shows what became of its row,
\* whichever of the pass and the composer writes it first.
THEOREM ConversationTells ==
  ASSUME OnePass, Allowed["command"] = 0, Allowed["sqlError"] = 0, Allowed["restart"] = 0
  PROVE  Spec => []MirrorAgrees
<1>1. MirrorInv => MirrorAgrees
  BY DEF MirrorInv, MirrorAgrees, Shown, Agrees, Mine, Merging, Quiet
<1> QED
  BY <1>1, Mirrored, PTL
-----------------------------------------------------------------------------
(* What the schedule shows, when the daemon is the only sender. *)

\* What the schedule is told of a row.
Told(state) == IF Terminal(state) THEN state ELSE "queued"

ScheduleShown(i) ==
  InQueue(i) =>
    /\ sched[i].state # "scheduled"
    /\ ~Mine(i) => sched[i].state \in {"none", Told(queue[i].state)}

Recording(v) ==
  /\ v.at \in {"stamp", "enqueue"} => sched[v.item].state = "queued"
  /\ v.at \in {"send", "settle", "readSchedule", "writeSchedule"} =>
       sched[v.item].state \in {"none", "queued"}
  /\ v.at \in {"merge", "status"} =>
       sched[v.item].state \in {"none", Told(v.copy[v.item].state)}

ScheduleInv ==
  /\ \A i \in Ids : ScheduleShown(i)
  /\ \A p \in Passes : Recording(pass[p])

\* An entry keeps showing the row that stays as it is.
LEMMA EntryKept ==
  ASSUME NEW i \in Ids, ScheduleShown(i), Steady(i), sched'[i].state = sched[i].state,
         Mine(i) => Mine(i)'
  PROVE  ScheduleShown(i)'
<1>1. InQueue(i)' => InQueue(i) /\ Told(queue'[i].state) = Told(queue[i].state)
  BY DEF Steady, Told, Terminal, MirrorOf
<1> QED
  BY <1>1 DEF ScheduleShown

\* Where no row and no entry changes, a pass that has no row in hand needs none.
LEMMA ScheduleKept ==
  ASSUME OnePass, ScheduleInv, NEW p \in Passes, \A i \in Ids : Steady(i),
         \A i \in Ids : sched'[i].state = sched[i].state,
         \A i \in Ids : Mine(i) => Mine(i)', Recording(pass[p])'
  PROVE  ScheduleInv'
<1>1. \A i \in Ids : ScheduleShown(i)'
  BY EntryKept DEF ScheduleInv
<1>2. \A q \in Passes : q = p
  BY DEF OnePass
<1>3. \A q \in Passes : Recording(pass[q])'
  BY <1>2 DEF Recording
<1> QED
  BY <1>1, <1>3 DEF ScheduleInv

\* The release: an entry that was claimed is in the queue next, and only there.
LEMMA ScheduleRelease ==
  ASSUME TInv, OnePass, ScheduleInv, NEW p \in Passes,
         \/ Begin(p) \/ ListDueScheduled(p) \/ ClaimScheduled(p)
         \/ StampScheduled(p) \/ EnqueueScheduled(p) \/ ListDueQueue(p)
  PROVE  ScheduleInv'
<1> /\ PassOK /\ queue \in [Ids -> Row] /\ sched \in [Ids -> ScheduleRow]
    /\ pass \in [Passes -> Pass] /\ pass[p] \in Pass /\ Recording(pass[p])
  BY Parts DEF PassOK, OtherTypes, ScheduleInv
<1>1. pass[p].at \notin Sending
  BY DEF Begin, ListDueScheduled, ClaimScheduled, StampScheduled, EnqueueScheduled, ListDueQueue, At, Sending
<1>2. \A i \in Ids : ~Mine(i)
  BY <1>1, OnlyPass
<1>4. ASSUME pass'[p].at \in {"idle", "listDue", "release", "claim"} PROVE Recording(pass[p])'
  BY <1>4 DEF Recording
<1>5. CASE Begin(p) \/ ListDueScheduled(p) \/ ListDueQueue(p)
  <2>1. sched' = sched /\ (queue' = queue \/ ReleaseOfflineWaits)
    BY <1>5 DEF Begin, ListDueScheduled, ListDueQueue, tables
  <2>2. pass'[p].at \in {"idle", "listDue", "release", "claim"}
    <3>1. CASE Begin(p)
      BY <3>1 DEF Begin, Goto, Pass
    <3>2. CASE ListDueScheduled(p)
      BY <3>2 DEF ListDueScheduled, Pass
    <3>3. CASE ListDueQueue(p)
      <4>1. PICK rows \in DueQueue :
              pass' = [pass EXCEPT ![p] =
                IF rows = {} THEN Idle
                ELSE [Idle EXCEPT !.at = "claim", !.todo = rows,
                        !.copy = [i \in Ids |-> IF i \in rows THEN queue[i] ELSE NoRow]]]
        BY <3>3 DEF ListDueQueue
      <4> DEFINE w == [Idle EXCEPT !.at = "claim", !.todo = rows,
                         !.copy = [i \in Ids |-> IF i \in rows THEN queue[i] ELSE NoRow]]
      <4>2. w.at = "claim" /\ Idle.at = "idle"
        BY DEF Idle
      <4>3. pass'[p] = Idle \/ pass'[p] = w
        BY <4>1
      <4> HIDE DEF w
      <4> QED
        BY <4>2, <4>3
    <3> QED
      BY <1>5, <3>1, <3>2, <3>3
  <2> QED
    BY <1>2, <1>4, <2>1, <2>2, SteadySteps, ScheduleKept
<1>6. CASE ClaimScheduled(p)
  <2>1. PICK i \in pass[p].todo :
          \/ /\ i \in DueScheduled
             /\ sched' = [sched EXCEPT ![i].state = "queued"]
             /\ pass' = [pass EXCEPT ![p].at = "stamp", ![p].item = i, ![p].todo = @ \ {i}]
          \/ pass' = [pass EXCEPT ![p].todo = @ \ {i}] /\ sched' = sched
    BY <1>6 DEF ClaimScheduled
  <2> DEFINE v == [pass[p] EXCEPT !.at = "stamp", !.item = i, !.todo = @ \ {i}]
             w == [pass[p] EXCEPT !.todo = @ \ {i}]
  <2>2. v.at = "stamp" /\ v.item = i /\ w.at = "release"
    BY <1>6 DEF ClaimScheduled, At, Pass
  <2> HIDE DEF v, w
  <2>3. queue' = queue
    BY <1>6 DEF ClaimScheduled
  <2>4. CASE pass' = [pass EXCEPT ![p] = w] /\ sched' = sched
    <3>1. pass'[p].at = "release"
      BY <2>2, <2>4
    <3> QED
      BY <1>2, <1>4, <2>3, <2>4, <3>1, SteadySteps, ScheduleKept
  <2>5. CASE i \in DueScheduled /\ sched' = [sched EXCEPT ![i].state = "queued"]
             /\ pass' = [pass EXCEPT ![p] = v]
    <3>1. pass'[p].at = "stamp" /\ pass'[p].item = i
      BY <2>2, <2>5
    <3>2. /\ i \in Ids /\ sched[i].state = "scheduled" /\ sched'[i].state = "queued"
          /\ \A j \in Ids \ {i} : sched'[j] = sched[j]
      BY <2>5 DEF DueScheduled, ScheduleRow
    <3>3. ~InQueue(i)
      BY <3>2 DEF ScheduleInv, ScheduleShown
    <3>4. ScheduleShown(i)'
      BY <2>3, <3>3 DEF ScheduleShown, InQueue
    <3>5. \A j \in Ids \ {i} : ScheduleShown(j)'
      BY <1>2, <2>3, <3>2, SteadySteps, EntryKept DEF ScheduleInv
    <3>6. \A q \in Passes : Recording(pass[q])'
      <4>1. \A q \in Passes : q = p
        BY DEF OnePass
      <4> QED
        BY <3>1, <3>2, <4>1 DEF Recording
    <3> QED
      BY <3>4, <3>5, <3>6 DEF ScheduleInv
  <2> QED
    BY <2>1, <2>4, <2>5 DEF v, w
<1>7. CASE StampScheduled(p)
  <2>1. pass'[p].at = "enqueue" /\ pass'[p].item = pass[p].item /\ pass[p].at = "stamp"
        /\ pass[p].item \in Ids
    BY <1>7 DEF StampScheduled, At, Goto, Pass, PassOK, Carrying
  <2>2. sched[pass[p].item].state = "queued"
    BY <2>1 DEF Recording
  <2>3. \A i \in Ids : sched'[i].state = sched[i].state
    BY <1>7, <2>1, <2>2 DEF StampScheduled, UpdateScheduled, Item
  <2>4. Recording(pass[p])'
    BY <2>1, <2>2, <2>3 DEF Recording
  <2>5. queue' = queue
    BY <1>7 DEF StampScheduled
  <2> QED
    BY <1>2, <2>3, <2>4, <2>5, SteadySteps, ScheduleKept
<1>8. CASE EnqueueScheduled(p)
  <2>1. PICK i \in Ids : i = Item(p) /\ sched[i].state = "queued"
    BY <1>8 DEF EnqueueScheduled, At, PassOK, Item, Carrying, Recording
  <2>2. sched' = sched
    BY <1>8 DEF EnqueueScheduled
  <2>3. pass'[p].at \in {"idle", "release"}
    <3> DEFINE v == [pass[p] EXCEPT !.at = "release", !.item = None]
    <3>1. v.at = "release"
      BY DEF Pass
    <3>2. AbandonRelease(p) \/ pass' = [pass EXCEPT ![p] = v]
      BY <1>8 DEF EnqueueScheduled
    <3>3. AbandonRelease(p) => pass'[p].at \in {"idle", "release"}
      BY DEF AbandonRelease, Idle
    <3> QED
      BY <3>1, <3>2, <3>3
  <2>4. CASE queue' = queue
    BY <1>2, <1>4, <2>2, <2>3, <2>4, SteadySteps, ScheduleKept
  <2>5. CASE ~InQueue(i) /\ queue' = Enqueued(i, pass[p].began)
    <3>1. /\ queue'[i].state = "queued"
          /\ \A j \in Ids \ {i} : queue'[j] = queue[j]
      BY <2>5 DEF Enqueued, NoRow
    <3>2. ScheduleShown(i)'
      BY <2>1, <2>2, <3>1 DEF ScheduleShown, Told, Terminal
    <3>3. \A j \in Ids \ {i} : ScheduleShown(j)'
      <4>1. \A j \in Ids \ {i} : Steady(j)
        BY <3>1 DEF Steady, InQueue
      <4> QED
        BY <1>2, <2>2, <4>1, EntryKept DEF ScheduleInv
    <3>4. \A q \in Passes : Recording(pass[q])'
      <4>1. \A q \in Passes : q = p
        BY DEF OnePass
      <4> QED
        BY <2>3, <4>1 DEF Recording
    <3> QED
      BY <3>2, <3>3, <3>4 DEF ScheduleInv
  <2> QED
    BY <1>8, <2>1, <2>4, <2>5 DEF EnqueueScheduled
<1> QED
  BY <1>5, <1>6, <1>7, <1>8

\* The claim: the entry of a row that is taken is unset or queued.
LEMMA ScheduleClaim ==
  ASSUME TInv, OnePass, ScheduleInv, NEW p \in Passes, ClaimQueue(p)
  PROVE  ScheduleInv'
<1> /\ PassOK /\ queue \in [Ids -> Row] /\ pass \in [Passes -> Pass] /\ pass[p] \in Pass
  BY Parts DEF PassOK
<1>1. sched' = sched /\ pass[p].at \notin Sending
  BY DEF ClaimQueue, At, Sending
<1>2. \A i \in Ids : ~Mine(i)
  BY <1>1, OnlyPass
<1>3. PICK i \in pass[p].todo :
        \/ /\ queue[i].state = "queued"
           /\ queue' = [queue EXCEPT ![i].state = "sending", ![i].attempts = @ + 1]
           /\ pass' = [pass EXCEPT ![p].at = "send", ![p].item = i, ![p].todo = @ \ {i}]
        \/ DrainOn(p, pass[p].todo \ {i}) /\ queue' = queue
  BY DEF ClaimQueue
<1>4. i \in Ids
  BY DEF Pass
<1>5. CASE /\ queue[i].state = "queued"
           /\ queue' = [queue EXCEPT ![i].state = "sending", ![i].attempts = @ + 1]
           /\ pass' = [pass EXCEPT ![p].at = "send", ![p].item = i, ![p].todo = @ \ {i}]
  <2>1. pass'[p].at = "send" /\ pass'[p].item = i
    BY <1>5 DEF Pass
  <2>2. \A j \in Ids \ {i} : queue'[j] = queue[j]
    BY <1>5
  <2>3. sched[i].state \in {"none", "queued"}
    BY <1>2, <1>4, <1>5 DEF ScheduleInv, ScheduleShown, InQueue, Told, Terminal
  <2>4. Mine(i)'
    BY <2>1, OnlyPass DEF Sending
  <2>5. ScheduleShown(i)'
    BY <1>1, <2>3, <2>4 DEF ScheduleShown
  <2>6. \A j \in Ids \ {i} : ScheduleShown(j)'
    <3>1. \A j \in Ids \ {i} : Steady(j)
      BY <2>2 DEF Steady, InQueue
    <3> QED
      BY <1>1, <1>2, <3>1, EntryKept DEF ScheduleInv
  <2>7. \A q \in Passes : q = p
    BY DEF OnePass
  <2>8. \A q \in Passes : Recording(pass[q])'
    BY <1>1, <2>1, <2>3, <2>7 DEF Recording
  <2> QED
    BY <2>5, <2>6, <2>8 DEF ScheduleInv
<1>6. CASE DrainOn(p, pass[p].todo \ {i}) /\ queue' = queue
  <2>1. pass'[p].at \in {"idle", "claim"}
    BY <1>6, DrainSteps
  <2>2. Recording(pass[p])'
    BY <2>1 DEF Recording
  <2> QED
    BY <1>1, <1>2, <1>6, <2>2, SteadySteps, ScheduleKept
<1> QED
  BY <1>3, <1>5, <1>6

\* From the send to the merge the daemon brings the entry in line with the row.
LEMMA ScheduleHeld ==
  ASSUME TInv, TuiPasses = {}, OnePass, OwnerInv, ScheduleInv, NEW p \in Passes,
         \/ Accept(p) \/ Refuse(p) \/ LoseAnswer(p) \/ FindNoPhone(p)
         \/ Settle(p) \/ ReadSchedule(p) \/ WriteSchedule(p) \/ MirrorMerge(p)
  PROVE  ScheduleInv'
<1> /\ PassOK /\ queue \in [Ids -> Row] /\ sched \in [Ids -> ScheduleRow]
    /\ pass \in [Passes -> Pass] /\ pass[p] \in Pass /\ Recording(pass[p])
  BY Parts DEF PassOK, OtherTypes, ScheduleInv
<1>1. PICK i \in Ids : i = pass[p].item /\ i = Item(p) /\ pass[p].at \in Sending
  BY DEF Accept, Refuse, LoseAnswer, FindNoPhone, Settle, ReadSchedule, WriteSchedule, MirrorMerge,
         At, Sending, PassOK, Item, Carrying
<1>2. ASSUME NEW row, Answer(p, row) PROVE pass'[p].at = "settle" /\ pass'[p].item = i
  BY <1>1, <1>2 DEF Answer, Pass
<1>3. ASSUME NEW step, Goto(p, step)
      PROVE  pass'[p].at = step /\ pass'[p].item = i /\ pass'[p].copy = pass[p].copy
  BY <1>1, <1>3 DEF Goto, Pass
<1>4. p \in DaemonPasses
  BY DEF Passes
<1>5. pass'[p].at \in Sending /\ pass'[p].item = i
  BY <1>2, <1>3 DEF Accept, Refuse, LoseAnswer, FindNoPhone, Settle, AfterSettle, ReadSchedule,
                    WriteSchedule, MirrorMerge, Sending
<1>6. Mine(i)' /\ \A j : Mine(j) => j = i
  BY <1>1, <1>5, OnlyPass
<1>7. \A q \in Passes : q = p
  BY DEF OnePass
<1>8. \A j \in Ids \ {i} : queue'[j] = queue[j] /\ sched'[j] = sched[j]
  BY <1>1 DEF Accept, Refuse, LoseAnswer, FindNoPhone, Settle, UpdateQueue, ReadSchedule,
              WriteSchedule, UpdateScheduled, MirrorMerge, tables
<1>9. \A j \in Ids \ {i} : ScheduleShown(j)'
  BY <1>6, <1>8 DEF ScheduleInv, ScheduleShown, InQueue
<1>10. Recording(pass[p])' /\ sched'[i].state # "scheduled"
  <2>1. CASE Accept(p) \/ Refuse(p) \/ LoseAnswer(p) \/ FindNoPhone(p)
    <3>1. pass[p].at = "send" /\ sched' = sched /\ pass'[p].at = "settle"
      BY <1>2, <2>1 DEF Accept, Refuse, LoseAnswer, FindNoPhone, At, tables
    <3> QED
      BY <1>1, <1>5, <3>1 DEF Recording
  <2>2. CASE Settle(p)
    <3>1. pass[p].at = "settle" /\ sched' = sched /\ pass'[p].at = "readSchedule"
      BY <1>3, <1>4, <2>2 DEF Settle, At, AfterSettle
    <3> QED
      BY <1>1, <1>5, <3>1 DEF Recording
  <2>3. CASE ReadSchedule(p)
    <3>1. /\ pass[p].at = "readSchedule" /\ sched' = sched /\ pass'[p].copy = pass[p].copy
          /\ \/ pass'[p].at = "writeSchedule"
             \/ /\ pass'[p].at = "merge"
                /\ ~(sched[i].state = "queued" /\ Terminal(pass[p].copy[i].state))
      BY <1>1, <1>3, <2>3 DEF ReadSchedule, At, Carried, Item, tables
    <3>2. sched[i].state \in {"none", "queued"}
      BY <1>1, <3>1 DEF Recording
    <3> QED
      BY <1>5, <3>1, <3>2 DEF Recording, Told
  <2>4. CASE WriteSchedule(p)
    <3>1. /\ pass[p].at = "writeSchedule" /\ Terminal(pass[p].copy[i].state)
          /\ pass'[p].copy = pass[p].copy /\ pass'[p].at = "merge"
      BY <1>1, <1>3, <2>4 DEF WriteSchedule, At, PassOK
    <3>2. sched'[i].state \in {"none", pass[p].copy[i].state}
      BY <1>1, <2>4 DEF WriteSchedule, UpdateScheduled, Carried, Item
    <3> QED
      BY <1>5, <3>1, <3>2 DEF Recording, Told, Terminal
  <2>5. CASE MirrorMerge(p)
    <3>1. /\ pass[p].at = "merge" /\ sched' = sched
          /\ pass'[p].copy = pass[p].copy /\ pass'[p].at = "status"
      BY <1>3, <2>5 DEF MirrorMerge, At
    <3> QED
      BY <1>1, <1>5, <3>1 DEF Recording, Told, Terminal
  <2> QED
    BY <2>1, <2>2, <2>3, <2>4, <2>5
<1>11. ScheduleShown(i)'
  BY <1>6, <1>10 DEF ScheduleShown
<1>12. \A q \in Passes : Recording(pass[q])'
  BY <1>7, <1>10 DEF Recording
<1> QED
  BY <1>9, <1>11, <1>12 DEF ScheduleInv

\* The pass lets go of the row when the entry shows what it wrote.
LEMMA ScheduleDone ==
  ASSUME TInv, OnePass, MirrorInv, ScheduleInv, NEW p \in Passes, MirrorStatus(p)
  PROVE  ScheduleInv'
<1> /\ PassOK /\ queue \in [Ids -> Row] /\ pass \in [Passes -> Pass] /\ pass[p] \in Pass
    /\ Recording(pass[p]) /\ Telling(pass[p])
  BY Parts DEF PassOK, ScheduleInv, MirrorInv
<1>1. pass[p].at = "status" /\ queue' = queue /\ sched' = sched
  BY DEF MirrorStatus, At
<1>2. PICK i \in Ids : i = pass[p].item
  BY <1>1 DEF PassOK, Carrying
<1>3. sched[i].state \in {"none", Told(queue[i].state)}
  BY <1>1, <1>2 DEF Recording, Telling
<1>4. pass'[p].at \in {"idle", "claim"}
  BY DrainSteps DEF MirrorStatus
<1>5. \A j \in Ids \ {i} : ~Mine(j)
  BY <1>2, OnlyPass
<1>6. \A j \in Ids \ {i} : ScheduleShown(j)'
  BY <1>1, <1>5, SteadySteps, EntryKept DEF ScheduleInv
<1>7. ScheduleShown(i)'
  BY <1>1, <1>3 DEF ScheduleShown, Told, Terminal
<1>8. \A q \in Passes : q = p
  BY DEF OnePass
<1>9. \A q \in Passes : Recording(pass[q])'
  BY <1>4, <1>8 DEF Recording
<1> QED
  BY <1>6, <1>7, <1>9 DEF ScheduleInv

\* What is not a pass files a message that was nowhere, or leaves the states.
LEMMA ScheduleOther ==
  ASSUME TInv, Alone, Undisturbed, OwnerInv, MirrorInv, ScheduleInv,
         \/ \E i \in Ids : User(i) \/ Elapse(i) \/ Arrive(i)
         \/ CmdStep \/ CmdFails
         \/ \E proc \in Procs : Start(proc) \/ Stop(proc)
         \/ OpenElsewhere \/ Disconnect \/ Connect \/ UNCHANGED vars
  PROVE  ScheduleInv'
<1> PassOK /\ queue \in [Ids -> Row] /\ sched \in [Ids -> ScheduleRow]
  BY Parts DEF OtherTypes
<1>1. /\ ~Spend("sqlError") /\ ~Spend("restart") /\ ~Spend("command")
      /\ cmd.step \in {"none", "mergeQueued", "mergeScheduled"}
  BY DEF Undisturbed, Alone, Spend
<1>2. ASSUME pass' = pass, NEW p \in Passes, \A i \in Ids : sched'[i].state # sched[i].state =>
               ~(pass[p].at \in Carrying /\ pass[p].item = i)
      PROVE  Recording(pass[p])'
  <2>1. Recording(pass[p]) /\ (pass[p].at \in Carrying => pass[p].item \in Ids)
    BY DEF ScheduleInv, PassOK
  <2> QED
    BY <1>2, <2>1 DEF Recording, Carrying
<1>3. ASSUME NEW i \in Ids, User(i) PROVE ScheduleInv'
  <2>1. QueueForLater(i) \/ StoreSchedule(i)
    BY <1>1, <1>3 DEF User, ReadRow, FindSchedule, DropEntry, DeleteLocalCopy
  <2>2. granted[i] = 0 /\ pass' = pass
    BY <1>1, <2>1 DEF QueueForLater, StoreSchedule, Composed
  <2>3. ~InQueue(i) /\ sched[i].state = "none"
    BY <2>2 DEF MirrorInv, Known
  <2>4. /\ \A j \in Ids \ {i} : queue'[j] = queue[j] /\ sched'[j] = sched[j]
        /\ sched'[i] = sched[i] \/ queue'[i] = queue[i]
    BY <2>1 DEF QueueForLater, StoreSchedule, Enqueued
  <2>5. ScheduleShown(i)'
    BY <2>3, <2>4 DEF ScheduleShown, InQueue
  <2>6. \A j \in Ids \ {i} : ScheduleShown(j)'
    BY <2>2, <2>4 DEF ScheduleInv, ScheduleShown, InQueue, Mine, Item
  <2>7. ASSUME NEW p \in Passes PROVE Recording(pass[p])'
    <3>1. CASE sched' = sched
      BY <1>2, <2>2, <3>1
    <3>2. CASE sched' # sched
      <4>1. /\ sched'[i].state = "scheduled" /\ queue' = queue
        BY <2>1, <3>2 DEF QueueForLater, StoreSchedule
      <4>2. pass[p].at \in {"stamp", "enqueue"} => pass[p].item # i
        BY <2>3 DEF MirrorInv, Telling
      <4>3. pass[p].at \in {"readSchedule", "writeSchedule", "merge", "status"} => pass[p].item # i
        BY <2>3 DEF MirrorInv, Telling, InQueue, Outcomes
      <4>4. pass[p].at \in {"send", "settle"} => pass[p].item # i
        BY <2>3 DEF OwnerInv, HeldRows, Holds, HeldStates, InQueue, Item
      <4> QED
        BY <1>2, <2>2, <2>4, <4>2, <4>3, <4>4 DEF Carrying
    <3> QED
      BY <3>1, <3>2
  <2> QED
    BY <2>5, <2>6, <2>7 DEF ScheduleInv
<1>4. ASSUME ~\E i \in Ids : User(i) PROVE ScheduleInv'
  <2>1. /\ pass' = pass
        /\ \/ queue' = queue \/ Recover \/ \E j \in Ids : Elapse(j)
        /\ sched' = sched \/ \E i \in Ids : Arrive(i)
    <3>1. CmdStep => MergeComposed
      BY <1>1 DEF CmdStep, Resend, PauseOrResume, SendNow, DeleteMessage, DropRows, Dropping
    <3> QED
      BY <1>1, <1>4, <3>1 DEF Elapse, Arrive, MergeComposed, CmdFails, Start, Stop, OpenElsewhere,
                              Disconnect, Connect, vars, tables, actors
  <2>2. \A i \in Ids : Steady(i)
    BY <2>1, SteadySteps
  <2>3. \A i \in Ids : sched'[i].state = sched[i].state
    BY <2>1 DEF Arrive, ScheduleRow
  <2>4. \A i : Mine(i)' <=> Mine(i)
    BY <2>1 DEF Mine, Item
  <2>5. \A i \in Ids : ScheduleShown(i)'
    BY <2>2, <2>3, <2>4, EntryKept DEF ScheduleInv
  <2> QED
    BY <1>2, <2>1, <2>3, <2>5 DEF ScheduleInv
<1> QED
  BY <1>3, <1>4

LEMMA ScheduleStep ==
  ASSUME TInv, Alone, TuiPasses = {}, OwnerInv, MirrorInv, Undisturbed, ScheduleInv, [Next]_vars
  PROVE  ScheduleInv'
<1>1. OnePass
  BY OutboxAssumption DEF OnePass, Passes
<1>2. ASSUME NEW p \in Passes, Begin(p) \/ PassStep(p) PROVE ScheduleInv'
  BY <1>1, <1>2, ScheduleRelease, ScheduleClaim, ScheduleHeld, ScheduleDone DEF PassStep
<1>3. ~\E p \in Passes : StatementFails(p)
  BY DEF StatementFails, Spend, Undisturbed
<1> QED
  BY <1>2, <1>3, ScheduleOther DEF Next

\* With the daemon as the only sender, the user away, no statement failing and
\* no process stopping, an entry of the schedule between two statements shows
\* what became of its row.
THEOREM ScheduleTells ==
  ASSUME TuiPasses = {}, Allowed["command"] = 0, Allowed["sqlError"] = 0, Allowed["restart"] = 0
  PROVE  Spec => []ScheduleAgrees
<1>1. OnePass
  BY OutboxAssumption DEF OnePass, Passes
<1>2. Init => ScheduleInv
  <2> SUFFICES ASSUME Init PROVE ScheduleInv
    OBVIOUS
  <2>1. \A i \in Ids : ~InQueue(i)
    BY DEF Init, InQueue, NoRow
  <2>2. \A p \in Passes : pass[p].at = "idle"
    BY DEF Init, Idle
  <2> QED
    BY <2>1, <2>2 DEF ScheduleInv, ScheduleShown, Recording
<1>3. TInv /\ Alone /\ OwnerInv /\ Undisturbed /\ MirrorInv /\ ScheduleInv /\ [Next]_vars
        => ScheduleInv'
  BY ScheduleStep
<1>4. ScheduleInv => ScheduleAgrees
  BY DEF ScheduleInv, ScheduleAgrees, ScheduleShown, Mine, Quiet, Told
<1>5. Spec => [](TInv /\ Alone /\ OwnerInv /\ Undisturbed /\ MirrorInv)
  BY <1>1, Mirrored
<1> QED
  BY <1>2, <1>3, <1>4, <1>5, PTL DEF Spec
=============================================================================
