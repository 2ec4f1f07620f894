---------------------------- MODULE OutboxProofs ----------------------------
(***************************************************************************)
(* Proofs about Outbox, for any messages, passes, limits and numbers of    *)
(* outside events.                                                         *)
(***************************************************************************)
EXTENDS Outbox, FiniteSetTheorems, TLAPS

\* The steps at which a pass carries a message.
Carrying == {"stamp", "enqueue", "send", "settle", "readSchedule", "writeSchedule",
             "merge", "status"}

\* Whoever needs a message carries one; the schedule is told final outcomes only.
ItemHeld ==
  /\ \A p \in Passes : pass[p].at \in Carrying => Item(p) \in Ids
  /\ \A p \in Passes : pass[p].at = "writeSchedule" => Terminal(Carried(p).state)
  /\ cmd.step # "none" => cmd.id \in Ids

TInv == TypeOK /\ ItemHeld

USE DEF Carrying

-----------------------------------------------------------------------------
(* The rows attempt writes back are rows. *)

LEMMA RowTypes ==
  ASSUME NEW row \in Row
  PROVE  SentRow(row) \in Row /\ WaitingRow(row) \in Row /\ RefusedRow(row) \in Row
<1>1. row.attempts + 1 \in Nat
  BY DEF Row
<1>2. PICK more \in Nat : more = row.attempts + 1
  BY <1>1
<1>3. \A state \in QueueStates, next \in {"now", "later"} :
        [row EXCEPT !.state = state, !.attempts = more, !.next = next,
                    !.offlineWait = FALSE] \in Row
  BY DEF Row
<1>4. SentRow(row) \in Row
  BY <1>2, <1>3 DEF SentRow, QueueStates
<1>5. WaitingRow(row) \in Row
  BY DEF WaitingRow, Row, QueueStates
<1>6. RefusedRow(row) \in Row
  BY <1>2, <1>3, Zenon DEF RefusedRow, QueueStates
<1> QED
  BY <1>4, <1>5, <1>6

LEMMA ConstantTypes == NoRow \in Row /\ NoSchedule \in ScheduleRow /\ Idle \in Pass /\ NoCmd \in Cmd
<1>1. NoRow \in Row
  BY DEF NoRow, Row
<1>2. NoSchedule \in ScheduleRow
  BY DEF NoSchedule, ScheduleRow
<1>3. Idle \in Pass
  BY <1>1 DEF Idle, Pass, PassSteps
<1>4. NoCmd \in Cmd
  BY <1>1 DEF NoCmd, Cmd, CmdSteps
<1> QED
  BY <1>1, <1>2, <1>3, <1>4

\* Each part of a pass and of the command has its type.
LEMMA PassParts ==
  ASSUME TypeOK, NEW p \in Passes
  PROVE  /\ pass[p] \in Pass
         /\ pass[p].at \in PassSteps
         /\ pass[p].todo \subseteq Ids
         /\ pass[p].copy \in [Ids -> Row]
         /\ Item(p) \in Ids \cup {None}
BY DEF TypeOK, Pass, Item

LEMMA TypeInit == Init => TInv
<1> SUFFICES ASSUME Init PROVE TInv
  OBVIOUS
<1>1. TypeOK
  BY OutboxAssumption, ConstantTypes DEF Init, TypeOK, MessageStates
<1>2. ItemHeld
  BY DEF Init, ItemHeld, Idle, NoCmd
<1> QED
  BY <1>1, <1>2 DEF TInv

-----------------------------------------------------------------------------
(* What the statements and the control of a pass do to the types. *)

PassOK ==
  /\ pass \in [Passes -> Pass]
  /\ \A p \in Passes : pass[p].at \in Carrying => pass[p].item \in Ids
  /\ \A p \in Passes :
       pass[p].at = "writeSchedule" => Terminal(pass[p].copy[pass[p].item].state)

LEMMA TInvPass == TInv => PassOK
BY DEF TInv, TypeOK, ItemHeld, PassOK, Item, Carried

\* One pass gets a new value.
LEMMA SetPass ==
  ASSUME PassOK, NEW p \in Passes, NEW v \in Pass,
         v.at \in Carrying => v.item \in Ids,
         v.at = "writeSchedule" => Terminal(v.copy[v.item].state),
         pass' = [pass EXCEPT ![p] = v]
  PROVE  PassOK'
BY DEF PassOK

LEMMA GotoType ==
  ASSUME PassOK, NEW p \in Passes, NEW step \in PassSteps,
         step \in Carrying => pass[p].item \in Ids,
         step = "writeSchedule" => Terminal(Carried(p).state),
         Goto(p, step)
  PROVE  PassOK'
<1> DEFINE v == [pass[p] EXCEPT !.at = step]
<1>1. v \in Pass /\ v.at = step /\ v.item = pass[p].item /\ v.copy = pass[p].copy
  BY DEF PassOK, Pass
<1>2. pass' = [pass EXCEPT ![p] = v]
  BY DEF Goto
<1> QED
  BY <1>1, <1>2, SetPass DEF Carried, Item

LEMMA AbandonType ==
  ASSUME PassOK, NEW p \in Passes, AbandonRelease(p)
  PROVE  PassOK'
<1> DEFINE v == IF p \in TuiPasses THEN Idle ELSE [Idle EXCEPT !.at = "release"]
<1>1. v \in Pass
  BY ConstantTypes DEF Pass, PassSteps
<1>2. v.at \notin Carrying
  BY DEF Idle
<1>3. pass' = [pass EXCEPT ![p] = v]
  BY DEF AbandonRelease
<1> QED
  BY <1>1, <1>2, <1>3, SetPass

LEMMA DrainType ==
  ASSUME PassOK, NEW p \in Passes, NEW todo \in SUBSET Ids, DrainOn(p, todo)
  PROVE  PassOK'
<1> DEFINE v == IF todo = {} THEN Idle
                ELSE [pass[p] EXCEPT !.at = "claim", !.todo = todo, !.item = None]
<1>1. v \in Pass
  BY ConstantTypes DEF PassOK, Pass, PassSteps
<1>2. v.at \notin Carrying
  BY DEF Idle, PassOK, Pass
<1>3. pass' = [pass EXCEPT ![p] = v]
  BY DEF DrainOn
<1> QED
  BY <1>1, <1>2, <1>3, SetPass

LEMMA AnswerType ==
  ASSUME PassOK, NEW p \in Passes, NEW row \in Row, Item(p) \in Ids, Answer(p, row)
  PROVE  PassOK'
<1> DEFINE v == [pass[p] EXCEPT !.at = "settle", !.copy = [@ EXCEPT ![Item(p)] = row]]
<1>1. v \in Pass
  BY DEF PassOK, Pass, PassSteps
<1>2. v.item \in Ids /\ v.at # "writeSchedule"
  BY DEF PassOK, Pass, Item
<1>3. pass' = [pass EXCEPT ![p] = v]
  BY DEF Answer
<1> QED
  BY <1>1, <1>2, <1>3, SetPass

LEMMA QueueTypes ==
  ASSUME TypeOK
  PROVE  /\ \A i \in Ids, n \in Nat : Enqueued(i, n) \in [Ids -> Row]
         /\ \A i \in Ids, row \in Row : UpdateQueue(i, row) => queue' \in [Ids -> Row]
         /\ ReleaseOfflineWaits => queue' \in [Ids -> Row]
         /\ Recover => queue' \in [Ids -> Row]
         /\ \A i \in Ids : [queue EXCEPT ![i] = NoRow] \in [Ids -> Row]
<1> USE DEF TypeOK
<1>1. ASSUME NEW i \in Ids, NEW n \in Nat PROVE Enqueued(i, n) \in [Ids -> Row]
  <2>1. [NoRow EXCEPT !.state = "queued", !.created = n] \in Row
    BY DEF NoRow, Row, QueueStates
  <2> QED
    BY <2>1 DEF Enqueued
<1>2. ASSUME NEW i \in Ids, NEW row \in Row, UpdateQueue(i, row)
      PROVE  queue' \in [Ids -> Row]
  <2>1. [row EXCEPT !.created = queue[i].created] \in Row
    BY DEF Row
  <2> QED
    BY <1>2, <2>1 DEF UpdateQueue
<1>3. ASSUME ReleaseOfflineWaits PROVE queue' \in [Ids -> Row]
  BY <1>3 DEF ReleaseOfflineWaits, Row
<1>4. ASSUME Recover PROVE queue' \in [Ids -> Row]
  BY <1>4 DEF Recover, Row, QueueStates
<1>5. \A i \in Ids : [queue EXCEPT ![i] = NoRow] \in [Ids -> Row]
  BY ConstantTypes
<1> QED
  BY <1>1, <1>2, <1>3, <1>4, <1>5

LEMMA SmallTypes ==
  ASSUME TypeOK
  PROVE  /\ \A i \in Ids, row \in ScheduleRow :
              UpdateScheduled(i, row) => sched' \in [Ids -> ScheduleRow]
         /\ \A i \in Ids, status \in MessageStates :
              MergeMessage(i, status) \/ MessageStatus(i, status)
                => msg' \in [Ids -> MessageStates]
         /\ \A e \in Events : Spend(e) => left' \in [Events -> Nat]
         /\ \A i \in Ids : Counted(i) => tries' \in [Ids -> 0 .. MaxTries]
         /\ \A i \in Ids : Grant(i) \/ Regrant(i) => granted' \in [Ids -> Nat]
<1> USE DEF TypeOK
<1>1. \A i \in Ids, row \in ScheduleRow :
        UpdateScheduled(i, row) => sched' \in [Ids -> ScheduleRow]
  BY DEF UpdateScheduled
<1>2. \A i \in Ids, status \in MessageStates :
        MergeMessage(i, status) \/ MessageStatus(i, status)
          => msg' \in [Ids -> MessageStates]
  BY DEF MergeMessage, MessageStatus
<1>3. \A e \in Events : Spend(e) => left' \in [Events -> Nat]
  BY DEF Spend
<1>4. \A i \in Ids : Counted(i) => tries' \in [Ids -> 0 .. MaxTries]
  BY OutboxAssumption DEF Counted
<1>5. \A i \in Ids : Grant(i) \/ Regrant(i) => granted' \in [Ids -> Nat]
  BY DEF Regrant, Grant
<1> QED
  BY <1>1, <1>2, <1>3, <1>4, <1>5

CmdOK == cmd \in Cmd /\ (cmd.step # "none" => cmd.id \in Ids)

OtherTypes ==
  /\ sched \in [Ids -> ScheduleRow]
  /\ msg \in [Ids -> MessageStates]
  /\ clock \in Nat
  /\ up \subseteq Procs
  /\ online \in BOOLEAN
  /\ left \in [Events -> Nat]
  /\ handed \in [Ids -> Nat]
  /\ granted \in [Ids -> Nat]
  /\ tries \in [Ids -> 0 .. MaxTries]

LEMMA Parts == TInv <=> PassOK /\ CmdOK /\ queue \in [Ids -> Row] /\ OtherTypes
BY DEF TInv, TypeOK, ItemHeld, PassOK, CmdOK, OtherTypes, Item, Carried

LEMMA PartsNext == PassOK' /\ CmdOK' /\ queue' \in [Ids -> Row] /\ OtherTypes' => TInv'
BY DEF TInv, TypeOK, ItemHeld, PassOK, CmdOK, OtherTypes, Item, Carried

-----------------------------------------------------------------------------
(* Every action keeps the types. *)

LEMMA ReleaseTypes ==
  ASSUME TInv, NEW p \in Passes,
         \/ Begin(p) \/ ListDueScheduled(p) \/ ClaimScheduled(p)
         \/ StampScheduled(p) \/ EnqueueScheduled(p)
  PROVE  TInv'
<1> PassOK /\ CmdOK /\ queue \in [Ids -> Row] /\ OtherTypes /\ TypeOK
  BY Parts DEF TInv
<1> SUFFICES PassOK' /\ CmdOK' /\ queue' \in [Ids -> Row] /\ OtherTypes'
  BY PartsNext
<1>1. CASE Begin(p)
  <2>1. PassOK'
    BY <1>1, GotoType DEF Begin, PassSteps
  <2>2. queue' \in [Ids -> Row]
    BY <1>1, QueueTypes DEF Begin
  <2> QED
    BY <1>1, <2>1, <2>2 DEF Begin, CmdOK, OtherTypes, ghosts
<1>2. CASE ListDueScheduled(p)
  <2> DEFINE v == [pass[p] EXCEPT !.at = "release", !.todo = DueScheduled, !.began = clock + 1]
  <2>0. clock + 1 \in Nat
    BY DEF OtherTypes
  <2>1. v \in Pass /\ v.at \notin Carrying
    BY <2>0 DEF PassOK, Pass, PassSteps, DueScheduled
  <2>2. pass' = [pass EXCEPT ![p] = v]
    BY <1>2 DEF ListDueScheduled
  <2>3. PassOK'
    BY <2>1, <2>2, SetPass
  <2> QED
    BY <1>2, <2>3 DEF ListDueScheduled, CmdOK, OtherTypes, ghosts, tables
<1>3. CASE ClaimScheduled(p)
  <2>1. PICK i \in pass[p].todo :
          \/ /\ sched' = [sched EXCEPT ![i].state = "queued"]
             /\ pass' = [pass EXCEPT ![p].at = "stamp", ![p].item = i, ![p].todo = @ \ {i}]
          \/ /\ pass' = [pass EXCEPT ![p].todo = @ \ {i}]
             /\ UNCHANGED sched
    BY <1>3 DEF ClaimScheduled
  <2> DEFINE v == [pass[p] EXCEPT !.at = "stamp", !.item = i, !.todo = @ \ {i}]
             w == [pass[p] EXCEPT !.todo = @ \ {i}]
  <2>2. v \in Pass /\ v.item \in Ids /\ v.at = "stamp"
    BY DEF PassOK, Pass, PassSteps
  <2>3. w \in Pass /\ w.at = "release"
    BY <1>3 DEF ClaimScheduled, At, PassOK, Pass
  <2>4. pass' = [pass EXCEPT ![p] = v] \/ pass' = [pass EXCEPT ![p] = w]
    BY <2>1
  <2>5. PassOK'
    BY <2>2, <2>3, <2>4, SetPass
  <2>6. sched' \in [Ids -> ScheduleRow]
    BY <2>1 DEF OtherTypes, ScheduleRow
  <2> QED
    BY <1>3, <2>5, <2>6 DEF ClaimScheduled, CmdOK, OtherTypes, ghosts
<1>4. CASE StampScheduled(p)
  <2>1. Item(p) \in Ids
    BY <1>4 DEF StampScheduled, At, PassOK, Item
  <2>2. sched' \in [Ids -> ScheduleRow]
    BY <1>4, <2>1, SmallTypes DEF StampScheduled, ScheduleRow
  <2>3. PassOK'
    BY <1>4, <2>1, GotoType DEF StampScheduled, PassSteps, Item
  <2> QED
    BY <1>4, <2>2, <2>3 DEF StampScheduled, CmdOK, OtherTypes, ghosts
<1>5. CASE EnqueueScheduled(p)
  <2>1. Item(p) \in Ids
    BY <1>5 DEF EnqueueScheduled, At, PassOK, Item
  <2>2. queue' \in [Ids -> Row]
    <3>1. pass[p].began \in Nat
      BY DEF PassOK, Pass
    <3> QED
      BY <1>5, <2>1, <3>1, QueueTypes DEF EnqueueScheduled
  <2> DEFINE v == [pass[p] EXCEPT !.at = "release", !.item = None]
  <2>3. v \in Pass /\ v.at \notin Carrying
    BY DEF PassOK, Pass, PassSteps
  <2>4. AbandonRelease(p) \/ pass' = [pass EXCEPT ![p] = v]
    BY <1>5 DEF EnqueueScheduled
  <2>5. PassOK'
    BY <2>3, <2>4, SetPass, AbandonType
  <2> QED
    BY <1>5, <2>2, <2>5 DEF EnqueueScheduled, CmdOK, OtherTypes, ghosts
<1> QED
  BY <1>1, <1>2, <1>3, <1>4, <1>5

LEMMA DrainTypes ==
  ASSUME TInv, NEW p \in Passes,
         \/ ListDueQueue(p) \/ ClaimQueue(p)
         \/ Accept(p) \/ Refuse(p) \/ LoseAnswer(p) \/ FindNoPhone(p)
  PROVE  TInv'
<1> PassOK /\ CmdOK /\ queue \in [Ids -> Row] /\ OtherTypes /\ TypeOK
  BY Parts DEF TInv
<1> SUFFICES PassOK' /\ CmdOK' /\ queue' \in [Ids -> Row] /\ OtherTypes'
  BY PartsNext
<1>1. CASE ListDueQueue(p)
  <2>0. PICK rows \in SUBSET Ids :
          pass' = [pass EXCEPT ![p] =
            IF rows = {} THEN Idle
            ELSE [Idle EXCEPT !.at = "claim", !.todo = rows,
                    !.copy = [i \in Ids |-> IF i \in rows THEN queue[i] ELSE NoRow]]]
    BY <1>1 DEF ListDueQueue, DueQueue
  <2> DEFINE v == [Idle EXCEPT !.at = "claim", !.todo = rows,
                     !.copy = [i \in Ids |-> IF i \in rows THEN queue[i] ELSE NoRow]]
  <2>1. v \in Pass /\ v.at \notin Carrying
    BY ConstantTypes DEF Idle, Pass, PassSteps
  <2>2. Idle \in Pass /\ Idle.at \notin Carrying
    BY ConstantTypes DEF Idle
  <2>3. pass' = [pass EXCEPT ![p] = v] \/ pass' = [pass EXCEPT ![p] = Idle]
    BY <2>0
  <2>4. PassOK'
    BY <2>1, <2>2, <2>3, SetPass
  <2> QED
    BY <1>1, <2>4 DEF ListDueQueue, CmdOK, OtherTypes, ghosts, tables
<1>2. CASE ClaimQueue(p)
  <2>1. PICK i \in pass[p].todo :
          \/ /\ queue' = [queue EXCEPT ![i].state = "sending", ![i].attempts = @ + 1]
             /\ pass' = [pass EXCEPT ![p].at = "send", ![p].item = i, ![p].todo = @ \ {i}]
          \/ /\ DrainOn(p, pass[p].todo \ {i})
             /\ UNCHANGED queue
    BY <1>2 DEF ClaimQueue
  <2>2. i \in Ids /\ pass[p].todo \ {i} \in SUBSET Ids
    BY DEF PassOK, Pass
  <2> DEFINE v == [pass[p] EXCEPT !.at = "send", !.item = i, !.todo = @ \ {i}]
  <2>3. v \in Pass /\ v.item \in Ids /\ v.at = "send"
    BY <2>2 DEF PassOK, Pass, PassSteps
  <2>4. DrainOn(p, pass[p].todo \ {i}) \/ pass' = [pass EXCEPT ![p] = v]
    BY <2>1
  <2>5. PassOK'
    BY <2>2, <2>3, <2>4, SetPass, DrainType
  <2>6. queue' \in [Ids -> Row]
    <3>1. queue[i].attempts + 1 \in Nat
      BY <2>2 DEF Row
    <3>2. [queue[i] EXCEPT !.state = "sending", !.attempts = queue[i].attempts + 1] \in Row
      BY <2>2, <3>1 DEF Row, QueueStates
    <3> QED
      BY <2>1, <2>2, <3>2
  <2> QED
    BY <1>2, <2>5, <2>6 DEF ClaimQueue, CmdOK, OtherTypes, ghosts
<1>3. ASSUME At(p, "send")
      PROVE  /\ Item(p) \in Ids
             /\ SentRow(Carried(p)) \in Row
             /\ RefusedRow(Carried(p)) \in Row
             /\ WaitingRow(Carried(p)) \in Row
  <2>1. Item(p) \in Ids
    BY <1>3 DEF At, PassOK, Item
  <2>2. Carried(p) \in Row
    BY <2>1 DEF Carried, PassOK, Pass
  <2> QED
    BY <2>1, <2>2, RowTypes
<1>4. CASE Accept(p)
  <2>1. PassOK'
    BY <1>3, <1>4, AnswerType DEF Accept
  <2>2. handed' \in [Ids -> Nat]
    BY <1>3, <1>4 DEF Accept, OtherTypes
  <2> QED
    BY <1>4, <2>1, <2>2 DEF Accept, CmdOK, OtherTypes, tables
<1>5. CASE Refuse(p)
  <2>1. PassOK'
    BY <1>3, <1>5, AnswerType DEF Refuse
  <2>2. tries' \in [Ids -> 0 .. MaxTries]
    BY <1>3, <1>5, SmallTypes DEF Refuse
  <2> QED
    BY <1>5, <2>1, <2>2 DEF Refuse, CmdOK, OtherTypes, tables
<1>6. CASE LoseAnswer(p)
  <2>1. PassOK'
    BY <1>3, <1>6, AnswerType DEF LoseAnswer
  <2>2. tries' \in [Ids -> 0 .. MaxTries] /\ left' \in [Events -> Nat]
    BY <1>3, <1>6, SmallTypes DEF LoseAnswer, Events
  <2>3. handed' \in [Ids -> Nat] /\ granted' \in [Ids -> Nat]
    BY <1>3, <1>6 DEF LoseAnswer, OtherTypes
  <2> QED
    BY <1>6, <2>1, <2>2, <2>3 DEF LoseAnswer, CmdOK, OtherTypes, tables
<1>7. CASE FindNoPhone(p)
  <2>1. PassOK'
    BY <1>3, <1>7, AnswerType DEF FindNoPhone
  <2> QED
    BY <1>7, <2>1 DEF FindNoPhone, CmdOK, OtherTypes, tables, ghosts
<1> QED
  BY <1>1, <1>2, <1>4, <1>5, <1>6, <1>7

LEMMA OutcomeTypes ==
  ASSUME TInv, NEW p \in Passes,
         \/ Settle(p) \/ ReadSchedule(p) \/ WriteSchedule(p)
         \/ MirrorMerge(p) \/ MirrorStatus(p)
  PROVE  TInv'
<1> PassOK /\ CmdOK /\ queue \in [Ids -> Row] /\ OtherTypes /\ TypeOK
  BY Parts DEF TInv
<1> SUFFICES PassOK' /\ CmdOK' /\ queue' \in [Ids -> Row] /\ OtherTypes'
  BY PartsNext
<1>1. Item(p) \in Ids /\ pass[p].item \in Ids /\ Carried(p) \in Row
  <2>1. pass[p].at \in Carrying
    BY DEF Settle, ReadSchedule, WriteSchedule, MirrorMerge, MirrorStatus, At
  <2> QED
    BY <2>1 DEF PassOK, Pass, Item, Carried
<1>2. MirrorOf(Carried(p).state) \in MessageStates
  BY DEF MirrorOf, MessageStates
<1>3. CASE Settle(p)
  <2>1. PassOK'
    BY <1>1, <1>3, GotoType DEF Settle, AfterSettle, PassSteps
  <2>2. queue' \in [Ids -> Row]
    BY <1>1, <1>3, QueueTypes DEF Settle
  <2> QED
    BY <1>3, <2>1, <2>2 DEF Settle, CmdOK, OtherTypes, ghosts
<1>4. CASE ReadSchedule(p)
  <2>1. (Terminal(Carried(p).state) /\ Goto(p, "writeSchedule")) \/ Goto(p, "merge")
    BY <1>4 DEF ReadSchedule
  <2>2. PassOK'
    BY <1>1, <2>1, GotoType DEF PassSteps
  <2> QED
    BY <1>4, <2>2 DEF ReadSchedule, CmdOK, OtherTypes, tables, ghosts
<1>5. CASE WriteSchedule(p)
  <2>1. [state |-> Carried(p).state, at |-> "past"] \in ScheduleRow
    <3>1. Terminal(Carried(p).state)
      BY <1>5 DEF WriteSchedule, At, PassOK, Carried, Item
    <3> QED
      BY <3>1 DEF Terminal, ScheduleRow
  <2>2. sched' \in [Ids -> ScheduleRow]
    BY <1>1, <1>5, <2>1, SmallTypes DEF WriteSchedule
  <2>3. PassOK'
    BY <1>1, <1>5, GotoType DEF WriteSchedule, PassSteps
  <2> QED
    BY <1>5, <2>2, <2>3 DEF WriteSchedule, CmdOK, OtherTypes, ghosts
<1>6. CASE MirrorMerge(p)
  <2>1. msg' \in [Ids -> MessageStates]
    BY <1>1, <1>2, <1>6, SmallTypes DEF MirrorMerge
  <2>2. PassOK'
    BY <1>1, <1>6, GotoType DEF MirrorMerge, PassSteps
  <2> QED
    BY <1>6, <2>1, <2>2 DEF MirrorMerge, CmdOK, OtherTypes, ghosts
<1>7. CASE MirrorStatus(p)
  <2>1. msg' \in [Ids -> MessageStates]
    BY <1>1, <1>2, <1>7, SmallTypes DEF MirrorStatus
  <2>2. pass[p].todo \in SUBSET Ids
    BY DEF PassOK, Pass
  <2>3. PassOK'
    BY <1>7, <2>2, DrainType DEF MirrorStatus
  <2> QED
    BY <1>7, <2>1, <2>3 DEF MirrorStatus, CmdOK, OtherTypes, ghosts
<1> QED
  BY <1>3, <1>4, <1>5, <1>6, <1>7

LEMMA FailureTypes ==
  ASSUME TInv, NEW p \in Passes, StatementFails(p)
  PROVE  TInv'
<1> PassOK /\ CmdOK /\ queue \in [Ids -> Row] /\ OtherTypes /\ TypeOK
  BY Parts DEF TInv
<1> SUFFICES PassOK' /\ CmdOK' /\ queue' \in [Ids -> Row] /\ OtherTypes'
  BY PartsNext
<1>1. left' \in [Events -> Nat]
  BY SmallTypes DEF StatementFails, Events
<1>2. Idle \in Pass /\ Idle.at \notin Carrying
  BY ConstantTypes DEF Idle
<1>3. pass[p].todo \in SUBSET Ids /\ \A i : pass[p].todo \ {i} \in SUBSET Ids
  BY DEF PassOK, Pass
<1>4. \/ AbandonRelease(p)
      \/ pass' = [pass EXCEPT ![p] = Idle]
      \/ \E i \in Ids : DrainOn(p, pass[p].todo \ {i})
      \/ At(p, "settle") /\ Goto(p, AfterSettle(p))
      \/ pass[p].at \in {"readSchedule", "writeSchedule"} /\ Goto(p, "merge")
      \/ DrainOn(p, pass[p].todo)
  BY <1>3 DEF StatementFails
<1>5. PassOK'
  <2>1. CASE AbandonRelease(p)
    BY <2>1, AbandonType
  <2>2. CASE pass' = [pass EXCEPT ![p] = Idle]
    BY <1>2, <2>2, SetPass
  <2>3. CASE \E i \in Ids : DrainOn(p, pass[p].todo \ {i})
    BY <1>3, <2>3, DrainType
  <2>4. CASE At(p, "settle") /\ Goto(p, AfterSettle(p))
    BY <2>4, GotoType DEF AfterSettle, PassSteps, At, PassOK
  <2>5. CASE pass[p].at \in {"readSchedule", "writeSchedule"} /\ Goto(p, "merge")
    BY <2>5, GotoType DEF PassSteps, PassOK
  <2>6. CASE DrainOn(p, pass[p].todo)
    BY <1>3, <2>6, DrainType
  <2> QED
    BY <1>4, <2>1, <2>2, <2>3, <2>4, <2>5, <2>6
<1> QED
  BY <1>1, <1>5 DEF StatementFails, CmdOK, OtherTypes, tables, ghosts

\* A command that carries the message i and the row r.
LEMMA CmdType ==
  ASSUME NEW i \in Ids, NEW row \in Row, NEW step \in CmdSteps,
         cmd' = [step |-> step, id |-> i, row |-> row]
  PROVE  CmdOK'
BY DEF CmdOK, Cmd

LEMMA NoCmdType == cmd' = NoCmd => CmdOK'
BY ConstantTypes DEF CmdOK, NoCmd

LEMMA UserTypes ==
  ASSUME TInv, NEW i \in Ids, User(i)
  PROVE  TInv'
<1> PassOK /\ CmdOK /\ queue \in [Ids -> Row] /\ OtherTypes /\ TypeOK
  BY Parts DEF TInv
<1> SUFFICES PassOK' /\ CmdOK' /\ queue' \in [Ids -> Row] /\ OtherTypes'
  BY PartsNext
<1>0. Composed(i) => left' \in [Events -> Nat]
  BY SmallTypes DEF Composed, Events, OtherTypes
<1>1. CASE QueueForLater(i)
  <2>1. CmdOK'
    <3>1. cmd' \in {cmd, [step |-> "mergeQueued", id |-> i, row |-> NoRow]}
      BY <1>1 DEF QueueForLater, NoCmd
    <3>2. CASE cmd' = cmd
      BY <3>2 DEF CmdOK
    <3>3. CASE cmd' = [step |-> "mergeQueued", id |-> i, row |-> NoRow]
      BY <3>3, CmdType, ConstantTypes DEF CmdSteps
    <3> QED
      BY <3>1, <3>2, <3>3
  <2>2. clock + 2 \in Nat
    BY DEF OtherTypes
  <2>3. queue' \in [Ids -> Row]
    BY <1>1, <2>2, QueueTypes DEF QueueForLater
  <2>4. clock' \in Nat /\ granted' \in [Ids -> Nat]
    BY <1>1, <2>2, SmallTypes DEF QueueForLater, OtherTypes
  <2> QED
    BY <1>0, <1>1, <2>1, <2>3, <2>4 DEF QueueForLater, PassOK, OtherTypes
<1>2. CASE StoreSchedule(i)
  <2>1. CmdOK'
    <3>1. cmd' \in {cmd, [step |-> "mergeScheduled", id |-> i, row |-> NoRow]}
      BY <1>2 DEF StoreSchedule, NoCmd
    <3>2. CASE cmd' = cmd
      BY <3>2 DEF CmdOK
    <3>3. CASE cmd' = [step |-> "mergeScheduled", id |-> i, row |-> NoRow]
      BY <3>3, CmdType, ConstantTypes DEF CmdSteps
    <3> QED
      BY <3>1, <3>2, <3>3
  <2>2. sched' \in [Ids -> ScheduleRow]
    BY <1>2 DEF StoreSchedule, OtherTypes, ScheduleRow
  <2>3. granted' \in [Ids -> Nat]
    BY <1>2, SmallTypes DEF StoreSchedule, OtherTypes
  <2> QED
    BY <1>0, <1>2, <2>1, <2>2, <2>3 DEF StoreSchedule, PassOK, OtherTypes
<1>3. CASE ReadRow(i)
  <2>1. CmdOK'
    BY <1>3, CmdType DEF ReadRow, CmdSteps
  <2>2. left' \in [Events -> Nat]
    BY <1>3, SmallTypes DEF ReadRow, Events
  <2>3. PassOK'
    BY <1>3 DEF ReadRow, PassOK
  <2> QED
    BY <1>3, <2>1, <2>2, <2>3 DEF ReadRow, OtherTypes, tables, ghosts
<1>4. CASE FindSchedule(i)
  <2>1. cmd' = [step |-> "sendNow", id |-> i, row |-> NoRow]
    BY <1>4 DEF FindSchedule, NoCmd
  <2>2. CmdOK'
    BY <2>1, CmdType, ConstantTypes DEF CmdSteps
  <2>3. left' \in [Events -> Nat]
    BY <1>4, SmallTypes DEF FindSchedule, Events
  <2>4. PassOK'
    BY <1>4 DEF FindSchedule, PassOK
  <2> QED
    BY <1>4, <2>2, <2>3, <2>4 DEF FindSchedule, OtherTypes, tables, ghosts
<1>5. CASE DropEntry(i)
  <2>1. cmd' = [step |-> "deleteMessage", id |-> i, row |-> NoRow]
    BY <1>5 DEF DropEntry, NoCmd
  <2>2. CmdOK'
    BY <2>1, CmdType, ConstantTypes DEF CmdSteps
  <2>3. left' \in [Events -> Nat]
    BY <1>5, SmallTypes DEF DropEntry, Events
  <2>4. queue' \in [Ids -> Row]
    BY <1>5, QueueTypes DEF DropEntry
  <2>5. sched' \in [Ids -> ScheduleRow]
    BY <1>5, ConstantTypes DEF DropEntry, OtherTypes
  <2>6. PassOK'
    BY <1>5 DEF DropEntry, PassOK
  <2> QED
    BY <1>5, <2>2, <2>3, <2>4, <2>5, <2>6 DEF DropEntry, OtherTypes, ghosts
<1>6. CASE DeleteLocalCopy(i)
  <2>1. cmd' = [step |-> "deleteCopy", id |-> i, row |-> NoRow]
    BY <1>6 DEF DeleteLocalCopy, NoCmd
  <2>2. CmdOK'
    BY <2>1, CmdType, ConstantTypes DEF CmdSteps
  <2>3. left' \in [Events -> Nat]
    BY <1>6, SmallTypes DEF DeleteLocalCopy, Events
  <2>4. PassOK'
    BY <1>6 DEF DeleteLocalCopy, PassOK
  <2> QED
    BY <1>6, <2>2, <2>3, <2>4 DEF DeleteLocalCopy, OtherTypes, tables, ghosts
<1> QED
  BY <1>1, <1>2, <1>3, <1>4, <1>5, <1>6 DEF User

LEMMA CommandTypes ==
  ASSUME TInv, CmdStep \/ CmdFails
  PROVE  TInv'
<1> PassOK /\ CmdOK /\ queue \in [Ids -> Row] /\ OtherTypes /\ TypeOK
  BY Parts DEF TInv
<1> SUFFICES PassOK' /\ CmdOK' /\ queue' \in [Ids -> Row] /\ OtherTypes'
  BY PartsNext
<1>0. cmd.step # "none" => cmd.id \in Ids /\ cmd.row \in Row
  BY DEF CmdOK, Cmd
<1>1. CASE MergeComposed
  <2>1. msg' \in [Ids -> MessageStates]
    BY <1>0, <1>1, SmallTypes DEF MergeComposed, MessageStates
  <2> QED
    BY <1>1, <2>1, NoCmdType DEF MergeComposed, PassOK, OtherTypes, ghosts
<1>2. CASE Resend
  <2>1. [cmd.row EXCEPT !.state = "queued", !.next = "now"] \in Row
    BY <1>0, <1>2 DEF Resend, Row, QueueStates
  <2>2. queue' \in [Ids -> Row] /\ granted' \in [Ids -> Nat]
    BY <1>0, <1>2, <2>1, QueueTypes, SmallTypes DEF Resend
  <2> QED
    BY <1>2, <2>2, NoCmdType DEF Resend, PassOK, OtherTypes
<1>3. CASE PauseOrResume
  <2>1. /\ [cmd.row EXCEPT !.state = "queued", !.next = "now"] \in Row
        /\ [cmd.row EXCEPT !.state = "paused"] \in Row
        /\ cmd.row \in Row
        /\ cmd.id \in Ids
    BY <1>0, <1>3 DEF PauseOrResume, Row, QueueStates
  <2>2. queue' \in [Ids -> Row]
    BY <1>3, <2>1, QueueTypes DEF PauseOrResume
  <2>3. granted' \in [Ids -> Nat]
    BY <1>3, <2>1, SmallTypes DEF PauseOrResume, OtherTypes
  <2> QED
    BY <1>3, <2>2, <2>3, NoCmdType DEF PauseOrResume, PassOK, OtherTypes
<1>4. CASE SendNow
  <2>1. sched' \in [Ids -> ScheduleRow]
    BY <1>0, <1>4, SmallTypes DEF SendNow, ScheduleRow
  <2>2. granted' \in [Ids -> Nat]
    BY <1>0, <1>4, SmallTypes DEF SendNow, OtherTypes
  <2> QED
    BY <1>4, <2>1, <2>2, NoCmdType DEF SendNow, PassOK, OtherTypes
<1>5. CASE DeleteMessage
  <2>1. msg' \in [Ids -> MessageStates]
    BY <1>5 DEF DeleteMessage, OtherTypes, MessageStates
  <2> QED
    BY <1>5, <2>1, NoCmdType DEF DeleteMessage, PassOK, OtherTypes, ghosts
<1>6. ASSUME Dropping, cmd' = NextDrop PROVE CmdOK'
  <2>1. CASE cmd.step = "dropSchedule"
    BY <1>6, <2>1, NoCmdType DEF NextDrop
  <2>2. CASE cmd.step # "dropSchedule"
    BY <1>0, <1>6, <2>2 DEF Dropping, NextDrop, CmdOK, Cmd, CmdSteps
  <2> QED
    BY <2>1, <2>2
<1>7. CASE DropRows
  <2>1. msg' \in [Ids -> MessageStates]
    BY <1>7 DEF DropRows, OtherTypes, MessageStates
  <2>2. queue' \in [Ids -> Row]
    BY <1>7, ConstantTypes DEF DropRows
  <2>3. sched' \in [Ids -> ScheduleRow]
    BY <1>7, ConstantTypes DEF DropRows, OtherTypes
  <2> QED
    BY <1>6, <1>7, <2>1, <2>2, <2>3 DEF DropRows, PassOK, OtherTypes, ghosts
<1>8. CASE CmdFails
  <2>1. left' \in [Events -> Nat]
    BY <1>8, SmallTypes DEF CmdFails, Events
  <2>2. CmdOK'
    BY <1>6, <1>8, NoCmdType DEF CmdFails
  <2> QED
    BY <1>8, <2>1, <2>2 DEF CmdFails, PassOK, OtherTypes, tables, ghosts
<1> QED
  BY <1>1, <1>2, <1>3, <1>4, <1>5, <1>7, <1>8 DEF CmdStep

LEMMA OutsideTypes ==
  ASSUME TInv,
         \/ \E proc \in Procs : Start(proc) \/ Stop(proc)
         \/ OpenElsewhere \/ Disconnect \/ Connect
         \/ \E i \in Ids : Elapse(i) \/ Arrive(i)
  PROVE  TInv'
<1> PassOK /\ CmdOK /\ queue \in [Ids -> Row] /\ OtherTypes /\ TypeOK
  BY Parts DEF TInv
<1> SUFFICES PassOK' /\ CmdOK' /\ queue' \in [Ids -> Row] /\ OtherTypes'
  BY PartsNext
<1>1. ASSUME NEW proc \in Procs, Start(proc)
      PROVE  PassOK' /\ CmdOK' /\ queue' \in [Ids -> Row] /\ OtherTypes'
  <2>1. queue' \in [Ids -> Row]
    BY <1>1, QueueTypes DEF Start
  <2> QED
    BY <1>1, <2>1 DEF Start, PassOK, CmdOK, OtherTypes, ghosts
<1>2. ASSUME NEW proc \in Procs, Stop(proc)
      PROVE  PassOK' /\ CmdOK' /\ queue' \in [Ids -> Row] /\ OtherTypes'
  <2>1. left' \in [Events -> Nat]
    BY <1>2, SmallTypes DEF Stop, Events
  <2>2. CmdOK'
    BY <1>2, NoCmdType DEF Stop, CmdOK
  <2>3. PassOK'
    <3>1. Idle \in Pass /\ Idle.at = "idle"
      BY ConstantTypes DEF Idle
    <3> QED
      BY <1>2, <3>1 DEF Stop, PassOK
  <2> QED
    BY <1>2, <2>1, <2>2, <2>3 DEF Stop, OtherTypes, tables, ghosts
<1>3. CASE OpenElsewhere
  <2>1. queue' \in [Ids -> Row] /\ left' \in [Events -> Nat]
    BY <1>3, QueueTypes, SmallTypes DEF OpenElsewhere, Events
  <2> QED
    BY <1>3, <2>1 DEF OpenElsewhere, PassOK, CmdOK, OtherTypes, actors, ghosts
<1>4. CASE Disconnect \/ Connect
  <2>1. left' \in [Events -> Nat]
    BY <1>4, SmallTypes DEF Disconnect, Connect, Events, OtherTypes
  <2> QED
    BY <1>4, <2>1 DEF Disconnect, Connect, PassOK, CmdOK, OtherTypes, tables, actors, ghosts
<1>5. ASSUME NEW i \in Ids, Elapse(i)
      PROVE  PassOK' /\ CmdOK' /\ queue' \in [Ids -> Row] /\ OtherTypes'
  <2>1. queue' \in [Ids -> Row]
    BY <1>5 DEF Elapse, Row
  <2> QED
    BY <1>5, <2>1 DEF Elapse, PassOK, CmdOK, OtherTypes, actors, ghosts
<1>6. ASSUME NEW i \in Ids, Arrive(i)
      PROVE  PassOK' /\ CmdOK' /\ queue' \in [Ids -> Row] /\ OtherTypes'
  <2>1. sched' \in [Ids -> ScheduleRow]
    BY <1>6 DEF Arrive, OtherTypes, ScheduleRow
  <2> QED
    BY <1>6, <2>1 DEF Arrive, PassOK, CmdOK, OtherTypes, actors, ghosts
<1> QED
  BY <1>1, <1>2, <1>3, <1>4, <1>5, <1>6

LEMMA TypeStep == TInv /\ [Next]_vars => TInv'
<1> SUFFICES ASSUME TInv, [Next]_vars PROVE TInv'
  OBVIOUS
<1>1. ASSUME NEW p \in Passes, Begin(p) \/ PassStep(p) \/ StatementFails(p) PROVE TInv'
  BY <1>1, ReleaseTypes, DrainTypes, OutcomeTypes, FailureTypes DEF PassStep
<1>2. ASSUME NEW i \in Ids, User(i) \/ Elapse(i) \/ Arrive(i) PROVE TInv'
  BY <1>2, UserTypes, OutsideTypes
<1>3. CASE CmdStep \/ CmdFails
  BY <1>3, CommandTypes
<1>4. CASE \/ \E proc \in Procs : Start(proc) \/ Stop(proc)
           \/ OpenElsewhere \/ Disconnect \/ Connect
  BY <1>4, OutsideTypes
<1>5. CASE UNCHANGED vars
  BY <1>5 DEF TInv, TypeOK, ItemHeld, Item, Carried, vars, tables, actors, ghosts
<1> QED
  BY <1>1, <1>2, <1>3, <1>4, <1>5 DEF Next

\* The variables keep their types, a pass or command that works on a message
\* holds one, and the daemon writes only final outcomes to the schedule.
THEOREM TypeCorrect == Spec => []TInv
BY TypeInit, TypeStep, PTL DEF Spec

\* The tables, the passes, the command and the counters keep their types.
THEOREM TypesKept == Spec => []TypeOK
BY TypeCorrect, PTL DEF TInv
=============================================================================
