------------------------ MODULE OutboxDeliveryProofs ------------------------
(***************************************************************************)
(* The outbox implements Delivery, so the phone accepts a message no more  *)
(* often than it was granted: for any number of messages, passes,          *)
(* commands, crashes, failed statements and lost answers.                  *)
(***************************************************************************)
EXTENDS OutboxProofs

\* A pass in state v may still hand message j over, or queue it.
Flies(v, j) ==
  /\ v.item = j
  /\ \/ v.at \in {"stamp", "enqueue", "send"}
     \/ v.at = "settle" /\ v.copy[v.item].state = "queued"

\* The three parts of Permits.
Flying(j)    == Cardinality(InFlight(j))
Waiting(j)   == IF queue[j].state = "queued" THEN 1 ELSE 0
Scheduled(j) == IF sched[j].state = "scheduled" THEN 1 ELSE 0

LEMMA FlightSet == \A j : InFlight(j) = {p \in Passes : Flies(pass[p], j)}
BY DEF InFlight, Flies, Item, At, Carried

LEMMA FlightSetNext == \A j : InFlight(j)' = {p \in Passes : Flies(pass'[p], j)}
BY DEF InFlight, Flies, Item, At, Carried

LEMMA FlightFinite ==
  /\ \A j : IsFiniteSet(InFlight(j)) /\ Flying(j) \in Nat
  /\ \A j : IsFiniteSet(InFlight(j)') /\ Flying(j)' \in Nat
<1>1. IsFiniteSet(Passes)
  BY OutboxAssumption
<1>2. \A j : InFlight(j) \subseteq Passes /\ InFlight(j)' \subseteq Passes
  BY FlightSet, FlightSetNext
<1> QED
  BY <1>1, <1>2, FS_Subset, FS_CardinalityType DEF Flying

LEMMA PermitParts ==
  /\ \A j : Permits(j) = Flying(j) + Waiting(j) + Scheduled(j)
  /\ \A j : Permits(j)' = Flying(j)' + Waiting(j)' + Scheduled(j)'
  /\ \A j : Permits(j) \in Nat /\ Permits(j)' \in Nat
<1>1. /\ \A j : Permits(j) = Flying(j) + Waiting(j) + Scheduled(j)
      /\ \A j : Permits(j)' = Flying(j)' + Waiting(j)' + Scheduled(j)'
  BY DEF Permits, Flying, Waiting, Scheduled
<1>2. \A j : Waiting(j) \in Nat /\ Waiting(j)' \in Nat /\ Scheduled(j) \in Nat /\ Scheduled(j)' \in Nat
  BY DEF Waiting, Scheduled
<1> QED
  BY <1>1, <1>2, FlightFinite

Fly(v, j) == IF Flies(v, j) THEN 1 ELSE 0

\* How one pass's step changes the number of passes in flight with j.
LEMMA FlightChange ==
  ASSUME PassOK, NEW p \in Passes, NEW v, pass' = [pass EXCEPT ![p] = v], NEW j
  PROVE  Flying(j)' = Flying(j) + Fly(v, j) - Fly(pass[p], j)
<1>1. \A q \in Passes : pass'[q] = IF q = p THEN v ELSE pass[q]
  BY DEF PassOK
<1>2. CASE Flies(v, j) <=> Flies(pass[p], j)
  <2>1. InFlight(j)' = InFlight(j)
    BY <1>1, <1>2, FlightSet, FlightSetNext
  <2> QED
    BY <1>2, <2>1, FlightFinite DEF Flying, Fly
<1>3. CASE Flies(v, j) /\ ~Flies(pass[p], j)
  <2>1. InFlight(j)' = InFlight(j) \cup {p} /\ p \notin InFlight(j)
    BY <1>1, <1>3, FlightSet, FlightSetNext
  <2>2. Flying(j)' = Flying(j) + 1
    BY <2>1, FlightFinite, FS_AddElement DEF Flying
  <2>3. Fly(v, j) = 1 /\ Fly(pass[p], j) = 0
    BY <1>3 DEF Fly
  <2> QED
    BY <2>2, <2>3, FlightFinite
<1>4. CASE ~Flies(v, j) /\ Flies(pass[p], j)
  <2>1. InFlight(j)' = InFlight(j) \ {p} /\ p \in InFlight(j)
    BY <1>1, <1>4, FlightSet, FlightSetNext
  <2>2. Flying(j)' = Flying(j) - 1
    BY <2>1, FlightFinite, FS_RemoveElement DEF Flying
  <2>3. Fly(v, j) = 0 /\ Fly(pass[p], j) = 1
    BY <1>4 DEF Fly
  <2> QED
    BY <2>2, <2>3, FlightFinite
<1> QED
  BY <1>2, <1>3, <1>4

\* The permits of j after a step, from what the step does to their parts.
LEMMA Balance ==
  ASSUME PassOK, NEW p \in Passes, NEW v, pass' = [pass EXCEPT ![p] = v], NEW j
  PROVE  Permits(j)' = Permits(j) + (Fly(v, j) - Fly(pass[p], j))
                       + (Waiting(j)' - Waiting(j)) + (Scheduled(j)' - Scheduled(j))
<1>1. Flying(j)' = Flying(j) + Fly(v, j) - Fly(pass[p], j)
  BY FlightChange
<1>2. /\ Waiting(j) \in Nat /\ Waiting(j)' \in Nat
      /\ Scheduled(j) \in Nat /\ Scheduled(j)' \in Nat
      /\ Fly(v, j) \in Nat /\ Fly(pass[p], j) \in Nat
  BY DEF Waiting, Scheduled, Fly
<1> QED
  BY <1>1, <1>2, PermitParts, FlightFinite

LEMMA BalanceStill ==
  ASSUME pass' = pass, NEW j
  PROVE  Permits(j)' = Permits(j) + (Waiting(j)' - Waiting(j)) + (Scheduled(j)' - Scheduled(j))
<1>1. Flying(j)' = Flying(j)
  BY FlightSet, FlightSetNext DEF Flying
<1>2. /\ Waiting(j) \in Nat /\ Waiting(j)' \in Nat
      /\ Scheduled(j) \in Nat /\ Scheduled(j)' \in Nat
  BY DEF Waiting, Scheduled
<1> QED
  BY <1>1, <1>2, PermitParts, FlightFinite

-----------------------------------------------------------------------------
(* When a step of the outbox is which step of Delivery. *)

LEMMA Lapses ==
  ASSUME \A j \in Ids : Permits(j)' <= Permits(j), UNCHANGED <<handed, granted>>
  PROVE  Abstract!Next
BY PermitParts DEF Abstract!Next, Abstract!Lapse

LEMMA Grants ==
  ASSUME NEW i \in Ids,
         granted' = [granted EXCEPT ![i] = @ + 1], handed' = handed,
         \A j \in Ids \ {i} : Permits(j)' = Permits(j),
         Permits(i)' \in {Permits(i), Permits(i) + 1}
  PROVE  Abstract!Next
<1>1. Abstract!Grant(i)
  BY DEF Abstract!Grant
<1> QED
  BY <1>1 DEF Abstract!Next

LEMMA HandsOver ==
  ASSUME NEW i \in Ids,
         handed' = [handed EXCEPT ![i] = @ + 1], granted' = granted,
         \A j \in Ids \ {i} : Permits(j)' = Permits(j),
         Permits(i) > 0, Permits(i)' = Permits(i) - 1
  PROVE  Abstract!Next
<1>1. Abstract!HandOver(i)
  BY DEF Abstract!HandOver
<1> QED
  BY <1>1 DEF Abstract!Next

LEMMA HandsOverUnheard ==
  ASSUME NEW i \in Ids,
         handed' = [handed EXCEPT ![i] = @ + 1], granted' = [granted EXCEPT ![i] = @ + 1],
         \A j \in Ids \ {i} : Permits(j)' = Permits(j),
         Permits(i) > 0, Permits(i)' \in {Permits(i), Permits(i) - 1}
  PROVE  Abstract!Next
<1>1. Abstract!HandOverUnheard(i)
  BY DEF Abstract!HandOverUnheard
<1> QED
  BY <1>1 DEF Abstract!Next

-----------------------------------------------------------------------------
(* The steps of a pass. *)

\* A step that starts no flight and leaves queue and schedule alone, or ends a
\* flight, uses up permits at most.
LEMMA PassLapses ==
  ASSUME PassOK, NEW p \in Passes, NEW v, pass' = [pass EXCEPT ![p] = v],
         \A j \in Ids : Fly(v, j) + Waiting(j)' + Scheduled(j)'
                          <= Fly(pass[p], j) + Waiting(j) + Scheduled(j),
         UNCHANGED <<handed, granted>>
  PROVE  Abstract!Next
<1>1. ASSUME NEW j \in Ids PROVE Permits(j)' <= Permits(j)
  <2>1. /\ Waiting(j) \in Nat /\ Waiting(j)' \in Nat
        /\ Scheduled(j) \in Nat /\ Scheduled(j)' \in Nat
        /\ Fly(v, j) \in Nat /\ Fly(pass[p], j) \in Nat
    BY DEF Waiting, Scheduled, Fly
  <2>2. Permits(j)' = Permits(j) + (Fly(v, j) - Fly(pass[p], j))
                      + (Waiting(j)' - Waiting(j)) + (Scheduled(j)' - Scheduled(j))
    BY Balance
  <2>3. Permits(j) \in Nat /\ Permits(j)' \in Nat
    BY PermitParts
  <2>4. Fly(v, j) + Waiting(j)' + Scheduled(j)' <= Fly(pass[p], j) + Waiting(j) + Scheduled(j)
    OBVIOUS
  <2> QED
    BY <2>1, <2>2, <2>3, <2>4
<1> QED
  BY <1>1, Lapses

LEMMA PassQuiet ==
  ASSUME PassOK, NEW p \in Passes, NEW v, pass' = [pass EXCEPT ![p] = v],
         \A j \in Ids : Flies(v, j) => Flies(pass[p], j),
         queue' = queue, sched' = sched, UNCHANGED <<handed, granted>>
  PROVE  Abstract!Next
<1>1. ASSUME NEW j \in Ids
      PROVE  Fly(v, j) + Waiting(j)' + Scheduled(j)'
               <= Fly(pass[p], j) + Waiting(j) + Scheduled(j)
  BY DEF Waiting, Scheduled, Fly
<1> QED
  BY <1>1, PassLapses

LEMMA ReleaseRefines ==
  ASSUME TInv, NEW p \in Passes,
         \/ Begin(p) \/ ListDueScheduled(p) \/ ClaimScheduled(p)
         \/ StampScheduled(p) \/ EnqueueScheduled(p)
  PROVE  Abstract!Next
<1> PassOK /\ pass[p] \in Pass /\ queue \in [Ids -> Row] /\ sched \in [Ids -> ScheduleRow]
  BY TInvPass, Parts DEF PassOK, OtherTypes
<1> USE DEF Item, At, ghosts
<1>1. CASE Begin(p)
  <2> DEFINE v == [pass[p] EXCEPT !.at = "listDue"]
  <2>1. pass' = [pass EXCEPT ![p] = v]
    BY <1>1 DEF Begin, Goto
  <2>2. \A j \in Ids : ~Flies(v, j) /\ ~Flies(pass[p], j)
    BY <1>1 DEF Begin, Flies, Pass
  <2>3. \A j \in Ids : queue'[j].state = queue[j].state
    BY <1>1 DEF Begin, ReleaseOfflineWaits, Row
  <2>4. \A j \in Ids : Fly(v, j) + Waiting(j)' + Scheduled(j)'
                         <= Fly(pass[p], j) + Waiting(j) + Scheduled(j)
    BY <1>1, <2>2, <2>3 DEF Begin, Fly, Waiting, Scheduled
  <2> QED
    BY <1>1, <2>1, <2>4, PassLapses DEF Begin
<1>2. CASE ListDueScheduled(p)
  <2> DEFINE v == [pass[p] EXCEPT !.at = "release", !.todo = DueScheduled, !.began = clock + 1]
  <2>1. pass' = [pass EXCEPT ![p] = v]
    BY <1>2 DEF ListDueScheduled
  <2>2. \A j \in Ids : ~Flies(v, j)
    BY DEF Flies, Pass
  <2> QED
    BY <1>2, <2>1, <2>2, PassQuiet DEF ListDueScheduled, tables
<1>3. ASSUME NEW i \in Ids, i \in pass[p].todo, At(p, "release"), i \in DueScheduled,
             sched' = [sched EXCEPT ![i].state = "queued"],
             pass' = [pass EXCEPT ![p].at = "stamp", ![p].item = i, ![p].todo = @ \ {i}],
             UNCHANGED <<queue, handed, granted>>
      PROVE  Abstract!Next
  <2> DEFINE v == [pass[p] EXCEPT !.at = "stamp", !.item = i, !.todo = @ \ {i}]
  <2>1. pass' = [pass EXCEPT ![p] = v]
    BY <1>3
  <2>2. \A j \in Ids : ~Flies(pass[p], j) /\ (Flies(v, j) <=> j = i)
    BY <1>3 DEF Flies, Pass
  <2>3. /\ Scheduled(i) = 1 /\ Scheduled(i)' = 0
        /\ \A j \in Ids \ {i} : Scheduled(j)' = Scheduled(j)
        /\ \A j \in Ids : Waiting(j)' = Waiting(j)
    BY <1>3 DEF Scheduled, Waiting, DueScheduled, ScheduleRow
  <2>4. \A j \in Ids : Fly(v, j) + Waiting(j)' + Scheduled(j)'
                         <= Fly(pass[p], j) + Waiting(j) + Scheduled(j)
    BY <2>2, <2>3 DEF Fly, Waiting, Scheduled
  <2> QED
    BY <1>3, <2>1, <2>4, PassLapses
<1>4. ASSUME NEW i \in Ids, At(p, "release"), pass' = [pass EXCEPT ![p].todo = @ \ {i}],
             UNCHANGED <<queue, sched, handed, granted>>
      PROVE  Abstract!Next
  <2> DEFINE v == [pass[p] EXCEPT !.todo = @ \ {i}]
  <2>1. pass' = [pass EXCEPT ![p] = v]
    BY <1>4
  <2>2. \A j \in Ids : ~Flies(v, j)
    BY <1>4 DEF Flies, Pass
  <2> QED
    BY <1>4, <2>1, <2>2, PassQuiet
<1>5. CASE ClaimScheduled(p)
  BY <1>3, <1>4, <1>5 DEF ClaimScheduled, Pass
<1>6. CASE StampScheduled(p)
  <2> DEFINE v == [pass[p] EXCEPT !.at = "enqueue"]
  <2>1. pass' = [pass EXCEPT ![p] = v]
    BY <1>6 DEF StampScheduled, Goto
  <2>2. \A j \in Ids : Flies(v, j) <=> Flies(pass[p], j)
    BY <1>6 DEF StampScheduled, Flies, Pass
  <2>3. \A j \in Ids : sched'[j].state = "scheduled" => sched[j].state = "scheduled"
    BY <1>6 DEF StampScheduled, UpdateScheduled, ScheduleRow
  <2>4. \A j \in Ids : Fly(v, j) + Waiting(j)' + Scheduled(j)'
                         <= Fly(pass[p], j) + Waiting(j) + Scheduled(j)
    BY <1>6, <2>2, <2>3 DEF StampScheduled, Fly, Waiting, Scheduled
  <2> QED
    BY <1>6, <2>1, <2>4, PassLapses DEF StampScheduled
<1>7. ASSUME EnqueueScheduled(p), ~InQueue(Item(p)) PROVE Abstract!Next
  <2> DEFINE v == [pass[p] EXCEPT !.at = "release", !.item = None]
  <2>1. PICK i \in Ids : pass[p].item = i
    BY <1>7 DEF EnqueueScheduled, PassOK, Carrying
  <2>2. /\ queue' = Enqueued(i, pass[p].began)
        /\ pass' = [pass EXCEPT ![p] = v]
        /\ queue[i].state = "none"
        /\ UNCHANGED <<sched, handed, granted>>
    BY <1>7, <2>1 DEF EnqueueScheduled, InQueue
  <2>3. \A j \in Ids : ~Flies(v, j) /\ (Flies(pass[p], j) <=> j = i)
    BY <1>7, <2>1 DEF EnqueueScheduled, Flies, Pass
  <2>4. \A j \in Ids : queue'[j].state = IF j = i THEN "queued" ELSE queue[j].state
    BY <2>2 DEF Enqueued, NoRow
  <2>5. \A j \in Ids : Fly(v, j) + Waiting(j)' + Scheduled(j)'
                         <= Fly(pass[p], j) + Waiting(j) + Scheduled(j)
    BY <2>2, <2>3, <2>4 DEF Fly, Waiting, Scheduled
  <2> QED
    BY <2>2, <2>5, PassLapses
<1>8. ASSUME EnqueueScheduled(p), InQueue(Item(p)) PROVE Abstract!Next
  <2> DEFINE v == IF p \in TuiPasses THEN Idle ELSE [Idle EXCEPT !.at = "release"]
  <2>1. pass' = [pass EXCEPT ![p] = v]
    BY <1>8 DEF EnqueueScheduled, AbandonRelease
  <2>2. \A j \in Ids : ~Flies(v, j)
    BY DEF Flies, Idle
  <2> QED
    BY <1>8, <2>1, <2>2, PassQuiet DEF EnqueueScheduled
<1> QED
  BY <1>1, <1>2, <1>5, <1>6, <1>7, <1>8

\* The loop goes on with its next row: nothing is in flight any more.
LEMMA DrainLapses ==
  ASSUME PassOK, NEW p \in Passes, NEW todo, DrainOn(p, todo),
         queue' = queue, sched' = sched, UNCHANGED <<handed, granted>>
  PROVE  Abstract!Next
<1> DEFINE v == IF todo = {} THEN Idle
                ELSE [pass[p] EXCEPT !.at = "claim", !.todo = todo, !.item = None]
<1>1. pass' = [pass EXCEPT ![p] = v]
  BY DEF DrainOn
<1>2. \A j \in Ids : ~Flies(v, j)
  BY DEF Flies, Idle, PassOK, Pass
<1> QED
  BY <1>1, <1>2, PassQuiet

\* A pass that only goes to a later step of the same message.
LEMMA GotoLapses ==
  ASSUME PassOK, NEW p \in Passes, NEW step, Goto(p, step),
         step \in {"readSchedule", "writeSchedule", "merge", "status"},
         \A j \in Ids : queue'[j].state = "queued" =>
                          queue[j].state = "queued" \/ Flies(pass[p], j),
         sched' = sched \/ \A j \in Ids : sched'[j].state = "scheduled" => sched[j].state = "scheduled",
         UNCHANGED <<handed, granted>>
  PROVE  Abstract!Next
<1> DEFINE v == [pass[p] EXCEPT !.at = step]
<1>1. pass' = [pass EXCEPT ![p] = v]
  BY DEF Goto
<1>2. \A j \in Ids : ~Flies(v, j)
  BY DEF Flies, PassOK, Pass
<1>3. \A j \in Ids : Fly(v, j) + Waiting(j)' + Scheduled(j)'
                       <= Fly(pass[p], j) + Waiting(j) + Scheduled(j)
  BY <1>2 DEF Fly, Waiting, Scheduled
<1> QED
  BY <1>1, <1>3, PassLapses

LEMMA ClaimRefines ==
  ASSUME TInv, NEW p \in Passes, ListDueQueue(p) \/ ClaimQueue(p)
  PROVE  Abstract!Next
<1> PassOK /\ pass[p] \in Pass /\ queue \in [Ids -> Row]
  BY TInvPass, Parts DEF PassOK
<1> USE DEF Item, At, ghosts
<1>1. CASE ListDueQueue(p)
  <2>1. PICK rows : pass' = [pass EXCEPT ![p] =
            IF rows = {} THEN Idle
            ELSE [Idle EXCEPT !.at = "claim", !.todo = rows,
                    !.copy = [i \in Ids |-> IF i \in rows THEN queue[i] ELSE NoRow]]]
    BY <1>1 DEF ListDueQueue
  <2> DEFINE v == IF rows = {} THEN Idle
                  ELSE [Idle EXCEPT !.at = "claim", !.todo = rows,
                          !.copy = [i \in Ids |-> IF i \in rows THEN queue[i] ELSE NoRow]]
  <2>2. \A j \in Ids : ~Flies(v, j)
    BY DEF Flies, Idle
  <2> QED
    BY <1>1, <2>1, <2>2, PassQuiet DEF ListDueQueue, tables
<1>2. ASSUME NEW i \in Ids, At(p, "claim"), queue[i].state = "queued",
             queue' = [queue EXCEPT ![i].state = "sending", ![i].attempts = @ + 1],
             pass' = [pass EXCEPT ![p].at = "send", ![p].item = i, ![p].todo = @ \ {i}],
             UNCHANGED <<sched, handed, granted>>
      PROVE  Abstract!Next
  <2> DEFINE v == [pass[p] EXCEPT !.at = "send", !.item = i, !.todo = @ \ {i}]
  <2>1. pass' = [pass EXCEPT ![p] = v]
    BY <1>2
  <2>2. \A j \in Ids : ~Flies(pass[p], j) /\ (Flies(v, j) <=> j = i)
    BY <1>2 DEF Flies, Pass
  <2>3. \A j \in Ids : queue'[j].state = IF j = i THEN "sending" ELSE queue[j].state
    BY <1>2 DEF Row
  <2>4. \A j \in Ids : Fly(v, j) + Waiting(j)' + Scheduled(j)'
                         <= Fly(pass[p], j) + Waiting(j) + Scheduled(j)
    BY <1>2, <2>2, <2>3 DEF Fly, Waiting, Scheduled
  <2> QED
    BY <1>2, <2>1, <2>4, PassLapses
<1>3. CASE ClaimQueue(p)
  BY <1>2, <1>3, DrainLapses DEF ClaimQueue, Pass
<1> QED
  BY <1>1, <1>3

\* What the send returned is in the pass; the tables wait for Settle.
LEMMA OutcomeRefines ==
  ASSUME TInv, NEW p \in Passes,
         Accept(p) \/ Refuse(p) \/ LoseAnswer(p) \/ FindNoPhone(p)
  PROVE  Abstract!Next
<1> PassOK /\ pass[p] \in Pass /\ queue \in [Ids -> Row]
  BY TInvPass, Parts DEF PassOK
<1> USE DEF Item, At, ghosts
<1>1. PICK i \in Ids : pass[p].item = i /\ pass[p].at = "send"
  BY DEF Accept, Refuse, LoseAnswer, FindNoPhone, PassOK, Carrying
<1>2. pass[p].copy[i] \in Row
  BY DEF Pass
<1>3. Carried(p) = pass[p].copy[i]
  BY <1>1 DEF Carried
<1>4. ASSUME NEW row, Answer(p, row), UNCHANGED <<queue, sched>>
      PROVE  /\ \A j \in Ids \ {i} : Permits(j)' = Permits(j)
             /\ Permits(i) > 0
             /\ Permits(i)' = IF row.state = "queued" THEN Permits(i) ELSE Permits(i) - 1
  <2> DEFINE v == [pass[p] EXCEPT !.at = "settle", !.copy[i] = row]
  <2>1. pass' = [pass EXCEPT ![p] = v]
    BY <1>1, <1>4 DEF Answer
  <2>2. /\ \A j \in Ids : Flies(pass[p], j) <=> j = i
        /\ \A j \in Ids : Flies(v, j) <=> j = i /\ row.state = "queued"
    BY <1>1 DEF Flies, Pass
  <2>3. \A j \in Ids : Waiting(j)' = Waiting(j) /\ Scheduled(j)' = Scheduled(j)
    BY <1>4 DEF Waiting, Scheduled
  <2>4. \A j \in Ids : Permits(j)' = Permits(j) + (Fly(v, j) - Fly(pass[p], j))
    <3> SUFFICES ASSUME NEW j \in Ids
                 PROVE  Permits(j)' = Permits(j) + (Fly(v, j) - Fly(pass[p], j))
      OBVIOUS
    <3>1. Permits(j)' = Permits(j) + (Fly(v, j) - Fly(pass[p], j))
                        + (Waiting(j)' - Waiting(j)) + (Scheduled(j)' - Scheduled(j))
      BY <2>1, Balance
    <3>2. /\ Waiting(j) \in Nat /\ Scheduled(j) \in Nat
          /\ Fly(v, j) \in Nat /\ Fly(pass[p], j) \in Nat
      BY DEF Waiting, Scheduled, Fly
    <3> QED
      BY <2>3, <3>1, <3>2, PermitParts
  <2>5. p \in InFlight(i)
    BY <2>2, FlightSet
  <2>6. Permits(i) > 0
    <3>1. Flying(i) # 0
      BY <2>5, FlightFinite, FS_EmptySet DEF Flying
    <3>2. Waiting(i) \in Nat /\ Scheduled(i) \in Nat
      BY DEF Waiting, Scheduled
    <3> QED
      BY <3>1, <3>2, FlightFinite, PermitParts
  <2> QED
    BY <2>2, <2>4, <2>6, PermitParts DEF Fly
<1>5. CASE Accept(p)
  <2>1. SentRow(Carried(p)).state = "sent"
    BY <1>2, <1>3 DEF SentRow, Row
  <2> QED
    BY <1>1, <1>4, <1>5, <2>1, HandsOver DEF Accept, tables
<1>6. CASE Refuse(p) \/ FindNoPhone(p)
  <2>1. \A j \in Ids : Permits(j)' <= Permits(j)
    BY <1>4, <1>6, PermitParts DEF Refuse, FindNoPhone, tables
  <2> QED
    BY <1>6, <2>1, Lapses DEF Refuse, FindNoPhone
<1>7. CASE LoseAnswer(p)
  BY <1>1, <1>4, <1>7, HandsOverUnheard DEF LoseAnswer, tables
<1> QED
  BY <1>5, <1>6, <1>7

LEMMA SettleRefines ==
  ASSUME TInv, NEW p \in Passes,
         \/ Settle(p) \/ ReadSchedule(p) \/ WriteSchedule(p)
         \/ MirrorMerge(p) \/ MirrorStatus(p)
  PROVE  Abstract!Next
<1> /\ PassOK /\ pass[p] \in Pass /\ queue \in [Ids -> Row]
    /\ sched \in [Ids -> ScheduleRow] /\ ItemHeld
  BY TInvPass, Parts DEF PassOK, OtherTypes, TInv
<1> USE DEF Item, At, ghosts
<1>1. CASE Settle(p)
  <2>1. PICK i \in Ids : pass[p].item = i /\ pass[p].at = "settle"
    BY <1>1 DEF Settle, PassOK, Carrying
  <2>2. \A j \in Ids : queue'[j].state = "queued" =>
                         queue[j].state = "queued" \/ Flies(pass[p], j)
    <3>1. CASE InQueue(i)
      <4>1. queue' = [queue EXCEPT ![i] =
                        [pass[p].copy[i] EXCEPT !.created = queue[i].created]]
        BY <1>1, <2>1, <3>1 DEF Settle, UpdateQueue, Carried
      <4>2. queue'[i].state = pass[p].copy[i].state
        BY <4>1 DEF Row, Pass
      <4> QED
        BY <2>1, <4>1, <4>2 DEF Flies
    <3>2. CASE ~InQueue(i)
      BY <1>1, <2>1, <3>2 DEF Settle, UpdateQueue
    <3> QED
      BY <3>1, <3>2
  <2>3. AfterSettle(p) \in {"readSchedule", "merge"}
    BY DEF AfterSettle
  <2> QED
    BY <1>1, <2>2, <2>3, GotoLapses DEF Settle
<1>2. CASE ReadSchedule(p)
  BY <1>2, GotoLapses DEF ReadSchedule, tables
<1>3. CASE WriteSchedule(p)
  <2>1. Terminal(Carried(p).state)
    BY <1>3 DEF WriteSchedule, ItemHeld
  <2>2. \A j \in Ids : sched'[j].state = "scheduled" => sched[j].state = "scheduled"
    BY <1>3, <2>1 DEF WriteSchedule, UpdateScheduled, Terminal
  <2> QED
    BY <1>3, <2>2, GotoLapses DEF WriteSchedule
<1>4. CASE MirrorMerge(p)
  BY <1>4, GotoLapses DEF MirrorMerge
<1>5. CASE MirrorStatus(p)
  BY <1>5, DrainLapses DEF MirrorStatus
<1> QED
  BY <1>1, <1>2, <1>3, <1>4, <1>5

LEMMA FailureRefines ==
  ASSUME TInv, NEW p \in Passes, StatementFails(p)
  PROVE  Abstract!Next
<1> PassOK /\ pass[p] \in Pass /\ UNCHANGED <<queue, sched, handed, granted>>
  BY TInvPass, Parts DEF PassOK, StatementFails, tables, ghosts
<1>1. CASE AbandonRelease(p)
  <2> DEFINE v == IF p \in TuiPasses THEN Idle ELSE [Idle EXCEPT !.at = "release"]
  <2>1. pass' = [pass EXCEPT ![p] = v]
    BY <1>1 DEF AbandonRelease
  <2>2. \A j \in Ids : ~Flies(v, j)
    BY DEF Flies, Idle
  <2> QED
    BY <2>1, <2>2, PassQuiet
<1>2. CASE pass' = [pass EXCEPT ![p] = Idle]
  <2>1. \A j \in Ids : ~Flies(Idle, j)
    BY DEF Flies, Idle
  <2> QED
    BY <1>2, <2>1, PassQuiet
<1>3. ASSUME NEW todo, DrainOn(p, todo) PROVE Abstract!Next
  BY <1>3, DrainLapses
<1>4. CASE Goto(p, AfterSettle(p)) \/ Goto(p, "merge")
  <2>1. AfterSettle(p) \in {"readSchedule", "merge"}
    BY DEF AfterSettle
  <2> QED
    BY <1>4, <2>1, GotoLapses
<1> QED
  BY <1>1, <1>2, <1>3, <1>4 DEF StatementFails

-----------------------------------------------------------------------------
(* The user's steps and the outside world. *)

\* The passes stand still and no row comes into the queue or the schedule.
LEMMA StillLapses ==
  ASSUME pass' = pass, UNCHANGED <<handed, granted>>,
         \A j \in Ids : queue'[j].state = "queued" => queue[j].state = "queued",
         \A j \in Ids : sched'[j].state = "scheduled" => sched[j].state = "scheduled"
  PROVE  Abstract!Next
<1>1. ASSUME NEW j \in Ids PROVE Permits(j)' <= Permits(j)
  <2>1. Permits(j)' = Permits(j) + (Waiting(j)' - Waiting(j)) + (Scheduled(j)' - Scheduled(j))
    BY BalanceStill
  <2>2. /\ Waiting(j) \in Nat /\ Waiting(j)' \in Nat /\ Waiting(j)' <= Waiting(j)
        /\ Scheduled(j) \in Nat /\ Scheduled(j)' \in Nat /\ Scheduled(j)' <= Scheduled(j)
    BY DEF Waiting, Scheduled
  <2> QED
    BY <2>1, <2>2, PermitParts
<1> QED
  BY <1>1, Lapses

\* The user puts message i in the queue or in the schedule.
LEMMA StillGrants ==
  ASSUME NEW i \in Ids, pass' = pass,
         granted' = [granted EXCEPT ![i] = @ + 1], handed' = handed,
         \/ /\ sched' = sched
            /\ \A j \in Ids : queue'[j].state = IF j = i THEN "queued" ELSE queue[j].state
         \/ /\ queue' = queue
            /\ \A j \in Ids : sched'[j].state = IF j = i THEN "scheduled" ELSE sched[j].state
  PROVE  Abstract!Next
<1>1. \A j \in Ids : Permits(j)' = Permits(j) + (Waiting(j)' - Waiting(j))
                                              + (Scheduled(j)' - Scheduled(j))
  BY BalanceStill
<1>2. /\ \A j \in Ids : /\ Waiting(j) \in Nat /\ Waiting(j)' \in Nat
                        /\ Scheduled(j) \in Nat /\ Scheduled(j)' \in Nat
      /\ \A j \in Ids \ {i} : Waiting(j)' = Waiting(j) /\ Scheduled(j)' = Scheduled(j)
      /\ \/ Scheduled(i)' = Scheduled(i) /\ Waiting(i)' = 1 /\ Waiting(i) \in {0, 1}
         \/ Waiting(i)' = Waiting(i) /\ Scheduled(i)' = 1 /\ Scheduled(i) \in {0, 1}
  BY DEF Waiting, Scheduled
<1>3. \A j \in Ids : Permits(j) \in Nat
  BY PermitParts
<1>4. \A j \in Ids \ {i} : Permits(j)' = Permits(j)
  BY <1>1, <1>2, <1>3
<1>5. Permits(i)' \in {Permits(i), Permits(i) + 1}
  BY <1>1, <1>2, <1>3
<1> QED
  BY <1>4, <1>5, Grants

LEMMA UserRefines ==
  ASSUME TInv, NEW i \in Ids, User(i)
  PROVE  Abstract!Next
<1> /\ queue \in [Ids -> Row] /\ sched \in [Ids -> ScheduleRow] /\ granted \in [Ids -> Nat]
  BY Parts DEF OtherTypes
<1> USE DEF ghosts
<1>1. CASE QueueForLater(i)
  <2>1. CASE InQueue(i)
    BY <1>1, <2>1, StillLapses DEF QueueForLater
  <2>2. CASE ~InQueue(i)
    <3>1. \A j \in Ids : queue'[j].state = IF j = i THEN "queued" ELSE queue[j].state
      BY <1>1, <2>2 DEF QueueForLater, Enqueued, NoRow
    <3> QED
      BY <1>1, <2>2, <3>1, StillGrants DEF QueueForLater, Grant
  <2> QED
    BY <2>1, <2>2
<1>2. CASE StoreSchedule(i)
  <2>1. CASE sched[i].state # "none"
    BY <1>2, <2>1, StillLapses DEF StoreSchedule
  <2>2. CASE sched[i].state = "none"
    <3>1. \A j \in Ids : sched'[j].state = IF j = i THEN "scheduled" ELSE sched[j].state
      BY <1>2, <2>2 DEF StoreSchedule
    <3> QED
      BY <1>2, <2>2, <3>1, StillGrants DEF StoreSchedule, Grant
  <2> QED
    BY <2>1, <2>2
<1>3. CASE ReadRow(i) \/ FindSchedule(i) \/ DeleteLocalCopy(i)
  BY <1>3, StillLapses DEF ReadRow, FindSchedule, DeleteLocalCopy, tables
<1>4. CASE DropEntry(i)
  <2>1. /\ \A j \in Ids : queue'[j].state = "queued" => queue[j].state = "queued"
        /\ \A j \in Ids : sched'[j].state = "scheduled" => sched[j].state = "scheduled"
    BY <1>4 DEF DropEntry, NoRow, NoSchedule
  <2> QED
    BY <1>4, <2>1, StillLapses DEF DropEntry
<1> QED
  BY <1>1, <1>2, <1>3, <1>4 DEF User

LEMMA CommandRefines ==
  ASSUME TInv, CmdStep \/ CmdFails
  PROVE  Abstract!Next
<1> /\ queue \in [Ids -> Row] /\ sched \in [Ids -> ScheduleRow] /\ granted \in [Ids -> Nat]
    /\ ItemHeld /\ cmd \in Cmd
  BY Parts DEF OtherTypes, TInv, TypeOK
<1> USE DEF ghosts
<1>1. cmd.step # "none" => cmd.id \in Ids
  BY DEF ItemHeld
\* A row written back as queued.
<1>2. ASSUME NEW row, row.state = "queued", UpdateQueue(cmd.id, row), Regrant(cmd.id),
             row = [cmd.row EXCEPT !.state = "queued", !.next = "now"],
             cmd.id \in Ids, pass' = pass, sched' = sched, handed' = handed
      PROVE  Abstract!Next
  <2>1. PICK i \in Ids : i = cmd.id
    BY <1>2
  <2>2. CASE InQueue(i)
    <3>1. queue' = [queue EXCEPT ![i] = [row EXCEPT !.created = queue[i].created]]
      BY <1>2, <2>1, <2>2 DEF UpdateQueue
    <3>2. [row EXCEPT !.created = queue[i].created].state = "queued"
      BY <1>2 DEF Cmd, Row
    <3>3. \A j \in Ids : queue'[j].state = IF j = i THEN "queued" ELSE queue[j].state
      BY <3>1, <3>2
    <3>4. granted' = [granted EXCEPT ![i] = @ + 1]
      BY <1>2, <2>1, <2>2 DEF Regrant, Grant
    <3> QED
      BY <1>2, <3>3, <3>4, StillGrants
  <2>3. CASE ~InQueue(i)
    <3>1. queue' = queue /\ granted' = granted
      BY <1>2, <2>1, <2>3 DEF UpdateQueue, Regrant, Grant
    <3> QED
      BY <1>2, <3>1, StillLapses
  <2> QED
    BY <2>2, <2>3
\* A row written back in any other state.
<1>3. ASSUME NEW row, row.state # "queued", row \in Row, UpdateQueue(cmd.id, row),
             cmd.id \in Ids, pass' = pass, sched' = sched, UNCHANGED <<handed, granted>>
      PROVE  Abstract!Next
  <2>1. \A j \in Ids : queue'[j].state = "queued" => queue[j].state = "queued"
    BY <1>3 DEF UpdateQueue, Row
  <2> QED
    BY <1>3, <2>1, StillLapses
<1>4. CASE MergeComposed \/ DeleteMessage \/ CmdFails
  BY <1>4, StillLapses DEF MergeComposed, DeleteMessage, CmdFails, tables
<1>5. CASE Resend
  <2>1. [cmd.row EXCEPT !.state = "queued", !.next = "now"].state = "queued"
    BY DEF Cmd, Row
  <2> QED
    BY <1>1, <1>2, <1>5, <2>1 DEF Resend
<1>6. CASE PauseOrResume
  <2>1. /\ [cmd.row EXCEPT !.state = "queued", !.next = "now"].state = "queued"
        /\ [cmd.row EXCEPT !.state = "paused"] \in Row
        /\ [cmd.row EXCEPT !.state = "paused"].state # "queued"
        /\ cmd.row \in Row
    BY DEF Cmd, Row, QueueStates
  <2> QED
    BY <1>1, <1>2, <1>3, <1>6, <2>1 DEF PauseOrResume
<1>7. CASE SendNow
  <2>1. PICK i \in Ids : i = cmd.id
    BY <1>1, <1>7 DEF SendNow
  <2>2. CASE sched[i].state # "none"
    <3>1. \A j \in Ids : sched'[j].state = IF j = i THEN "scheduled" ELSE sched[j].state
      BY <1>7, <2>1, <2>2 DEF SendNow, UpdateScheduled
    <3>2. granted' = [granted EXCEPT ![i] = @ + 1]
      BY <1>7, <2>1, <2>2 DEF SendNow, Grant
    <3> QED
      BY <1>7, <3>1, <3>2, StillGrants DEF SendNow
  <2>3. CASE sched[i].state = "none"
    <3>1. sched' = sched /\ granted' = granted
      BY <1>7, <2>1, <2>3 DEF SendNow, UpdateScheduled
    <3> QED
      BY <1>7, <3>1, StillLapses DEF SendNow
  <2> QED
    BY <2>2, <2>3
<1>8. CASE DropRows
  <2>1. /\ \A j \in Ids : queue'[j].state = "queued" => queue[j].state = "queued"
        /\ \A j \in Ids : sched'[j].state = "scheduled" => sched[j].state = "scheduled"
    BY <1>8 DEF DropRows, NoRow, NoSchedule
  <2> QED
    BY <1>8, <2>1, StillLapses DEF DropRows
<1> QED
  BY <1>4, <1>5, <1>6, <1>7, <1>8 DEF CmdStep

LEMMA OutsideRefines ==
  ASSUME TInv,
         \/ \E proc \in Procs : Start(proc) \/ Stop(proc)
         \/ OpenElsewhere \/ Disconnect \/ Connect
         \/ \E i \in Ids : Elapse(i) \/ Arrive(i)
  PROVE  Abstract!Next
<1> PassOK /\ queue \in [Ids -> Row] /\ sched \in [Ids -> ScheduleRow]
  BY Parts DEF OtherTypes
<1> USE DEF ghosts, actors, tables
<1>1. ASSUME Recover PROVE \A j \in Ids : queue'[j].state = "queued" => queue[j].state = "queued"
  BY <1>1 DEF Recover, Row
<1>2. ASSUME NEW proc \in Procs, Start(proc) PROVE Abstract!Next
  BY <1>1, <1>2, StillLapses DEF Start
<1>3. ASSUME NEW proc \in Procs, Stop(proc) PROVE Abstract!Next
  <2>1. UNCHANGED <<queue, sched, handed, granted>>
    BY <1>3 DEF Stop
  <2>2. ASSUME NEW j \in Ids PROVE Permits(j)' <= Permits(j)
    <3>1. \A p \in Passes : Flies(pass'[p], j) => Flies(pass[p], j)
      BY <1>3 DEF Stop, Flies, Idle
    <3>2. InFlight(j)' \subseteq InFlight(j)
      BY <3>1, FlightSet, FlightSetNext
    <3>3. Flying(j)' <= Flying(j)
      BY <3>2, FlightFinite, FS_Subset DEF Flying
    <3>4. Waiting(j)' = Waiting(j) /\ Scheduled(j)' = Scheduled(j)
      BY <2>1 DEF Waiting, Scheduled
    <3>5. Waiting(j) \in Nat /\ Scheduled(j) \in Nat
      BY DEF Waiting, Scheduled
    <3> QED
      BY <3>3, <3>4, <3>5, FlightFinite, PermitParts
  <2> QED
    BY <2>1, <2>2, Lapses
<1>4. CASE OpenElsewhere
  BY <1>1, <1>4, StillLapses DEF OpenElsewhere
<1>5. CASE Disconnect \/ Connect
  BY <1>5, StillLapses DEF Disconnect, Connect
<1>6. ASSUME NEW i \in Ids, Elapse(i) PROVE Abstract!Next
  <2>1. \A j \in Ids : queue'[j].state = queue[j].state
    BY <1>6 DEF Elapse, Row
  <2> QED
    BY <1>6, <2>1, StillLapses DEF Elapse
<1>7. ASSUME NEW i \in Ids, Arrive(i) PROVE Abstract!Next
  <2>1. \A j \in Ids : sched'[j].state = sched[j].state
    BY <1>7 DEF Arrive, ScheduleRow
  <2> QED
    BY <1>7, <2>1, StillLapses DEF Arrive
<1> QED
  BY <1>2, <1>3, <1>4, <1>5, <1>6, <1>7

-----------------------------------------------------------------------------

LEMMA RefinedInit == Init => Abstract!Init
<1> SUFFICES ASSUME Init PROVE Abstract!Init
  OBVIOUS
<1>1. ASSUME NEW j \in Ids PROVE Permits(j) = 0
  <2>1. InFlight(j) = {}
    BY FlightSet DEF Init, Idle, Flies
  <2>2. Flying(j) = 0
    BY <2>1, FS_EmptySet DEF Flying
  <2>3. Waiting(j) = 0 /\ Scheduled(j) = 0
    BY DEF Init, NoRow, NoSchedule, Waiting, Scheduled
  <2> QED
    BY <2>2, <2>3, PermitParts
<1> QED
  BY <1>1 DEF Init, Abstract!Init

LEMMA RefinedStep == TInv /\ [Next]_vars => [Abstract!Next]_Abstract!vars
<1> SUFFICES ASSUME TInv, [Next]_vars PROVE [Abstract!Next]_Abstract!vars
  OBVIOUS
<1>1. ASSUME NEW p \in Passes, Begin(p) \/ PassStep(p) \/ StatementFails(p)
      PROVE  Abstract!Next
  BY <1>1, ReleaseRefines, ClaimRefines, OutcomeRefines, SettleRefines, FailureRefines
  DEF PassStep
<1>2. ASSUME NEW i \in Ids, User(i) \/ Elapse(i) \/ Arrive(i) PROVE Abstract!Next
  BY <1>2, UserRefines, OutsideRefines
<1>3. CASE CmdStep \/ CmdFails
  BY <1>3, CommandRefines
<1>4. CASE \/ \E proc \in Procs : Start(proc) \/ Stop(proc)
           \/ OpenElsewhere \/ Disconnect \/ Connect
  BY <1>4, OutsideRefines
<1>5. CASE UNCHANGED vars
  BY <1>5, StillLapses DEF vars, tables, actors, ghosts
<1> QED
  BY <1>1, <1>2, <1>3, <1>4, <1>5 DEF Next

\* The outbox implements Delivery: however passes, processes, crashes and the
\* user's commands interleave, every step of it is a step of Delivery.
THEOREM DeliveryImplemented == Spec => ImplementsDelivery
<1>1. Init => Abstract!Init
  BY RefinedInit
<1>2. TInv /\ [Next]_vars => [Abstract!Next]_Abstract!vars
  BY RefinedStep
<1> QED
  BY <1>1, <1>2, TypeCorrect, PTL DEF Spec, ImplementsDelivery, Abstract!Spec

\* A step of Delivery keeps the account of each message.
LEMMA AccountKept ==
  ASSUME TInv, TInv', HandedWithinGrant, [Abstract!Next]_Abstract!vars
  PROVE  HandedWithinGrant'
<1> SUFFICES ASSUME NEW j \in Ids PROVE handed'[j] + Permits(j)' <= granted'[j]
  BY DEF HandedWithinGrant
<1>1. /\ handed \in [Ids -> Nat] /\ granted \in [Ids -> Nat]
      /\ handed[j] \in Nat /\ granted[j] \in Nat
      /\ handed[j] + Permits(j) <= granted[j]
      /\ Permits(j) \in Nat /\ Permits(j)' \in Nat
  BY PermitParts DEF TInv, TypeOK, HandedWithinGrant
<1> DEFINE now == [i \in Ids |-> Permits(i)]
           then == [i \in Ids |-> Permits(i)']
<1>2. now[j] = Permits(j) /\ then[j] = Permits(j)' /\ now \in [Ids -> Nat]
  BY PermitParts
<1>3. ASSUME NEW i \in Ids, Abstract!Grant(i) PROVE handed'[j] + Permits(j)' <= granted'[j]
  <2>1. /\ granted' = [granted EXCEPT ![i] = @ + 1] /\ handed' = handed
        /\ then \in {now, [now EXCEPT ![i] = @ + 1]}
    BY <1>3 DEF Abstract!Grant
  <2>2. CASE i = j
    <3>1. handed'[j] = handed[j] /\ granted'[j] = granted[j] + 1 /\ then[j] \in {now[j], now[j] + 1}
      BY <1>1, <1>2, <2>1, <2>2
    <3> QED
      BY <1>1, <1>2, <3>1
  <2>3. CASE i # j
    <3>1. handed'[j] = handed[j] /\ granted'[j] = granted[j] /\ then[j] = now[j]
      BY <1>1, <1>2, <2>1, <2>3
    <3> QED
      BY <1>1, <1>2, <3>1
  <2> QED
    BY <2>2, <2>3
<1>4. ASSUME NEW i \in Ids, Abstract!HandOver(i) PROVE handed'[j] + Permits(j)' <= granted'[j]
  <2>1. /\ handed' = [handed EXCEPT ![i] = @ + 1] /\ granted' = granted
        /\ then = [now EXCEPT ![i] = @ - 1]
    BY <1>4 DEF Abstract!HandOver
  <2>2. CASE i = j
    <3>1. handed'[j] = handed[j] + 1 /\ granted'[j] = granted[j] /\ then[j] = now[j] - 1
      BY <1>1, <1>2, <2>1, <2>2
    <3> QED
      BY <1>1, <1>2, <3>1
  <2>3. CASE i # j
    <3>1. handed'[j] = handed[j] /\ granted'[j] = granted[j] /\ then[j] = now[j]
      BY <1>1, <1>2, <2>1, <2>3
    <3> QED
      BY <1>1, <1>2, <3>1
  <2> QED
    BY <2>2, <2>3
<1>5. ASSUME NEW i \in Ids, Abstract!HandOverUnheard(i)
      PROVE  handed'[j] + Permits(j)' <= granted'[j]
  <2>1. /\ handed' = [handed EXCEPT ![i] = @ + 1]
        /\ granted' = [granted EXCEPT ![i] = @ + 1]
        /\ then \in {now, [now EXCEPT ![i] = @ - 1]}
    BY <1>5 DEF Abstract!HandOverUnheard
  <2>2. CASE i = j
    <3>1. handed'[j] = handed[j] + 1 /\ granted'[j] = granted[j] + 1 /\ then[j] \in {now[j], now[j] - 1}
      BY <1>1, <1>2, <2>1, <2>2
    <3> QED
      BY <1>1, <1>2, <3>1
  <2>3. CASE i # j
    <3>1. handed'[j] = handed[j] /\ granted'[j] = granted[j] /\ then[j] = now[j]
      BY <1>1, <1>2, <2>1, <2>3
    <3> QED
      BY <1>1, <1>2, <3>1
  <2> QED
    BY <2>2, <2>3
<1>6. CASE Abstract!Lapse
  <2>1. handed' = handed /\ granted' = granted /\ then[j] <= now[j]
    BY <1>6 DEF Abstract!Lapse
  <2> QED
    BY <1>1, <1>2, <2>1
<1>7. CASE UNCHANGED Abstract!vars
  <2>1. handed' = handed /\ granted' = granted /\ then = now
    BY <1>7 DEF Abstract!vars
  <2> QED
    BY <1>1, <1>2, <2>1
<1> QED
  BY <1>3, <1>4, <1>5, <1>6, <1>7 DEF Abstract!Next

\* The phone accepts a message at most once for its composition, for each
\* command that puts it back in the queue, and for each attempt whose answer was
\* lost; no claim on a message is left over beyond that.
THEOREM HandedOverAsGranted == Spec => []HandedWithinGrant
<1>1. Init => HandedWithinGrant
  <2> SUFFICES ASSUME Init, NEW j \in Ids PROVE handed[j] + Permits(j) <= granted[j]
    BY DEF HandedWithinGrant
  <2>1. [i \in Ids |-> Permits(i)][j] = 0
    BY RefinedInit DEF Abstract!Init
  <2> QED
    BY <2>1 DEF Init
<1>2. TInv /\ TInv' /\ HandedWithinGrant /\ [Next]_vars => HandedWithinGrant'
  BY RefinedStep, AccountKept
<1> QED
  BY <1>1, <1>2, TypeCorrect, PTL DEF Spec

-----------------------------------------------------------------------------
(* The schedule keeps a message until its time. *)

\* Only a row that waits in the schedule has a time to come.
WaitsInSchedule == \A i \in Ids : sched[i].at = "future" => sched[i].state = "scheduled"

\* Every statement leaves the schedule alone, sets one row to a time that has
\* come or to one it waits for, or changes the state of a row whose time has come.
LEMMA ScheduleSteps ==
  ASSUME TInv, [Next]_vars
  PROVE  \/ sched' = sched
         \/ \E i \in Ids : \E row \in ScheduleRow :
              /\ sched' = [sched EXCEPT ![i] = row]
              /\ row.at = "future" => row.state = "scheduled"
<1> DEFINE Kept == sched' = sched
           Goal == \E i \in Ids : \E row \in ScheduleRow :
                     /\ sched' = [sched EXCEPT ![i] = row]
                     /\ row.at = "future" => row.state = "scheduled"
<1> sched \in [Ids -> ScheduleRow]
  BY DEF TInv, TypeOK
<1>1. ASSUME NEW i \in Ids, NEW row \in ScheduleRow, row.at = "past", UpdateScheduled(i, row)
      PROVE  Kept \/ Goal
  BY <1>1 DEF UpdateScheduled
<1>2. ASSUME NEW p \in Passes, ClaimScheduled(p) PROVE Kept \/ Goal
  <2>1. CASE sched' = sched
    BY <2>1
  <2>2. CASE sched' # sched
    <3>1. PICK i \in pass[p].todo :
            i \in DueScheduled /\ sched' = [sched EXCEPT ![i].state = "queued"]
      BY <1>2, <2>2 DEF ClaimScheduled
    <3> DEFINE row == [state |-> "queued", at |-> "past"]
    <3>2. /\ i \in Ids /\ row \in ScheduleRow /\ row.at = "past"
          /\ sched[i] = [state |-> "scheduled", at |-> "past"]
      BY <3>1 DEF DueScheduled, ScheduleRow
    <3>3. [sched[i] EXCEPT !.state = "queued"] = row
      BY <3>2
    <3>4. sched' = [sched EXCEPT ![i] = row]
      BY <3>1, <3>3
    <3> QED
      BY <3>2, <3>4
  <2> QED
    BY <2>1, <2>2
<1>3. ASSUME NEW p \in Passes, StampScheduled(p) PROVE Kept \/ Goal
  <2>1. Item(p) \in Ids
    BY <1>3 DEF StampScheduled, At, TInv, ItemHeld, Carrying
  <2> DEFINE row == [state |-> "queued", at |-> "past"]
  <2>2. row \in ScheduleRow /\ row.at = "past" /\ UpdateScheduled(Item(p), row)
    BY <1>3 DEF StampScheduled, ScheduleRow
  <2> QED
    BY <1>1, <2>1, <2>2
<1>4. ASSUME NEW p \in Passes, WriteSchedule(p) PROVE Kept \/ Goal
  <2>1. Item(p) \in Ids /\ Terminal(Carried(p).state)
    BY <1>4 DEF WriteSchedule, At, TInv, ItemHeld, Carrying
  <2> DEFINE row == [state |-> Carried(p).state, at |-> "past"]
  <2>2. row \in ScheduleRow /\ row.at = "past" /\ UpdateScheduled(Item(p), row)
    BY <1>4, <2>1 DEF WriteSchedule, ScheduleRow, Terminal
  <2> QED
    BY <1>1, <2>1, <2>2
<1>5. ASSUME NEW p \in Passes, Begin(p) \/ PassStep(p) \/ StatementFails(p) PROVE Kept \/ Goal
  BY <1>2, <1>3, <1>4, <1>5
     DEF PassStep, Begin, StatementFails, tables, ListDueScheduled, EnqueueScheduled,
         ListDueQueue, ClaimQueue, Accept, Refuse, LoseAnswer, FindNoPhone, Settle,
         ReadSchedule, MirrorMerge, MirrorStatus
<1>6. ASSUME NEW i \in Ids, StoreSchedule(i) \/ DropEntry(i) PROVE Kept \/ Goal
  <2> DEFINE row == [state |-> "scheduled", at |-> "future"]
  <2>1. row \in ScheduleRow /\ NoSchedule \in ScheduleRow /\ NoSchedule.at = "past"
    BY DEF ScheduleRow, NoSchedule
  <2>2. \/ sched' = sched
        \/ sched' = [sched EXCEPT ![i] = row]
        \/ sched' = [sched EXCEPT ![i] = NoSchedule]
    BY <1>6 DEF StoreSchedule, DropEntry
  <2> QED
    BY <2>1, <2>2
<1>7. ASSUME NEW i \in Ids, Arrive(i) PROVE Goal
  <2> DEFINE row == [sched[i] EXCEPT !.at = "past"]
  <2>1. row \in ScheduleRow /\ row.at = "past"
    BY DEF ScheduleRow
  <2>2. sched' = [sched EXCEPT ![i] = row]
    BY <1>7 DEF Arrive
  <2> QED
    BY <2>1, <2>2
<1>8. ASSUME NEW i \in Ids, User(i) \/ Elapse(i) \/ Arrive(i) PROVE Kept \/ Goal
  BY <1>6, <1>7, <1>8 DEF User, QueueForLater, ReadRow, FindSchedule, DeleteLocalCopy, Elapse, tables
<1>9. ASSUME SendNow PROVE Kept \/ Goal
  <2> DEFINE row == [state |-> "scheduled", at |-> "past"]
  <2>1. /\ row \in ScheduleRow /\ row.at = "past"
        /\ cmd.id \in Ids /\ UpdateScheduled(cmd.id, row)
    BY <1>9 DEF SendNow, ScheduleRow, TInv, ItemHeld
  <2> QED
    BY <1>1, <2>1
<1>10. ASSUME DropRows PROVE Kept \/ Goal
  <2>1. /\ NoSchedule \in ScheduleRow /\ NoSchedule.at = "past" /\ cmd.id \in Ids
        /\ sched' = sched \/ sched' = [sched EXCEPT ![cmd.id] = NoSchedule]
    BY <1>10 DEF DropRows, Dropping, ScheduleRow, NoSchedule, TInv, ItemHeld
  <2> QED
    BY <2>1
<1>11. ASSUME CmdStep \/ CmdFails PROVE Kept \/ Goal
  BY <1>9, <1>10, <1>11 DEF CmdStep, CmdFails, MergeComposed, Resend, PauseOrResume, DeleteMessage, tables
<1>12. ASSUME \/ \E proc \in Procs : Start(proc) \/ Stop(proc)
              \/ OpenElsewhere \/ Disconnect \/ Connect \/ UNCHANGED vars
       PROVE  Kept
  BY <1>12 DEF Start, Stop, OpenElsewhere, Disconnect, Connect, vars, tables
<1> QED
  BY <1>5, <1>8, <1>11, <1>12 DEF Next

LEMMA WaitsStep == TInv /\ WaitsInSchedule /\ [Next]_vars => WaitsInSchedule'
<1> SUFFICES ASSUME TInv, WaitsInSchedule, [Next]_vars, NEW j \in Ids, sched'[j].at = "future"
             PROVE  sched'[j].state = "scheduled"
  BY DEF WaitsInSchedule
<1>1. sched \in [Ids -> ScheduleRow]
  BY DEF TInv, TypeOK
<1>2. CASE sched' = sched
  BY <1>2 DEF WaitsInSchedule
<1>3. ASSUME NEW i \in Ids, NEW row \in ScheduleRow,
             sched' = [sched EXCEPT ![i] = row],
             row.at = "future" => row.state = "scheduled"
      PROVE  sched'[j].state = "scheduled"
  BY <1>1, <1>3 DEF WaitsInSchedule
<1> QED
  BY <1>2, <1>3, ScheduleSteps

\* A message waiting for its time stays in the schedule and keeps its claim:
\* whatever of it was sent, is queued or is carried by a pass was granted by
\* another command.  The schedule's claim is one of those that HandedOverAsGranted
\* counts.
THEOREM NothingLeavesEarly == Spec => []NeverEarly
<1>1. Init => WaitsInSchedule
  BY DEF Init, WaitsInSchedule, NoSchedule
<1>2. TInv /\ WaitsInSchedule /\ [Next]_vars => WaitsInSchedule'
  BY WaitsStep
<1>3. TInv /\ WaitsInSchedule /\ HandedWithinGrant => NeverEarly
  <2> SUFFICES ASSUME TInv, WaitsInSchedule, HandedWithinGrant,
                      NEW i \in Ids, sched[i].at = "future"
               PROVE  /\ sched[i].state = "scheduled"
                      /\ handed[i] + Flying(i) + Waiting(i) < granted[i]
    BY DEF NeverEarly, Flying, Waiting
  <2>1. sched[i].state = "scheduled" /\ Scheduled(i) = 1
    BY DEF WaitsInSchedule, Scheduled
  <2>2. /\ Permits(i) = Flying(i) + Waiting(i) + Scheduled(i)
        /\ Flying(i) \in Nat /\ Waiting(i) \in Nat
    BY PermitParts, FlightFinite DEF Waiting
  <2>3. handed[i] + Permits(i) <= granted[i] /\ handed[i] \in Nat /\ granted[i] \in Nat
    BY DEF HandedWithinGrant, TInv, TypeOK
  <2> QED
    BY <2>1, <2>2, <2>3
<1> QED
  BY <1>1, <1>2, <1>3, TypeCorrect, HandedOverAsGranted, PTL DEF Spec
=============================================================================
