---------------------------- MODULE ComposeProofs ----------------------------
(***************************************************************************)
(* Proofs about Compose, for any conversations, texts and presses of send, *)
(* any number of outside events, with or without an undo window.           *)
(***************************************************************************)
EXTENDS Compose, FiniteSetTheorems, TLAPS

\* The steps of each kind of job.
JobShape(j) ==
  /\ j.step \in {"save", "mark", "stored", "call", "status"} => j.kind = "send"
  /\ j.step = "file" => j.kind \in {"queue", "schedule"}
  /\ j.step = "merge" => j.kind # "edit"
  /\ j.step \in {"remove", "erase"} => j.kind = "edit"

\* There is a number for each press left, a prompt is about a message, and the
\* window is that of the message that waits.
Shape ==
  /\ pressed + left["send"] <= Presses
  /\ modal # "none" => pending # NoSend
  /\ hold # NoHold => pending # NoSend /\ pending.n = hold.n
  /\ \A j \in jobs : JobShape(j)

TInv == TypeOK /\ Shape

\* A window or a send is going on, one at a time, or nothing is, and no prompt
\* is open meanwhile.
Locks ==
  /\ LockedForSend
  /\ modal # "none" => ~sending
  /\ \A j, k \in jobs : j.kind = "send" /\ k.kind = "send" => j = k
  /\ hold # NoHold => \A j \in jobs : j.kind # "send"

Base == TInv /\ Locks

-----------------------------------------------------------------------------
(* The types in parts, and what the operators return. *)

DraftTypes == drafts \in [Keys -> Draft] /\ stored \in [Keys -> Draft]

ScreenTypes ==
  editor \in Bodies /\ at \in Keys \cup {None} /\ retry \in Sends \cup {None}

SenderTypes ==
  /\ pending \in Captured \cup {NoSend} /\ hold \in Hold \cup {NoHold}
  /\ ticks \subseteq Sends /\ modal \in {"none", "offline", "schedule"} /\ sending \in BOOLEAN
  /\ modal # "none" => pending # NoSend
  /\ hold # NoHold => pending # NoSend /\ pending.n = hold.n

FlagTypes ==
  /\ up \in BOOLEAN /\ loaded \in BOOLEAN /\ opening \in BOOLEAN
  /\ known \subseteq {"local", "thread"} /\ inDb \subseteq {"local", "thread"}

TimerTypes ==
  timers \subseteq [key : Keys, rev : Nat] /\ saves \subseteq [key : Keys, draft : Draft]

JobTypes == jobs \subseteq Job /\ \A j \in jobs : JobShape(j)

TableTypes == rows \in [Sends -> Row] /\ filed \subseteq Filed

Handing == [n : Sends, way : {"send", "queue", "schedule"}, id : Sends,
            to : Others \cup {"person"}, body : Texts]

GhostTypes ==
  pressed \in 0 .. Presses /\ undone \subseteq Sends /\ went \subseteq Handing

LeftTypes == left \in [Events -> Nat] /\ pressed + left["send"] <= Presses

LEMMA Parts ==
  TInv <=> /\ DraftTypes /\ ScreenTypes /\ SenderTypes /\ FlagTypes
           /\ TimerTypes /\ JobTypes /\ TableTypes /\ GhostTypes /\ LeftTypes
BY DEF TInv, TypeOK, Shape, DraftTypes, ScreenTypes, SenderTypes, FlagTypes, TimerTypes,
       JobTypes, TableTypes, Handing, GhostTypes, LeftTypes

LEMMA PartsNext ==
  /\ DraftTypes' /\ ScreenTypes' /\ SenderTypes' /\ FlagTypes'
  /\ TimerTypes' /\ JobTypes' /\ TableTypes' /\ GhostTypes' /\ LeftTypes'
  => TInv'
BY DEF TInv, TypeOK, Shape, DraftTypes, ScreenTypes, SenderTypes, FlagTypes, TimerTypes,
       JobTypes, TableTypes, Handing, GhostTypes, LeftTypes

\* The parts that the variables an action leaves alone make up.
LEMMA Untouched ==
  ASSUME TInv
  PROVE  /\ UNCHANGED <<drafts, stored>> => DraftTypes'
         /\ UNCHANGED <<editor, at, retry>> => ScreenTypes'
         /\ UNCHANGED <<sender, modal>> => SenderTypes'
         /\ UNCHANGED <<up, loaded, opening, known, inDb>> => FlagTypes'
         /\ UNCHANGED <<timers, saves>> => TimerTypes'
         /\ UNCHANGED jobs => JobTypes'
         /\ UNCHANGED <<rows, filed>> => TableTypes'
         /\ UNCHANGED <<pressed, undone, went>> => GhostTypes'
         /\ UNCHANGED <<left, pressed>> => LeftTypes'
BY Parts DEF DraftTypes, ScreenTypes, SenderTypes, FlagTypes, TimerTypes, JobTypes, TableTypes,
             Handing, GhostTypes, LeftTypes, sender

LEMMA SpendType ==
  ASSUME TInv, NEW e \in Events, Spend(e), pressed' = pressed
  PROVE  LeftTypes'
<1>1. left \in [Events -> Nat] /\ "send" \in Events /\ pressed \in Nat
  BY Parts DEF LeftTypes, GhostTypes, Events
<1>2. left[e] - 1 \in Nat /\ left[e] - 1 <= left[e]
  BY <1>1 DEF Spend
<1>3. left' \in [Events -> Nat] /\ left'["send"] <= left["send"]
  BY <1>1, <1>2 DEF Spend
<1>4. left["send"] \in Nat /\ left'["send"] \in Nat /\ pressed + left["send"] <= Presses
  BY <1>1, <1>3, Parts DEF LeftTypes
<1> QED
  BY <1>1, <1>3, <1>4, ComposeAssumption DEF LeftTypes

\* What is in flight differs from nothing in flight.
LEMMA Something ==
  /\ \A c \in Captured : c # NoSend /\ c.n # None
  /\ \A h \in Hold : h # NoHold /\ h.n # None
  /\ \A n \in Sends : n # None
BY ComposeAssumption DEF Captured, Hold, NoSend, NoHold, Sends

LEMMA DraftOps ==
  ASSUME DraftTypes, NEW k \in Keys
  PROVE  /\ \A text \in Bodies : /\ Tracked(k, text) \in [Keys -> Draft]
                                /\ Tracked(k, text)[k].body = text
         /\ Legacy(k) \in [Keys -> Draft]
         /\ \A d \in Draft : SaveDraft(k, d) \in [Keys -> Draft]
         /\ NoDraft \in Draft
<1>1. NoDraft \in Draft
  BY DEF NoDraft, Draft, Bodies
<1>2. \A text \in Bodies : Tracked(k, text) \in [Keys -> Draft] /\ Tracked(k, text)[k].body = text
  BY DEF Tracked, DraftTypes, Draft
<1>3. "number" \in Keys
  BY DEF Keys
<1>4. Legacy(k) \in [Keys -> Draft]
  BY <1>3 DEF Legacy, DraftTypes
<1>5. \A d \in Draft : SaveDraft(k, d) \in [Keys -> Draft]
  BY DEF SaveDraft, DraftTypes
<1> QED
  BY <1>1, <1>2, <1>4, <1>5

\* A job at its next step.
LEMMA JobMoved ==
  ASSUME NEW j \in Job, NEW step \in Steps, NEW ok \in BOOLEAN
  PROVE  /\ [j EXCEPT !.step = step, !.ok = ok] \in Job
         /\ [j EXCEPT !.step = step, !.ok = ok].kind = j.kind
         /\ [j EXCEPT !.step = step, !.ok = ok].step = step
         /\ [j EXCEPT !.step = step, !.ok = ok].ok = ok
         /\ [j EXCEPT !.step = step, !.ok = ok].captured = j.captured
         /\ [j EXCEPT !.step = step] = [j EXCEPT !.step = step, !.ok = j.ok]
         /\ j.ok \in BOOLEAN
BY DEF Job

LEMMA MovedType ==
  ASSUME JobTypes, NEW j \in jobs, NEW k \in Job, JobShape(k), jobs' = (jobs \ {j}) \cup {k}
  PROVE  JobTypes'
BY DEF JobTypes

LEMMA StartedType ==
  ASSUME JobTypes, NEW kind, NEW step, NEW c \in Captured, StartJob(kind, step, c),
         \/ kind = "send" /\ step = "save"
         \/ kind \in {"queue", "schedule"} /\ step = "file"
         \/ kind = "edit" /\ step = "remove"
  PROVE  JobTypes'
<1> DEFINE j == [kind |-> kind, step |-> step, ok |-> TRUE, captured |-> c]
<1>1. j \in Job /\ JobShape(j)
  BY DEF Job, JobShape, Steps
<1> QED
  BY <1>1 DEF StartJob, JobTypes

LEMMA StartedJob ==
  ASSUME NEW kind, NEW step, NEW c, StartJob(kind, step, c)
  PROVE  \E k : jobs' = jobs \cup {k} /\ k.kind = kind /\ k.step = step /\ k.captured = c
<1> DEFINE k == [kind |-> kind, step |-> step, ok |-> TRUE, captured |-> c]
<1>1. k.kind = kind /\ k.step = step /\ k.captured = c /\ jobs' = jobs \cup {k}
  BY DEF StartJob
<1> QED
  BY <1>1

LEMMA DeliverTypes ==
  ASSUME TInv, NEW c \in Captured, Deliver(c)
  PROVE  /\ JobTypes'
         /\ pending' \in Captured \cup {NoSend} /\ sending' \in BOOLEAN
         /\ modal' \in {"none", "offline", "schedule"}
         /\ modal' # "none" => pending' # NoSend
<1>1. JobTypes'
  BY Parts, StartedType DEF Deliver, JobTypes
<1> QED
  BY <1>1, Something DEF Deliver

LEMMA GoneType ==
  ASSUME NEW j \in Job, j.kind # "edit"
  PROVE  Gone(j) \in Handing
<1>1. \A k : To(k) \in Others \cup {"person"}
  BY DEF To
<1> QED
  BY <1>1 DEF Gone, Handing, Job, Captured

-----------------------------------------------------------------------------
(* Every action keeps the types. *)

LEMMA InitTypes == Init => TInv
<1> SUFFICES ASSUME Init PROVE TInv
  OBVIOUS
<1>1. NoDraft \in Draft /\ NoRow \in Row
  BY DEF NoDraft, Draft, Bodies, Row
<1>2. left \in [Events -> Nat] /\ left["send"] <= Presses
  BY ComposeAssumption DEF Init
<1>3. DraftTypes /\ TableTypes
  BY <1>1 DEF Init, Fresh, DraftTypes, TableTypes
<1>4. ScreenTypes /\ SenderTypes
  BY DEF Init, Fresh, ScreenTypes, SenderTypes, Bodies
<1>5. FlagTypes /\ TimerTypes /\ JobTypes
  BY DEF Init, Fresh, FlagTypes, TimerTypes, JobTypes
<1>6. GhostTypes /\ LeftTypes
  BY <1>2, ComposeAssumption DEF Init, GhostTypes, LeftTypes, Events
<1> QED
  BY <1>3, <1>4, <1>5, <1>6, Parts

LEMMA TypingTypes ==
  ASSUME TInv,
         \/ \E t \in Bodies : Type(t)
         \/ \E t \in Texts : Quote(t)
         \/ \E i \in Sends : PressRetry(i)
         \/ \E k \in Keys : OpenThread(k)
         \/ Choose
  PROVE  TInv'
<1>0. DraftTypes /\ ScreenTypes /\ TimerTypes /\ TableTypes
  BY Parts
<1>1. ASSUME NEW t \in Bodies, Type(t) PROVE TInv'
  <2>1. at \in Keys
    BY <1>0, <1>1 DEF Type, ScreenTypes
  <2>2. drafts' \in [Keys -> Draft]
    BY <1>0, <1>1, <2>1, DraftOps DEF Type
  <2>3. drafts'[at].rev \in Nat
    BY <2>1, <2>2 DEF Draft
  <2>4. LeftTypes'
    BY <1>1, SpendType DEF Type, Events, ghosts
  <2>5. DraftTypes' /\ ScreenTypes' /\ TimerTypes'
    BY <1>0, <1>1, <2>1, <2>2, <2>3 DEF Type, DraftTypes, ScreenTypes, TimerTypes, tables
  <2> QED
    BY <1>1, <2>4, <2>5, Untouched, PartsNext DEF Type, start, tables, ghosts
<1>2. ASSUME NEW t \in Texts, Quote(t) PROVE TInv'
  <2>1. at \in Keys /\ t \in Bodies
    BY <1>0, <1>2 DEF Quote, ScreenTypes, Bodies
  <2>2. drafts' \in [Keys -> Draft]
    BY <1>0, <1>2, <2>1, DraftOps DEF Quote
  <2>3. LeftTypes'
    BY <1>2, SpendType DEF Quote, Events, ghosts
  <2>4. DraftTypes' /\ ScreenTypes'
    BY <1>0, <1>2, <2>1, <2>2 DEF Quote, DraftTypes, ScreenTypes, tables
  <2> QED
    BY <1>2, <2>3, <2>4, Untouched, PartsNext DEF Quote, start, work, tables, ghosts
<1>3. ASSUME NEW i \in Sends, PressRetry(i) PROVE TInv'
  <2>1. at \in Keys /\ rows[i].body \in Bodies
    BY <1>0, <1>3 DEF PressRetry, ScreenTypes, TableTypes, Row, Bodies, NoRow
  <2>2. drafts' \in [Keys -> Draft]
    BY <1>0, <1>3, <2>1, DraftOps DEF PressRetry
  <2>3. LeftTypes'
    BY <1>3, SpendType DEF PressRetry, Events, ghosts
  <2>4. DraftTypes' /\ ScreenTypes'
    BY <1>0, <1>3, <2>1, <2>2 DEF PressRetry, DraftTypes, ScreenTypes, tables
  <2> QED
    BY <1>3, <2>3, <2>4, Untouched, PartsNext DEF PressRetry, start, work, tables, ghosts
<1>4. ASSUME NEW k \in Keys, OpenThread(k) PROVE TInv'
  <2>1. drafts' \in [Keys -> Draft]
    BY <1>0, <1>4, DraftOps DEF OpenThread, Opened, Bodies
  <2>2. LeftTypes'
    BY <1>4, SpendType DEF OpenThread, Events, ghosts
  <2>3. DraftTypes' /\ ScreenTypes'
    BY <1>0, <1>4, <2>1 DEF OpenThread, Opened, DraftTypes, ScreenTypes, tables, Draft
  <2> QED
    BY <1>4, <2>2, <2>3, Untouched, PartsNext DEF OpenThread, start, work, tables, ghosts
<1>5. CASE Choose
  <2>1. LeftTypes'
    BY <1>5, SpendType DEF Choose, Events, ghosts
  <2>2. ScreenTypes'
    BY <1>0, <1>5 DEF Choose, ScreenTypes, DraftTypes, Draft, Keys
  <2> QED
    BY <1>5, <2>1, <2>2, Untouched, PartsNext DEF Choose, start, work, tables, ghosts
<1> QED
  BY <1>1, <1>2, <1>3, <1>4, <1>5

\* The message that is captured, and what PrepareSend leaves.
LEMMA PrepareTypes ==
  ASSUME TInv, PrepareSend
  PROVE  /\ Message \in Captured /\ Message.n = pressed + 1 /\ SendKey \in Keys \ {"number"}
         /\ ScreenTypes' /\ TimerTypes' /\ TableTypes' /\ GhostTypes' /\ LeftTypes' /\ DraftTypes'
         /\ pressed + 1 \in Sends
<1>0. DraftTypes /\ ScreenTypes /\ GhostTypes /\ LeftTypes
  BY Parts
<1>1. at \in Keys /\ editor \in Texts /\ SendKey \in Keys \ {"number"} /\ drafts[at].rev \in Nat
  BY <1>0 DEF PrepareSend, ScreenTypes, DraftTypes, Draft, Bodies, SendKey, Keys
<1>2. left["send"] \in Nat \ {0} /\ "send" \in Events
  BY <1>0 DEF PrepareSend, Spend, LeftTypes, Events
<1>3. pressed + 1 \in Sends /\ pressed + 1 \in 0 .. Presses
  BY <1>0, <1>2, ComposeAssumption DEF LeftTypes, GhostTypes, Sends
<1>4. Message \in Captured /\ Message.n = pressed + 1
  BY <1>0, <1>1, <1>3 DEF Message, Captured, ScreenTypes
<1>5. LeftTypes'
  BY <1>0, <1>2, ComposeAssumption DEF PrepareSend, Spend, LeftTypes, GhostTypes
<1>6. DraftTypes' /\ ScreenTypes'
  BY <1>0, <1>1 DEF PrepareSend, DraftTypes, ScreenTypes, Draft, Bodies, tables
<1>7. TimerTypes' /\ TableTypes'
  BY Untouched DEF PrepareSend, tables
<1>8. GhostTypes'
  BY <1>0, <1>3 DEF PrepareSend, GhostTypes, Handing
<1> QED
  BY <1>1, <1>3, <1>4, <1>5, <1>6, <1>7, <1>8

LEMMA PressTypes ==
  ASSUME Base, Send \/ OpenSchedule
  PROVE  TInv'
<1>0. PrepareSend /\ TInv
  BY DEF Send, OpenSchedule, Base
<1>1. /\ Message \in Captured /\ Message.n = pressed + 1 /\ pressed + 1 \in Sends
      /\ ScreenTypes' /\ TimerTypes' /\ TableTypes' /\ GhostTypes' /\ LeftTypes' /\ DraftTypes'
  BY <1>0, PrepareTypes
<1>2. Message # NoSend /\ SenderTypes /\ ScreenTypes /\ JobTypes
  BY <1>0, <1>1, Something, Parts
<1>3. FlagTypes'
  BY <1>0, Untouched DEF PrepareSend, start, tables
<1>4. hold = NoHold
  BY <1>0 DEF PrepareSend, Base, Locks, LockedForSend
<1>5. SenderTypes' /\ JobTypes'
  <2>1. CASE OpenSchedule
    <3>1. SenderTypes'
      BY <1>1, <1>2, <1>4, <2>1 DEF OpenSchedule, SenderTypes
    <3> QED
      BY <1>0, <2>1, <3>1, Untouched DEF OpenSchedule
  <2>2. CASE Send /\ Deliver(Message) /\ UNCHANGED <<hold, ticks>>
    <3>1. /\ JobTypes' /\ pending' \in Captured \cup {NoSend} /\ sending' \in BOOLEAN
          /\ modal' \in {"none", "offline", "schedule"} /\ (modal' # "none" => pending' # NoSend)
      BY <1>0, <1>1, <2>2, DeliverTypes
    <3> QED
      BY <1>2, <1>4, <2>2, <3>1 DEF SenderTypes
  <2>3. CASE Send /\ pending' = Message /\ sending' = TRUE
             /\ hold' = [n |-> pressed + 1, retry |-> retry]
             /\ ticks' = ticks \cup {pressed + 1}
             /\ UNCHANGED <<modal, jobs>>
    <3>1. hold' \in Hold /\ hold'.n = pressed + 1
      BY <1>1, <1>2, <2>3 DEF Hold, ScreenTypes
    <3>2. SenderTypes'
      BY <1>1, <1>2, <2>3, <3>1 DEF SenderTypes
    <3> QED
      BY <1>0, <2>3, <3>2, Untouched
  <2> QED
    BY <2>1, <2>2, <2>3 DEF Send
<1> QED
  BY <1>1, <1>3, <1>5, PartsNext

LEMMA AnswerTypes ==
  ASSUME Base, (\E n \in ticks : HoldTick(n)) \/ SendNow \/ CancelHold \/ AnswerPrompt
  PROVE  TInv'
<1>0. TInv /\ SenderTypes /\ ScreenTypes /\ GhostTypes /\ JobTypes
  BY Parts DEF Base
<1>1. ASSUME hold # NoHold, ReleaseHold, ticks' \subseteq Sends PROVE SenderTypes' /\ JobTypes'
  <2>1. pending \in Captured /\ Deliver(pending) /\ hold' = NoHold
    BY <1>0, <1>1 DEF ReleaseHold, SenderTypes
  <2>2. /\ JobTypes' /\ pending' \in Captured \cup {NoSend} /\ sending' \in BOOLEAN
        /\ modal' \in {"none", "offline", "schedule"} /\ (modal' # "none" => pending' # NoSend)
    BY <1>0, <2>1, DeliverTypes
  <2> QED
    BY <1>1, <2>1, <2>2 DEF SenderTypes
<1>2. ASSUME NEW n \in ticks, HoldTick(n) PROVE TInv'
  <2>1. n \in Sends /\ ticks' \subseteq Sends
    BY <1>0, <1>2 DEF HoldTick, SenderTypes
  <2>2. CASE hold.n = n /\ ReleaseHold
    <3>1. hold # NoHold
      BY <2>1, <2>2, Something DEF NoHold
    <3>2. SenderTypes' /\ JobTypes'
      BY <1>1, <2>1, <2>2, <3>1
    <3> QED
      BY <1>0, <1>2, <3>2, Untouched, PartsNext DEF HoldTick, start, tables, ghosts
  <2>3. CASE UNCHANGED <<pending, hold, sending, modal, jobs>>
    <3>1. SenderTypes'
      BY <1>0, <2>1, <2>3 DEF SenderTypes
    <3> QED
      BY <1>0, <1>2, <2>3, <3>1, Untouched, PartsNext DEF HoldTick, start, tables, ghosts
  <2> QED
    BY <1>2, <2>2, <2>3 DEF HoldTick
<1>3. CASE SendNow
  <2>1. SenderTypes' /\ JobTypes'
    BY <1>0, <1>1, <1>3 DEF SendNow, SenderTypes
  <2> QED
    BY <1>0, <1>3, <2>1, Untouched, PartsNext DEF SendNow, start, tables, ghosts
<1>4. CASE CancelHold
  <2>1. hold \in Hold /\ hold.n \in Sends /\ hold.retry \in Sends \cup {None}
    BY <1>0, <1>4 DEF CancelHold, SenderTypes, Hold
  <2>2. modal = "none"
    BY <1>4 DEF CancelHold, Keyboard
  <2>3. SenderTypes' /\ ScreenTypes' /\ GhostTypes'
    BY <1>0, <1>4, <2>1, <2>2 DEF CancelHold, SenderTypes, ScreenTypes, GhostTypes, Handing
  <2> QED
    BY <1>0, <1>4, <2>3, Untouched, PartsNext DEF CancelHold, start, tables, work
<1>5. CASE AnswerPrompt
  <2>1. pending \in Captured /\ pending.n \in Sends /\ hold = NoHold
    BY <1>0, <1>5 DEF AnswerPrompt, SenderTypes, Captured, Base, Locks, LockedForSend
  <2>2. GhostTypes'
    BY <1>0, <1>5, <2>1 DEF AnswerPrompt, GhostTypes, Handing
  <2>3. hold' = NoHold /\ ticks' = ticks
    BY <1>5, <2>1 DEF AnswerPrompt
  <2>4. SenderTypes' /\ JobTypes'
    <3>1. CASE Deliver(pending)
      <4>1. /\ JobTypes' /\ pending' \in Captured \cup {NoSend} /\ sending' \in BOOLEAN
            /\ modal' \in {"none", "offline", "schedule"} /\ (modal' # "none" => pending' # NoSend)
        BY <1>0, <2>1, <3>1, DeliverTypes
      <4> QED
        BY <1>0, <2>3, <4>1 DEF SenderTypes
    <3>2. CASE /\ StartJob(IF modal = "offline" THEN "queue" ELSE "schedule", "file", pending)
               /\ pending' = NoSend /\ modal' = "none" /\ sending' = sending
      <4>1. JobTypes'
        BY <1>0, <2>1, <3>2, StartedType
      <4> QED
        BY <1>0, <2>3, <3>2, <4>1 DEF SenderTypes
    <3>3. CASE /\ modal' = "none" /\ pending' \in {NoSend, pending}
               /\ UNCHANGED <<sending, jobs>>
      <4>1. SenderTypes'
        BY <1>0, <2>3, <3>3 DEF SenderTypes
      <4> QED
        BY <1>0, <3>3, <4>1, Untouched
    <3> QED
      BY <1>5, <3>1, <3>2, <3>3 DEF AnswerPrompt
  <2> QED
    BY <1>0, <1>5, <2>2, <2>4, Untouched, PartsNext DEF AnswerPrompt, start, tables
<1> QED
  BY <1>2, <1>3, <1>4, <1>5

\* The statements about the tables.
LEMMA TableOps ==
  ASSUME TInv
  PROVE  /\ \A c \in Captured, status \in RowStates :
              MergeMessage(c, status) =>
                /\ rows' \in [Sends -> Row]
                /\ inDb' \subseteq {"local", "thread"} /\ stored' \in [Keys -> Draft]
         /\ \A i \in Sends, status \in RowStates : MessageStatus(i, status) \in [Sends -> Row]
         /\ \A k : UpsertThread(k) =>
              inDb' \subseteq {"local", "thread"} /\ stored' \in [Keys -> Draft]
         /\ Recovered \in [Sends -> Row]
<1>0. DraftTypes /\ TableTypes /\ FlagTypes
  BY Parts
<1>1. \A k : UpsertThread(k) =>
        inDb' \subseteq {"local", "thread"} /\ stored' \in [Keys -> Draft]
  BY <1>0 DEF UpsertThread, FlagTypes, DraftTypes, Keys
<1>2. \A c \in Captured, status \in RowStates : MergeMessage(c, status) => rows' \in [Sends -> Row]
  <2>1. ASSUME NEW c \in Captured, NEW status \in RowStates
        PROVE  c.id \in Sends /\ [status |-> status, to |-> To(c.key), body |-> c.body] \in Row
    BY DEF Captured, To, Row
  <2> QED
    BY <1>0, <2>1 DEF MergeMessage, TableTypes
<1>3. ASSUME NEW i \in Sends, NEW status \in RowStates, rows[i].status # "none"
      PROVE  [rows[i] EXCEPT !.status = status] \in Row
  <2>1. rows[i] \in [status : RowStates, to : Others \cup {"person"}, body : Texts]
    BY <1>0, <1>3 DEF TableTypes, Row, NoRow
  <2> QED
    BY <2>1 DEF Row
<1>4. \A i \in Sends, status \in RowStates : MessageStatus(i, status) \in [Sends -> Row]
  BY <1>0, <1>3 DEF MessageStatus, TableTypes
<1>5. Recovered \in [Sends -> Row]
  BY <1>0, <1>3 DEF Recovered, TableTypes, RowStates
<1> QED
  BY <1>1, <1>2, <1>4, <1>5 DEF MergeMessage

\* A goroutine of a send takes a step.
LEMMA JobActs ==
  ASSUME TInv, NEW j \in jobs,
         \/ SaveBeforeSend(j) \/ File(j) \/ MergeRow(j) \/ MarkSending(j) \/ CallPhone(j)
         \/ PhoneAnswers(j) \/ SetOutcome(j) \/ RemoveEntry(j) \/ EraseRow(j)
         \/ StatementFails(j),
         UNCHANGED pressed
  PROVE  /\ stored' \in [Keys -> Draft] /\ inDb' \subseteq {"local", "thread"}
         /\ TableTypes' /\ went' \subseteq Handing /\ LeftTypes' /\ JobTypes'
<1>0. /\ DraftTypes /\ FlagTypes /\ TableTypes /\ GhostTypes /\ LeftTypes /\ JobTypes
      /\ j \in Job /\ JobShape(j)
  BY Parts DEF JobTypes
<1>1. /\ j.captured \in Captured /\ j.captured.id \in Sends /\ j.captured.key \in Keys
      /\ [body |-> j.captured.body, rev |-> j.captured.rev] \in Draft
  BY <1>0 DEF Job, Captured, Draft, Bodies
<1>2. /\ UNCHANGED tables => stored' \in [Keys -> Draft] /\ inDb' \subseteq {"local", "thread"} /\ TableTypes'
      /\ UNCHANGED went => went' \subseteq Handing
      /\ UNCHANGED left => LeftTypes'
      /\ UNCHANGED stored => stored' \in [Keys -> Draft]
      /\ UNCHANGED inDb => inDb' \subseteq {"local", "thread"}
      /\ UNCHANGED <<rows, filed>> => TableTypes'
  BY <1>0 DEF tables, DraftTypes, FlagTypes, TableTypes, GhostTypes, LeftTypes
<1>3. ASSUME NEW step \in Steps, Step(j, step), JobShape([j EXCEPT !.step = step]) PROVE JobTypes'
  <2>1. [j EXCEPT !.step = step] \in Job
    BY <1>0 DEF Job
  <2> QED
    BY <1>0, <1>3, <2>1, MovedType DEF Step
<1>4. ASSUME Failed(j) PROVE JobTypes'
  <2>1. [j EXCEPT !.step = "done", !.ok = FALSE] \in Job
        /\ [j EXCEPT !.step = "done", !.ok = FALSE].step = "done"
    BY <1>0, JobMoved DEF Steps
  <2>2. JobShape([j EXCEPT !.step = "done", !.ok = FALSE])
    BY <2>1 DEF JobShape
  <2> QED
    BY <1>0, <1>4, <2>1, <2>2, MovedType DEF Failed
<1>5. \A step \in Steps : /\ [j EXCEPT !.step = step].kind = j.kind
                          /\ [j EXCEPT !.step = step].step = step
  BY <1>0 DEF Job
<1>6. CASE SaveBeforeSend(j)
  <2>1. JobTypes'
    BY <1>0, <1>3, <1>5, <1>6 DEF SaveBeforeSend, JobShape, Steps
  <2>2. stored' \in [Keys -> Draft]
    BY <1>0, <1>1, <1>6, DraftOps DEF SaveBeforeSend
  <2> QED
    BY <1>2, <1>6, <2>1, <2>2 DEF SaveBeforeSend
<1>7. CASE File(j)
  <2>1. j.kind \in {"queue", "schedule"}
    BY <1>0, <1>7 DEF File, JobShape
  <2>2. JobTypes'
    BY <1>3, <1>4, <1>5, <1>7, <2>1 DEF File, JobShape, Steps
  <2>3. Gone(j) \in Handing
    BY <1>0, <2>1, GoneType
  <2>4. [table |-> j.kind, id |-> j.captured.id, to |-> To(j.captured.key), body |-> j.captured.body] \in Filed
    BY <1>1, <2>1 DEF Filed, To, Captured
  <2>5. TableTypes' /\ went' \subseteq Handing
    BY <1>0, <1>7, <2>3, <2>4 DEF File, TableTypes, GhostTypes
  <2> QED
    BY <1>2, <1>7, <2>2, <2>5 DEF File
<1>8. CASE MergeRow(j)
  <2>1. j.kind \in {"send", "queue", "schedule"}
    BY <1>0, <1>8 DEF MergeRow, JobShape, Job
  <2>2. JobTypes'
    BY <1>3, <1>5, <1>8, <2>1 DEF MergeRow, JobShape, Steps
  <2>3. \E status \in RowStates : MergeMessage(j.captured, status)
    BY <1>8, <2>1 DEF MergeRow, RowStates
  <2>4. /\ rows' \in [Sends -> Row]
        /\ inDb' \subseteq {"local", "thread"} /\ stored' \in [Keys -> Draft]
    BY <1>1, <2>3, TableOps
  <2> QED
    BY <1>0, <1>2, <1>8, <2>2, <2>4 DEF MergeRow, TableTypes
<1>9. CASE MarkSending(j) \/ SetOutcome(j)
  <2>1. j.kind = "send"
    BY <1>0, <1>9 DEF MarkSending, SetOutcome, JobShape
  <2>2. JobTypes'
    BY <1>3, <1>5, <1>9, <2>1 DEF MarkSending, SetOutcome, JobShape, Steps
  <2>3. rows' \in [Sends -> Row]
    BY <1>1, <1>9, TableOps DEF MarkSending, SetOutcome, RowStates
  <2> QED
    BY <1>0, <1>2, <1>9, <2>2, <2>3 DEF MarkSending, SetOutcome, TableTypes
<1>10. CASE CallPhone(j)
  <2>1. JobTypes'
    BY <1>0, <1>3, <1>5, <1>10 DEF CallPhone, JobShape, Steps
  <2> QED
    BY <1>2, <1>10, <2>1 DEF CallPhone
<1>11. CASE PhoneAnswers(j)
  <2>0. j.kind = "send" /\ j.step = "call"
    BY <1>0, <1>11 DEF PhoneAnswers, JobShape
  <2>1. PICK ok \in BOOLEAN : jobs' = (jobs \ {j}) \cup {[j EXCEPT !.step = "status", !.ok = ok]}
    BY <1>11 DEF PhoneAnswers
  <2>2. /\ [j EXCEPT !.step = "status", !.ok = ok] \in Job
        /\ [j EXCEPT !.step = "status", !.ok = ok].kind = j.kind
        /\ [j EXCEPT !.step = "status", !.ok = ok].step = "status"
    BY <1>0 DEF Job, Steps
  <2>3. JobShape([j EXCEPT !.step = "status", !.ok = ok])
    BY <2>0, <2>2 DEF JobShape
  <2>4. JobTypes'
    BY <1>0, <2>1, <2>2, <2>3, MovedType
  <2>5. went' \in {went, went \cup {Gone(j)}}
    BY <1>11 DEF PhoneAnswers
  <2>6. went' \subseteq Handing
    BY <1>0, <2>0, <2>5, GoneType DEF GhostTypes
  <2>7. Spend("trouble") \/ UNCHANGED left
    BY <1>11 DEF PhoneAnswers
  <2>8. LeftTypes'
    BY <1>2, <2>7, SpendType DEF Events
  <2> QED
    BY <1>2, <1>11, <2>4, <2>6, <2>8 DEF PhoneAnswers
<1>12. CASE RemoveEntry(j) \/ EraseRow(j)
  <2>1. j.kind = "edit"
    BY <1>0, <1>12 DEF RemoveEntry, EraseRow, JobShape
  <2>2. JobTypes'
    BY <1>3, <1>5, <1>12, <2>1 DEF RemoveEntry, EraseRow, JobShape, Steps
  <2>3. NoRow \in Row
    BY DEF Row
  <2>4. TableTypes'
    BY <1>0, <1>12, <2>3 DEF RemoveEntry, EraseRow, TableTypes
  <2> QED
    BY <1>2, <1>12, <2>2, <2>4 DEF RemoveEntry, EraseRow
<1>13. CASE StatementFails(j)
  <2>1. LeftTypes'
    BY <1>13, SpendType DEF StatementFails, Events
  <2> QED
    BY <1>2, <1>4, <1>13, <2>1 DEF StatementFails
<1> QED
  BY <1>6, <1>7, <1>8, <1>9, <1>10, <1>11, <1>12, <1>13

LEMMA JobStepTypes ==
  ASSUME TInv, JobStep \/ JobFails
  PROVE  TInv'
<1>1. Beside
  BY DEF JobStep, JobFails
<1>2. /\ stored' \in [Keys -> Draft] /\ inDb' \subseteq {"local", "thread"}
      /\ TableTypes' /\ went' \subseteq Handing /\ LeftTypes' /\ JobTypes'
  BY <1>1, JobActs DEF JobStep, JobFails, Beside
<1>3. DraftTypes' /\ FlagTypes' /\ GhostTypes'
  BY <1>1, <1>2, Parts DEF Beside, start, DraftTypes, FlagTypes, GhostTypes
<1>4. ScreenTypes' /\ SenderTypes' /\ TimerTypes'
  BY <1>1, Untouched DEF Beside, screen
<1> QED
  BY <1>2, <1>3, <1>4, PartsNext

LEMMA AnsweredTypes ==
  ASSUME Base, \E j \in jobs : SendEnded(j) \/ EntryLoaded(j)
  PROVE  TInv'
<1>0. TInv /\ DraftTypes /\ ScreenTypes /\ SenderTypes /\ TimerTypes /\ JobTypes
  BY Parts DEF Base
<1>1. PICK j \in jobs : SendEnded(j) \/ EntryLoaded(j)
  OBVIOUS
<1>2. j \in Job /\ j.captured \in Captured /\ j.captured.key \in Keys
      /\ j.captured.body \in Bodies /\ j.captured.rev + 1 \in Nat
  BY <1>0 DEF JobTypes, Job, Captured, Bodies
<1>3. JobTypes'
  BY <1>0, <1>1 DEF SendEnded, EntryLoaded, JobTypes
<1>4. CASE SendEnded(j)
  <2>1. [body |-> Empty, rev |-> j.captured.rev + 1] \in Draft
    BY <1>2 DEF Draft, Bodies
  <2>2. DraftTypes' /\ TimerTypes' /\ ScreenTypes'
    BY <1>0, <1>2, <1>4, <2>1 DEF SendEnded, DraftTypes, TimerTypes, ScreenTypes, ClearedEditor,
                                   Bodies, tables
  <2>3. SenderTypes'
    BY <1>0, <1>4 DEF SendEnded, SenderTypes, Unlock
  <2> QED
    BY <1>0, <1>3, <1>4, <2>2, <2>3, Untouched, PartsNext DEF SendEnded, start, tables, ghosts
<1>5. CASE EntryLoaded(j)
  <2>1. "number" \in Keys
    BY DEF Keys
  <2>2. Tracked("number", j.captured.body) \in [Keys -> Draft]
    BY <1>0, <1>2, <2>1, DraftOps
  <2>5. DraftTypes'
    BY <1>0, <1>5, <2>2 DEF EntryLoaded, DraftTypes, tables
  <2>3. ScreenTypes'
    BY <1>0, <1>2, <1>5, <2>1 DEF EntryLoaded, ScreenTypes
  <2>4. SenderTypes'
    BY <1>0, <1>5 DEF EntryLoaded, SenderTypes, sender
  <2> QED
    BY <1>0, <1>3, <1>5, <2>3, <2>4, <2>5, Untouched, PartsNext DEF EntryLoaded, start, tables, ghosts
<1> QED
  BY <1>1, <1>4, <1>5

LEMMA OutsideTypes ==
  ASSUME TInv,
         \/ \E t \in timers : Debounce(t)
         \/ \E s \in saves : SaveDone(s)
         \/ \E f \in filed : EditEntry(f)
         \/ SyncThread \/ LoadCache \/ Start \/ LoadDrafts \/ Stop \/ OpenElsewhere
  PROVE  TInv'
<1>0. /\ DraftTypes /\ ScreenTypes /\ SenderTypes /\ FlagTypes
      /\ TimerTypes /\ JobTypes /\ TableTypes /\ GhostTypes /\ LeftTypes
  BY Parts
<1>1. ASSUME NEW t \in timers, Debounce(t) PROVE TInv'
  <2>1. TimerTypes'
    BY <1>0, <1>1 DEF Debounce, TimerTypes, DraftTypes
  <2> QED
    BY <1>1, <2>1, Untouched, PartsNext DEF Debounce, screen, start, tables, ghosts
<1>2. ASSUME NEW s \in saves, SaveDone(s) PROVE TInv'
  <2>1. TimerTypes'
    BY <1>0, <1>2 DEF SaveDone, TimerTypes
  <2>2. DraftTypes'
    BY <1>0, <1>2, DraftOps DEF SaveDone, TimerTypes, DraftTypes
  <2>3. LeftTypes'
    BY <1>2, SpendType, Untouched DEF SaveDone, ghosts, Events
  <2> QED
    BY <1>2, <2>1, <2>2, <2>3, Untouched, PartsNext DEF SaveDone, screen, start, ghosts
<1>3. ASSUME NEW f \in filed, EditEntry(f) PROVE TInv'
  <2>1. [n |-> f.id, id |-> f.id, key |-> "number", body |-> f.body, rev |-> 0] \in Captured
    BY <1>0 DEF TableTypes, Filed, Captured, Keys
  <2>2. JobTypes'
    BY <1>0, <1>3, <2>1, StartedType DEF EditEntry
  <2>3. LeftTypes'
    BY <1>3, SpendType DEF EditEntry, ghosts, Events
  <2> QED
    BY <1>3, <2>2, <2>3, Untouched, PartsNext DEF EditEntry, screen, start, tables, ghosts
<1>4. CASE SyncThread
  <2>1. DraftTypes' /\ FlagTypes'
    BY <1>0, <1>4, TableOps DEF SyncThread, DraftTypes, FlagTypes, start
  <2> QED
    BY <1>4, <2>1, Untouched, PartsNext DEF SyncThread, screen, work, ghosts
<1>5. CASE LoadCache
  <2>1. "thread" \in Keys /\ "local" \in Keys /\ Others \cup inDb \subseteq Keys
    BY <1>0 DEF Keys, FlagTypes
  <2>2. FlagTypes'
    BY <1>0, <1>5 DEF LoadCache, FlagTypes, tables
  <2>3. DraftTypes' /\ ScreenTypes'
    <3>1. CASE opening
      <4>1. PICK k \in Keys : Opened(k)
        BY <1>5, <2>1, <3>1 DEF LoadCache
      <4>2. DraftTypes'
        BY <1>0, <1>5, <4>1, DraftOps DEF LoadCache, Opened, DraftTypes, tables
      <4> QED
        BY <1>0, <1>5, <4>1, <4>2 DEF LoadCache, Opened, DraftTypes, Draft, ScreenTypes
    <3>2. CASE ~opening
      BY <1>0, <1>5, <2>1, <3>2 DEF LoadCache, DraftTypes, ScreenTypes, tables
    <3> QED
      BY <3>1, <3>2
  <2> QED
    BY <1>5, <2>2, <2>3, Untouched, PartsNext DEF LoadCache, work, tables, ghosts
<1>6. CASE Start
  <2>1. TableTypes' /\ FlagTypes'
    BY <1>0, <1>6, TableOps, ComposeAssumption DEF Start, TableTypes, FlagTypes
  <2> QED
    BY <1>6, <2>1, Untouched, PartsNext DEF Start, screen, work, ghosts
<1>7. CASE LoadDrafts
  <2>1. DraftTypes' /\ FlagTypes'
    BY <1>0, <1>7 DEF LoadDrafts, DraftTypes, FlagTypes, tables
  <2> QED
    BY <1>7, <2>1, Untouched, PartsNext DEF LoadDrafts, screen, work, tables, ghosts
<1>8. CASE Stop
  <2>1. stored' \in [Keys -> Draft]
    <3>1. \A k \in Keys : SaveDraft(k, drafts[k]) \in [Keys -> Draft]
      BY <1>0, DraftOps DEF DraftTypes
    <3> QED
      BY <1>0, <1>8, <3>1 DEF Stop, DraftTypes
  <2>2. NoDraft \in Draft
    BY DEF NoDraft, Draft, Bodies
  <2>3. DraftTypes' /\ ScreenTypes' /\ SenderTypes'
    BY <1>8, <2>1, <2>2 DEF Stop, DraftTypes, ScreenTypes, SenderTypes, Bodies
  <2>4. FlagTypes' /\ TimerTypes' /\ JobTypes'
    BY <1>0, <1>8 DEF Stop, FlagTypes, TimerTypes, JobTypes
  <2>5. LeftTypes'
    BY <1>8, SpendType DEF Stop, Events, ghosts
  <2> QED
    BY <1>8, <2>3, <2>4, <2>5, Untouched, PartsNext DEF Stop, ghosts
<1>9. CASE OpenElsewhere
  <2>1. TableTypes'
    BY <1>0, <1>9, TableOps DEF OpenElsewhere, TableTypes
  <2>2. LeftTypes'
    BY <1>9, SpendType DEF OpenElsewhere, Events, ghosts
  <2> QED
    BY <1>9, <2>1, <2>2, Untouched, PartsNext DEF OpenElsewhere, screen, work, start, ghosts
<1> QED
  BY <1>1, <1>2, <1>3, <1>4, <1>5, <1>6, <1>7, <1>8, <1>9

LEMMA TypeStep == Base /\ [Next]_vars => TInv'
<1> SUFFICES ASSUME Base, [Next]_vars PROVE TInv'
  OBVIOUS
<1>1. CASE UNCHANGED vars
  BY <1>1, Untouched, PartsNext DEF Base, vars, screen, sender, work, start, tables, ghosts
<1>2. CASE User
  BY <1>2, TypingTypes, PressTypes, AnswerTypes, OutsideTypes DEF User, Base
<1>3. ASSUME Next, ~User PROVE TInv'
  BY <1>3, AnswerTypes, JobStepTypes, AnsweredTypes, OutsideTypes DEF Next, Base
<1> QED
  BY <1>1, <1>2, <1>3

-----------------------------------------------------------------------------
(* One step of a goroutine, and the lock of the composer. *)

\* Job j becomes k, and with that `went` becomes more.
Advance(j, k, more) ==
  /\ k.kind = j.kind /\ k.captured = j.captured
  /\ \/ k.step = "done" /\ ~k.ok /\ more = went
     \/ <<j.step, k.step>> \in {<<"save", "merge">>, <<"mark", "stored">>, <<"stored", "call">>,
                                <<"remove", "erase">>}
        /\ more = went
     \/ j.step = "file" /\ k.step = "merge" /\ more = went \cup {Gone(j)}
     \/ j.step = "merge" /\ j.kind = "send" /\ k.step = "mark" /\ more = went
     \/ j.step = "merge" /\ j.kind # "send" /\ k.step = "done" /\ k.ok = j.ok /\ more = went
     \/ j.step = "call" /\ k.step = "status"
        /\ (more = went \cup {Gone(j)} \/ (~k.ok /\ more = went))
     \/ j.step \in {"status", "erase"} /\ k.step = "done" /\ k.ok = j.ok /\ more = went

LEMMA Advances ==
  ASSUME TInv, NEW j \in jobs,
         \/ SaveBeforeSend(j) \/ File(j) \/ MergeRow(j) \/ MarkSending(j) \/ CallPhone(j)
         \/ PhoneAnswers(j) \/ SetOutcome(j) \/ RemoveEntry(j) \/ EraseRow(j)
         \/ StatementFails(j)
  PROVE  \E k \in Job : jobs' = (jobs \ {j}) \cup {k} /\ Advance(j, k, went')
<1> DEFINE Goal == \E k \in Job : jobs' = (jobs \ {j}) \cup {k} /\ Advance(j, k, went')
<1>0. j \in Job
  BY Parts DEF JobTypes
<1>1. ASSUME NEW step \in Steps, Step(j, step)
      PROVE  \E k \in Job : /\ jobs' = (jobs \ {j}) \cup {k} /\ k.step = step /\ k.kind = j.kind
                            /\ k.ok = j.ok /\ k.captured = j.captured
  <2> DEFINE k == [j EXCEPT !.step = step]
  <2>1. k \in Job /\ k.step = step /\ k.kind = j.kind /\ k.ok = j.ok /\ k.captured = j.captured
    BY <1>0 DEF Job
  <2> QED
    BY <1>1, <2>1 DEF Step
<1>2. ASSUME Failed(j), went' = went PROVE Goal
  <2> DEFINE k == [j EXCEPT !.step = "done", !.ok = FALSE]
  <2>1. k \in Job /\ k.step = "done" /\ k.kind = j.kind /\ ~k.ok /\ k.captured = j.captured
    BY <1>0 DEF Job, Steps
  <2> QED
    BY <1>2, <2>1 DEF Failed, Advance
<1>3. CASE SaveBeforeSend(j) \/ MarkSending(j) \/ CallPhone(j) \/ RemoveEntry(j)
  <2>1. \E step \in {"merge", "stored", "call", "erase"} :
          /\ Step(j, step) /\ went' = went
          /\ <<j.step, step>> \in {<<"save", "merge">>, <<"mark", "stored">>, <<"stored", "call">>,
                                   <<"remove", "erase">>}
    BY <1>3 DEF SaveBeforeSend, MarkSending, CallPhone, RemoveEntry
  <2> QED
    BY <1>1, <2>1 DEF Advance, Steps
<1>4. CASE MergeRow(j) \/ SetOutcome(j) \/ EraseRow(j)
  <2>1. \E step \in {"mark", "done"} :
          /\ Step(j, step) /\ went' = went
          /\ \/ j.step = "merge" /\ (j.kind = "send" <=> step = "mark")
             \/ j.step \in {"status", "erase"} /\ step = "done"
    BY <1>4 DEF MergeRow, SetOutcome, EraseRow
  <2> QED
    BY <1>1, <2>1 DEF Advance, Steps
<1>5. CASE File(j)
  <2>1. Failed(j) /\ went' = went => Goal
    BY <1>2
  <2>2. Step(j, "merge") /\ went' = went \cup {Gone(j)} => Goal
    BY <1>1, <1>5 DEF File, Advance, Steps
  <2> QED
    BY <1>5, <2>1, <2>2 DEF File
<1>6. CASE PhoneAnswers(j)
  <2>1. PICK ok \in BOOLEAN :
          /\ went' = went \cup {Gone(j)} \/ (~ok /\ went' = went)
          /\ jobs' = (jobs \ {j}) \cup {[j EXCEPT !.step = "status", !.ok = ok]}
    BY <1>6 DEF PhoneAnswers
  <2> DEFINE k == [j EXCEPT !.step = "status", !.ok = ok]
  <2>2. k \in Job /\ k.step = "status" /\ k.kind = j.kind /\ k.ok = ok /\ k.captured = j.captured
    BY <1>0 DEF Job, Steps
  <2> QED
    BY <1>6, <2>1, <2>2 DEF PhoneAnswers, Advance
<1>7. CASE StatementFails(j)
  BY <1>2, <1>7 DEF StatementFails
<1> QED
  BY <1>3, <1>4, <1>5, <1>6, <1>7

LEMMA JobMoves ==
  ASSUME TInv, JobStep \/ JobFails
  PROVE  /\ Beside
         /\ \E j \in jobs, k \in Job : jobs' = (jobs \ {j}) \cup {k} /\ Advance(j, k, went')
BY Advances DEF JobStep, JobFails

LEMMA LockInit == Init => Locks
BY DEF Init, Fresh, Locks, LockedForSend

\* The actions that leave the lock, the window and the jobs alone.
LEMMA LockStill ==
  ASSUME TInv,
         \/ \E t \in Bodies : Type(t)
         \/ \E t \in Texts : Quote(t)
         \/ \E i \in Sends : PressRetry(i)
         \/ \E k \in Keys : OpenThread(k)
         \/ Choose
         \/ \E t \in timers : Debounce(t)
         \/ \E s \in saves : SaveDone(s)
         \/ SyncThread \/ LoadCache \/ Start \/ LoadDrafts \/ OpenElsewhere
         \/ UNCHANGED vars
  PROVE  UNCHANGED <<sending, hold, modal, pending, jobs, ghosts, filed>>
BY DEF Type, Quote, PressRetry, OpenThread, Choose, Debounce, SaveDone, SyncThread, LoadCache,
       Start, LoadDrafts, OpenElsewhere, vars, screen, sender, work, start, tables, ghosts

LEMMA LockStep == Base /\ [Next]_vars => Locks'
<1> SUFFICES ASSUME Base, [Next]_vars PROVE Locks'
  OBVIOUS
<1>0. TInv /\ Locks /\ SenderTypes /\ JobTypes
  BY Parts DEF Base
<1>1. ASSUME UNCHANGED <<sending, hold, modal, pending, jobs, ghosts, filed>> PROVE Locks'
  BY <1>0, <1>1 DEF Locks, LockedForSend
<1>2. ASSUME NEW c, ~sending \/ hold # NoHold, hold' = NoHold, Deliver(c) PROVE Locks'
  <2>1. \A j \in jobs : j.kind # "send"
    BY <1>0, <1>2 DEF Locks, LockedForSend
  <2>2. CASE StartJob("send", "save", c) /\ sending' = TRUE /\ modal' = "none"
    <3>1. PICK k : jobs' = jobs \cup {k} /\ k.kind = "send"
      BY <2>2, StartedJob
    <3> QED
      BY <1>2, <2>1, <2>2, <3>1 DEF Locks, LockedForSend
  <2>3. CASE sending' = FALSE /\ UNCHANGED jobs
    BY <1>2, <2>1, <2>3 DEF Locks, LockedForSend
  <2> QED
    BY <1>2, <2>2, <2>3 DEF Deliver
<1>3. CASE Send \/ OpenSchedule
  <2>1. ~sending /\ hold = NoHold /\ modal = "none"
    BY <1>0, <1>3 DEF Send, OpenSchedule, PrepareSend, Keyboard, Locks, LockedForSend
  <2>2. CASE OpenSchedule
    BY <1>0, <2>1, <2>2 DEF OpenSchedule, Locks, LockedForSend
  <2>3. CASE Deliver(Message) /\ UNCHANGED <<hold, ticks>>
    BY <1>2, <2>1, <2>3
  <2>4. CASE pending' = Message /\ sending' = TRUE
             /\ hold' = [n |-> pressed + 1, retry |-> retry] /\ UNCHANGED <<modal, jobs>>
    <3>1. PrepareSend
      BY <1>3 DEF Send, OpenSchedule
    <3>2. hold' \in Hold
      BY <1>0, <2>4, <3>1, PrepareTypes, Parts DEF Hold, ScreenTypes
    <3>3. hold' # NoHold
      BY <3>2, Something
    <3> QED
      BY <1>0, <2>1, <2>4, <3>3 DEF Locks, LockedForSend
  <2> QED
    BY <1>3, <2>2, <2>3, <2>4 DEF Send
<1>4. ASSUME NEW n \in ticks, HoldTick(n) PROVE Locks'
  <2>1. CASE hold.n = n /\ ReleaseHold
    <3>1. hold # NoHold
      BY <1>0, <2>1, Something DEF NoHold, SenderTypes
    <3> QED
      BY <1>2, <2>1, <3>1 DEF ReleaseHold
  <2>2. CASE UNCHANGED <<pending, hold, sending, modal, jobs>>
    BY <1>0, <2>2 DEF Locks, LockedForSend
  <2> QED
    BY <1>4, <2>1, <2>2 DEF HoldTick
<1>5. CASE SendNow
  BY <1>2, <1>5 DEF SendNow, ReleaseHold
<1>6. CASE CancelHold
  BY <1>0, <1>6 DEF CancelHold, work, Locks, LockedForSend
<1>7. CASE AnswerPrompt
  <2>1. ~sending /\ hold = NoHold /\ hold' = hold
    BY <1>0, <1>7 DEF AnswerPrompt, Locks, LockedForSend
  <2>2. CASE Deliver(pending)
    BY <1>2, <2>1, <2>2
  <2>3. CASE /\ StartJob(IF modal = "offline" THEN "queue" ELSE "schedule", "file", pending)
             /\ modal' = "none" /\ sending' = sending
    BY <1>0, <2>1, <2>3 DEF StartJob, Locks, LockedForSend
  <2>4. CASE modal' = "none" /\ UNCHANGED <<sending, jobs>>
    BY <1>0, <2>1, <2>4 DEF Locks, LockedForSend
  <2> QED
    BY <1>7, <2>2, <2>3, <2>4 DEF AnswerPrompt
<1>8. CASE JobStep \/ JobFails
  <2>1. Beside /\ \E j \in jobs, k \in Job : jobs' = (jobs \ {j}) \cup {k} /\ Advance(j, k, went')
    BY <1>0, <1>8, JobMoves
  <2>2. PICK j \in jobs, k \in Job : jobs' = (jobs \ {j}) \cup {k} /\ k.kind = j.kind
    BY <2>1 DEF Advance
  <2>3. UNCHANGED <<sending, hold, modal>>
    BY <2>1 DEF Beside, screen, sender
  <2>4. /\ (\E i \in jobs' : i.kind = "send") <=> (\E i \in jobs : i.kind = "send")
        /\ \A i, l \in jobs' : i.kind = "send" /\ l.kind = "send" => i = l
    BY <1>0, <2>2 DEF Locks
  <2> QED
    BY <1>0, <2>3, <2>4 DEF Locks, LockedForSend
<1>9. ASSUME NEW j \in jobs, SendEnded(j) PROVE Locks'
  <2>1. CASE j.kind = "send"
    BY <1>0, <1>9, <2>1 DEF SendEnded, Unlock, Locks, LockedForSend
  <2>2. CASE j.kind # "send"
    BY <1>0, <1>9, <2>2 DEF SendEnded, Unlock, Locks, LockedForSend
  <2> QED
    BY <2>1, <2>2
<1>10. ASSUME NEW j \in jobs, EntryLoaded(j) PROVE Locks'
  BY <1>0, <1>10 DEF EntryLoaded, sender, Locks, LockedForSend
<1>11. ASSUME NEW f \in filed, EditEntry(f) PROVE Locks'
  <2>1. UNCHANGED <<sending, hold, modal>>
    BY <1>11 DEF EditEntry, screen, sender
  <2>2. PICK k : jobs' = jobs \cup {k} /\ k.kind = "edit"
    BY <1>11, StartedJob DEF EditEntry
  <2> QED
    BY <1>0, <2>1, <2>2 DEF Locks, LockedForSend
<1>12. CASE Stop
  BY <1>12 DEF Stop, Locks, LockedForSend
<1>13. CASE User
  BY <1>0, <1>1, <1>3, <1>5, <1>6, <1>7, <1>11, <1>13, LockStill DEF User
<1>14. ASSUME Next, ~User PROVE Locks'
  BY <1>0, <1>1, <1>4, <1>8, <1>9, <1>10, <1>12, <1>14, LockStill DEF Next
<1>15. CASE UNCHANGED vars
  BY <1>0, <1>1, <1>15, LockStill
<1> QED
  BY <1>13, <1>14, <1>15

\* The prompts, windows, drafts, jobs and tables keep their types and shapes,
\* and the lock of the composer is right.
THEOREM BaseHolds == Spec => []Base
<1>1. Init => Base
  BY InitTypes, LockInit DEF Base
<1>2. Base /\ [Next]_vars => Base'
  BY TypeStep, LockStep DEF Base
<1> QED
  BY <1>1, <1>2, PTL DEF Spec

\* Every variable of the composer keeps its type: a press has a number of its
\* own, and a prompt or a window a message.
THEOREM ComposerTypes == Spec => []TypeOK
BY BaseHolds, PTL DEF Base, TInv

\* The composer is locked exactly while a window is open or a send goes on, in
\* whatever order windows run out, prompts are answered and sends come back.
THEOREM LockFollowsSend == Spec => []LockedForSend
BY BaseHolds, PTL DEF Base, Locks

-----------------------------------------------------------------------------
(* Where each press of send is: waiting, leaving, or gone. *)

\* A job that will still hand over or file its press.
Leaving(j) ==
  /\ j.kind # "edit"
  /\ \/ j.step \in {"save", "file", "mark", "stored", "call"}
     \/ j.step = "merge" /\ j.kind = "send"

\* Press n is in the undo window or at a prompt.
Held(n) == hold.n = n \/ (modal # "none" /\ pending.n = n)

\* Press n is leaving, or has left.
Out(n) == (\E j \in jobs : Leaving(j) /\ j.captured.n = n) \/ (\E w \in went : w.n = n)

PressInv ==
  /\ \A j, k \in jobs : Leaving(j) /\ Leaving(k) /\ j.captured.n = k.captured.n => j = k
  /\ \A v, w \in went : v.n = w.n => v = w
  /\ \A j \in jobs, w \in went : Leaving(j) => j.captured.n # w.n
  /\ \A n \in Sends : Held(n) => ~Out(n) /\ n \notin undone
  /\ \A n \in undone : ~Out(n)
  /\ \A n \in Sends : n > pressed => ~Out(n) /\ n \notin undone /\ ~Held(n)

LEMMA PressInit == Init => PressInv
BY Something DEF Init, Fresh, PressInv, Out, Held, NoHold, NoSend

\* What waits is one of the presses so far, and has neither left nor been taken back.
LEMMA HeldWaits ==
  ASSUME PressInv, TInv, NEW n \in Sends, Held(n)
  PROVE  ~Out(n) /\ n \notin undone /\ n <= pressed
<1>1. n \in Nat /\ pressed \in Nat
  BY Parts DEF GhostTypes, Sends
<1>2. ~(n > pressed)
  BY DEF PressInv
<1>3. ~Out(n) /\ n \notin undone
  BY DEF PressInv
<1> QED
  BY <1>1, <1>2, <1>3

\* Nothing new leaves, and what is taken back was waiting and is no more.
LEMMA NothingLeaves ==
  ASSUME PressInv, undone \subseteq Sends,
         \A j \in jobs' : Leaving(j) => j \in jobs,
         \A n \in Sends : Held(n)' => Held(n) /\ n \notin undone',
         undone' \subseteq undone \cup {n \in Sends : Held(n)},
         UNCHANGED <<pressed, went>>
  PROVE  PressInv'
BY DEF PressInv, Out, Leaving

\* Press m starts to leave, or to wait.
LEMMA PressLeaves ==
  ASSUME PressInv, TInv, NEW m \in Sends, ~Out(m), m \notin undone,
         pressed' \in Nat, pressed <= pressed', m <= pressed', UNCHANGED <<went, undone>>,
         \/ /\ \A n \in Sends : Held(n)' => n = m
            /\ jobs' = jobs
         \/ /\ \A n \in Sends : ~Held(n)'
            /\ \E k : k.captured.n = m /\ jobs' = jobs \cup {k}
  PROVE  PressInv'
<1>1. pressed \in Nat /\ Sends \subseteq Nat /\ undone \subseteq Sends
  BY Parts DEF GhostTypes, Sends
<1>2. \A n : Out(n)' => Out(n) \/ n = m
  BY DEF Out, Leaving
<1>3. \A n \in Sends : n > pressed' => n > pressed /\ n # m
  BY <1>1
<1>4. \A n \in Sends : Held(n)' => ~Out(n)' /\ n = m
  BY DEF Out, Leaving
<1>5. \A n \in undone' : ~Out(n)'
  BY <1>2 DEF PressInv
<1>6. \A n \in Sends : n > pressed' => ~Out(n)' /\ n \notin undone' /\ ~Held(n)'
  BY <1>2, <1>3, <1>4 DEF PressInv
<1>7. /\ \A j, k \in jobs' : Leaving(j) /\ Leaving(k) /\ j.captured.n = k.captured.n => j = k
      /\ \A j \in jobs', w \in went' : Leaving(j) => j.captured.n # w.n
  BY DEF PressInv, Out, Leaving
<1> QED
  BY <1>4, <1>5, <1>6, <1>7 DEF PressInv, Leaving

\* A step of a job: what leaves was leaving, and is gone or leaving after it.
LEMMA AdvanceLeaves ==
  ASSUME NEW j, NEW k, NEW more, JobShape(j), Advance(j, k, more)
  PROVE  \/ more = went /\ (Leaving(k) => Leaving(j))
         \/ more = went \cup {Gone(j)} /\ Leaving(j) /\ ~Leaving(k)
BY DEF Advance, Leaving, JobShape

LEMMA PressAdvances ==
  ASSUME PressInv, TInv, NEW j \in jobs, NEW k \in Job,
         jobs' = (jobs \ {j}) \cup {k}, Advance(j, k, went'),
         UNCHANGED <<hold, modal, pending, pressed, undone>>
  PROVE  PressInv'
<1>1. JobShape(j) /\ k.captured = j.captured /\ Gone(j).n = j.captured.n
  BY Parts DEF JobTypes, Advance, Gone
<1>2. CASE went' = went /\ (Leaving(k) => Leaving(j))
  BY <1>1, <1>2 DEF PressInv, Out, Leaving, Held
<1>3. CASE went' = went \cup {Gone(j)} /\ Leaving(j) /\ ~Leaving(k)
  <2>1. \A n : Out(n)' <=> Out(n)
    BY <1>1, <1>3 DEF Out, Leaving
  <2>2. \A v, w \in went' : v.n = w.n => v = w
    BY <1>1, <1>3 DEF PressInv
  <2>3. \A i \in jobs' : Leaving(i) => i \in jobs /\ i # j
    BY <1>3
  <2>4. \A i \in jobs', w \in went' : Leaving(i) => i.captured.n # w.n
    BY <1>1, <1>3, <2>3 DEF PressInv
  <2>5. \A i, l \in jobs' : Leaving(i) /\ Leaving(l) /\ i.captured.n = l.captured.n => i = l
    BY <2>3 DEF PressInv
  <2> QED
    BY <2>1, <2>2, <2>4, <2>5 DEF PressInv, Leaving, Held
<1> QED
  BY <1>1, <1>2, <1>3, AdvanceLeaves

LEMMA PressStep == Base /\ PressInv /\ [Next]_vars => PressInv'
<1> SUFFICES ASSUME Base, PressInv, [Next]_vars PROVE PressInv'
  OBVIOUS
<1>0. TInv /\ Locks /\ SenderTypes /\ JobTypes /\ GhostTypes
  BY Parts DEF Base
<1>1. pressed \in Nat /\ Sends \subseteq Nat /\ undone \subseteq Sends
  BY <1>0 DEF GhostTypes, Sends
<1>2. ASSUME UNCHANGED <<sending, hold, modal, pending, jobs, ghosts, filed>> PROVE PressInv'
  BY <1>2 DEF ghosts, PressInv, Out, Held, Leaving
\* The message that waited leaves, or waits on.
<1>3. ASSUME NEW m \in Sends, ~Out(m), m \notin undone, NEW c \in Captured, c.n = m,
             Deliver(c), hold' = NoHold, pressed' \in Nat, pressed <= pressed', m <= pressed',
             UNCHANGED <<went, undone>>
      PROVE  PressInv'
  <2>1. \A n \in Sends : Held(n)' => modal' # "none" /\ pending'.n = n
    BY <1>3, Something DEF Held, NoHold
  <2>2. CASE StartJob("send", "save", c) /\ modal' = "none"
    <3>1. \E k : k.captured.n = m /\ jobs' = jobs \cup {k}
      BY <1>3, <2>2, StartedJob
    <3> QED
      BY <1>0, <1>3, <2>1, <2>2, <3>1, PressLeaves
  <2>3. CASE pending' = c /\ UNCHANGED jobs
    BY <1>0, <1>3, <2>1, <2>3, PressLeaves
  <2> QED
    BY <1>3, <2>2, <2>3 DEF Deliver
<1>4. CASE Send \/ OpenSchedule
  <2>1. PrepareSend
    BY <1>4 DEF Send, OpenSchedule
  <2>2. hold = NoHold
    BY <1>0, <2>1 DEF PrepareSend, Locks, LockedForSend
  <2>3. /\ Message \in Captured /\ Message.n = pressed + 1 /\ pressed + 1 \in Sends
        /\ pressed' = pressed + 1 /\ UNCHANGED <<went, undone>>
    BY <1>0, <2>1, PrepareTypes DEF PrepareSend
  <2>4. ~Out(pressed + 1) /\ pressed + 1 \notin undone
    BY <1>1, <2>3 DEF PressInv
  <2>5. CASE Deliver(Message) /\ UNCHANGED <<hold, ticks>>
    BY <1>1, <1>3, <2>2, <2>3, <2>4, <2>5
  <2>6. CASE pending' = Message /\ UNCHANGED jobs
             /\ hold' \in {NoHold, [n |-> pressed + 1, retry |-> retry]}
    <3>1. \A n \in Sends : Held(n)' => n = pressed + 1
      BY <2>3, <2>6, Something DEF Held, NoHold
    <3> QED
      BY <1>0, <1>1, <2>3, <2>4, <2>6, <3>1, PressLeaves
  <2> QED
    BY <1>4, <2>2, <2>5, <2>6 DEF Send, OpenSchedule
\* The window that is open closes, and its message is delivered.
<1>5. ASSUME hold # NoHold, ReleaseHold, UNCHANGED <<pressed, went, undone>> PROVE PressInv'
  <2>1. pending \in Captured /\ hold.n \in Sends /\ pending.n = hold.n
    BY <1>0, <1>5 DEF SenderTypes, Hold
  <2>2. ~Out(hold.n) /\ hold.n \notin undone /\ hold.n <= pressed
    <3>1. Held(hold.n)
      BY DEF Held
    <3> QED
      BY <1>0, <2>1, <3>1, HeldWaits
  <2>3. pressed' \in Nat /\ pressed <= pressed' /\ hold.n <= pressed'
    BY <1>1, <1>5, <2>2
  <2>4. Deliver(pending) /\ hold' = NoHold
    BY <1>5 DEF ReleaseHold
  <2> QED
    BY <1>3, <1>5, <2>1, <2>2, <2>3, <2>4
<1>6. ASSUME NEW n \in ticks, HoldTick(n) PROVE PressInv'
  <2>1. CASE hold.n = n /\ ReleaseHold
    <3>1. hold # NoHold
      BY <1>0, <2>1, Something DEF NoHold, SenderTypes
    <3> QED
      BY <1>5, <1>6, <2>1, <3>1 DEF HoldTick, ghosts
  <2>2. CASE UNCHANGED <<pending, hold, sending, modal, jobs>>
    BY <1>6, <2>2 DEF HoldTick, ghosts, PressInv, Out, Held, Leaving
  <2> QED
    BY <1>6, <2>1, <2>2 DEF HoldTick
<1>7. CASE SendNow
  BY <1>5, <1>7 DEF SendNow, ghosts
<1>8. CASE CancelHold
  <2>1. hold.n \in Sends /\ Held(hold.n)
    BY <1>0, <1>8 DEF CancelHold, SenderTypes, Hold, Held
  <2>2. \A n \in Sends : ~Held(n)'
    BY <1>8, Something DEF CancelHold, Keyboard, Held, NoHold
  <2> QED
    BY <1>1, <1>8, <2>1, <2>2, NothingLeaves DEF CancelHold, work
<1>9. CASE AnswerPrompt
  <2>1. /\ hold = NoHold /\ hold' = hold
        /\ pending \in Captured /\ pending.n \in Sends /\ Held(pending.n)
        /\ UNCHANGED <<pressed, went>>
    BY <1>0, <1>9 DEF AnswerPrompt, Locks, LockedForSend, SenderTypes, Captured, Held
  <2>2. ~Out(pending.n) /\ pending.n \notin undone /\ pending.n <= pressed
    BY <1>0, <2>1, HeldWaits
  <2>3. pressed' \in Nat /\ pressed <= pressed' /\ pending.n <= pressed'
    BY <1>1, <2>1, <2>2
  <2>4. CASE Deliver(pending) /\ UNCHANGED undone
    BY <1>3, <2>1, <2>2, <2>4, <2>3
  <2>5. CASE /\ StartJob(IF modal = "offline" THEN "queue" ELSE "schedule", "file", pending)
             /\ modal' = "none" /\ UNCHANGED undone
    <3>1. \E k : k.captured.n = pending.n /\ jobs' = jobs \cup {k}
      BY <2>5, StartedJob
    <3>2. \A n \in Sends : ~Held(n)'
      BY <2>1, <2>5, Something DEF Held, NoHold
    <3> QED
      BY <1>0, <2>1, <2>2, <2>5, <2>3, <3>1, <3>2, PressLeaves
  <2>6. CASE modal' = "none" /\ undone' = undone \cup {pending.n} /\ UNCHANGED jobs
    <3>1. \A n \in Sends : ~Held(n)'
      BY <2>1, <2>6, Something DEF Held, NoHold
    <3> QED
      BY <1>1, <2>1, <2>6, <3>1, NothingLeaves
  <2> QED
    BY <1>9, <2>4, <2>5, <2>6 DEF AnswerPrompt
<1>10. CASE JobStep \/ JobFails
  BY <1>0, <1>10, JobMoves, PressAdvances DEF Beside, screen, sender
<1>11. ASSUME NEW j \in jobs, SendEnded(j) \/ EntryLoaded(j) PROVE PressInv'
  <2>1. jobs' \subseteq jobs /\ UNCHANGED <<hold, pending, pressed, went, undone>>
        /\ modal' \in {"none", modal}
    BY <1>11 DEF SendEnded, EntryLoaded, sender, ghosts
  <2>2. \A n \in Sends : Held(n)' => Held(n) /\ n \notin undone'
    BY <2>1 DEF Held, PressInv
  <2> QED
    BY <1>1, <2>1, <2>2, NothingLeaves
<1>12. ASSUME NEW f \in filed, EditEntry(f) PROVE PressInv'
  <2>1. PICK k : jobs' = jobs \cup {k} /\ k.kind = "edit"
    BY <1>12, StartedJob DEF EditEntry
  <2>2. UNCHANGED <<hold, pending, modal, pressed, went, undone>>
    BY <1>12 DEF EditEntry, screen, sender, ghosts
  <2>3. \A j \in jobs' : Leaving(j) => j \in jobs
    BY <2>1 DEF Leaving
  <2>4. \A n \in Sends : Held(n)' => Held(n) /\ n \notin undone'
    BY <2>2 DEF Held, PressInv
  <2> QED
    BY <1>1, <2>2, <2>3, <2>4, NothingLeaves
<1>13. CASE Stop
  <2>1. \A n \in Sends : ~Held(n)'
    BY <1>13, Something DEF Stop, Held, NoHold
  <2> QED
    BY <1>1, <1>13, <2>1, NothingLeaves DEF Stop, ghosts
<1>14. CASE User
  BY <1>0, <1>2, <1>4, <1>7, <1>8, <1>9, <1>12, <1>14, LockStill DEF User
<1>15. ASSUME Next, ~User PROVE PressInv'
  BY <1>0, <1>2, <1>6, <1>10, <1>11, <1>13, <1>15, LockStill DEF Next
<1>16. CASE UNCHANGED vars
  BY <1>0, <1>2, <1>16, LockStill
<1> QED
  BY <1>14, <1>15, <1>16

LEMMA PressHolds == Spec => [](Base /\ PressInv)
<1>1. Base /\ PressInv /\ [Next]_vars => PressInv'
  BY PressStep
<1> QED
  BY <1>1, BaseHolds, PressInit, PTL DEF Spec

\* A set of one element at most.
LEMMA AtMostOne ==
  ASSUME NEW S, \A x, y \in S : x = y
  PROVE  Cardinality(S) \in {0, 1} /\ (Cardinality(S) = 0 <=> S = {})
<1>1. CASE S = {}
  BY <1>1, FS_EmptySet
<1>2. CASE S # {}
  <2>1. PICK x : x \in S
    BY <1>2
  <2>2. S = {x}
    BY <2>1
  <2>3. Cardinality({x}) = 1
    BY FS_Singleton
  <2> QED
    BY <1>2, <2>2, <2>3
<1> QED
  BY <1>1, <1>2

LEMMA OncePressed == TInv /\ PressInv => OncePerPress /\ TakenBackStays
<1> SUFFICES ASSUME TInv, PressInv PROVE OncePerPress /\ TakenBackStays
  OBVIOUS
<1>1. \A n : \A j : j \in Underway(n) <=> j \in jobs /\ Leaving(j) /\ j.captured.n = n
  BY DEF Underway, Leaving
<1>2. OncePerPress
  <2> SUFFICES ASSUME NEW n \in Sends
               PROVE  Cardinality(Underway(n)) + Cardinality({w \in went : w.n = n})
                        + (IF hold.n = n \/ (modal # "none" /\ pending.n = n) THEN 1 ELSE 0) <= 1
    BY DEF OncePerPress
  <2> DEFINE U == Underway(n)
             W == {w \in went : w.n = n}
  <2>1. /\ \A j, k \in U : j = k
        /\ \A v, w \in W : v = w
        /\ U # {} => W = {}
        /\ Held(n) => U = {} /\ W = {}
    BY <1>1 DEF PressInv, Out
  <2> HIDE DEF U, W
  <2>2. /\ Cardinality(U) \in {0, 1} /\ (Cardinality(U) = 0 <=> U = {})
        /\ Cardinality(W) \in {0, 1} /\ (Cardinality(W) = 0 <=> W = {})
    BY <2>1, AtMostOne
  <2>3. Cardinality(U) + Cardinality(W) + (IF Held(n) THEN 1 ELSE 0) <= 1
    BY <2>1, <2>2
  <2> QED
    BY <2>3 DEF U, W, Held
<1>3. TakenBackStays
  <2> SUFFICES ASSUME NEW n \in undone
               PROVE  Underway(n) = {} /\ hold.n # n /\ \A w \in went : w.n # n
    BY DEF TakenBackStays
  <2>1. n \in Sends /\ ~Out(n)
    BY Parts DEF PressInv, GhostTypes
  <2>2. ~Held(n)
    BY <2>1 DEF PressInv
  <2> QED
    BY <1>1, <2>1, <2>2 DEF Out, Held
<1> QED
  BY <1>2, <1>3

\* Each press of send leads to one hand-over or one filing at most, and while
\* its window or prompt is open to none, however windows, prompts, failures and
\* restarts interleave.
THEOREM PressesGoOnce == Spec => []OncePerPress
BY PressHolds, OncePressed, PTL DEF Base

\* A press that was taken back in the undo window or at a prompt never leaves.
THEOREM TakenBackNeverLeaves == Spec => []TakenBackStays
BY PressHolds, OncePressed, PTL DEF Base

-----------------------------------------------------------------------------
(* What left can be seen in the conversation. *)

\* Message i was filed for later at some time.
WasFiled(i) == \E v \in went : v.id = i /\ v.way # "send"

Told(i) == rows[i].status # "none" \/ WasFiled(i)

TraceInv ==
  /\ \A w \in went : w.way = "send" => Told(w.id)
  /\ \A j \in jobs : j.step \in {"mark", "stored", "call", "status"} => Told(j.captured.id)
  /\ \A f \in filed : WasFiled(f.id)
  /\ \A j \in jobs : j.kind = "edit" => WasFiled(j.captured.id)

LEMMA TraceInit == Init => TraceInv
BY DEF Init, Fresh, TraceInv

\* Nothing is forgotten that was told, and no new job needs telling.
LEMMA TraceStill ==
  ASSUME TraceInv, went \subseteq went',
         \A i \in Sends : rows[i].status # "none" => rows'[i].status # "none",
         \A w \in went : w.id \in Sends, \A j \in jobs : j.captured.id \in Sends,
         \A w \in went' \ went : w.way = "send" => Told(w.id)',
         \A f \in filed' \ filed : WasFiled(f.id)',
         \A j \in jobs' \ jobs :
           /\ j.step \in {"mark", "stored", "call", "status"} => Told(j.captured.id)'
           /\ j.kind = "edit" => WasFiled(j.captured.id)'
  PROVE  TraceInv'
<1>1. \A i : WasFiled(i) => WasFiled(i)'
  BY DEF WasFiled
<1>2. \A i \in Sends : Told(i) => Told(i)'
  BY <1>1 DEF Told
<1> QED
  BY <1>1, <1>2 DEF TraceInv

LEMMA TraceJobs ==
  ASSUME TInv, TraceInv, JobStep \/ JobFails
  PROVE  TraceInv'
<1>0. JobTypes /\ TableTypes /\ GhostTypes
  BY Parts
<1>1. PICK j \in jobs :
        \/ SaveBeforeSend(j) \/ File(j) \/ MergeRow(j) \/ MarkSending(j) \/ CallPhone(j)
        \/ PhoneAnswers(j) \/ SetOutcome(j) \/ RemoveEntry(j) \/ EraseRow(j)
        \/ StatementFails(j)
  BY DEF JobStep, JobFails
<1>2. PICK k \in Job : jobs' = (jobs \ {j}) \cup {k} /\ Advance(j, k, went')
  BY <1>1, Advances
<1>3. /\ JobShape(j) /\ j.captured.id \in Sends /\ k.kind = j.kind /\ k.captured = j.captured
      /\ j.captured.body \in Texts
  BY <1>0, <1>2 DEF JobTypes, Advance, Job, Captured
<1>4. /\ \A w \in went : w.id \in Sends
      /\ \A i \in jobs : i.captured.id \in Sends
  BY <1>0 DEF JobTypes, GhostTypes, Handing, Job, Captured
<1>5. went' \in {went, went \cup {Gone(j)}} /\ went \subseteq went'
  BY <1>2 DEF Advance
<1>6. Gone(j).id = j.captured.id /\ Gone(j).way = j.kind
  BY DEF Gone
<1>7. k.kind = "edit" => WasFiled(k.captured.id)'
  BY <1>3, <1>5 DEF TraceInv, WasFiled
\* All rows stay, and the job does not go past the merge with a row missing.
<1>8. ASSUME \A i \in Sends : rows[i].status # "none" => rows'[i].status # "none",
             \A f \in filed' \ filed : WasFiled(f.id)',
             j.step = "merge" => rows'[j.captured.id].status # "none" \/ k.step = "done"
      PROVE  TraceInv'
  <2>1. \A i \in Sends : Told(i) => Told(i)'
    BY <1>5, <1>8 DEF Told, WasFiled
  <2>2. k.step \in {"mark", "stored", "call", "status"} => Told(k.captured.id)'
    <3>1. k.step \in {"stored", "call", "status"} => j.step \in {"mark", "stored", "call"}
      BY <1>2 DEF Advance
    <3>2. k.step = "mark" => j.step = "merge"
      BY <1>2 DEF Advance
    <3> QED
      BY <1>3, <1>8, <2>1, <3>1, <3>2 DEF TraceInv, Told
  <2>3. \A w \in went' \ went : w.way = "send" => Told(w.id)'
    <3>1. went' # went => j.step \in {"file", "call"}
      BY <1>2 DEF Advance
    <3>2. j.step = "file" => j.kind # "send"
      BY <1>3 DEF JobShape
    <3> QED
      BY <1>3, <1>5, <1>6, <2>1, <3>1, <3>2 DEF TraceInv
  <2> QED
    BY <1>2, <1>4, <1>5, <1>7, <1>8, <2>2, <2>3, TraceStill
<1>9. ASSUME NEW status \in RowStates
      PROVE  \A i \in Sends : rows[i].status # "none" =>
               MessageStatus(j.captured.id, status)[i].status # "none"
  <2>1. \A i \in Sends : rows[i] \in Row /\ status # "none"
    BY <1>0 DEF TableTypes, RowStates
  <2> QED
    BY <1>0, <1>3, <2>1 DEF MessageStatus, TableTypes, Row, NoRow
<1>10. CASE SaveBeforeSend(j) \/ CallPhone(j) \/ PhoneAnswers(j)
  <2>1. rows' = rows /\ filed' = filed /\ j.step # "merge"
    BY <1>10 DEF SaveBeforeSend, CallPhone, PhoneAnswers, tables
  <2> QED
    BY <1>8, <2>1
<1>11. CASE StatementFails(j)
  <2> DEFINE failed == [j EXCEPT !.step = "done", !.ok = FALSE]
  <2>1. failed.step = "done" /\ failed.kind = j.kind /\ failed.captured = j.captured
    BY <1>0 DEF JobTypes, Job
  <2>2. /\ jobs' = (jobs \ {j}) \cup {failed}
        /\ rows' = rows /\ filed' = filed /\ went' = went
    BY <1>11 DEF StatementFails, Failed, tables
  <2> HIDE DEF failed
  <2>3. failed.kind = "edit" => WasFiled(failed.captured.id)'
    BY <2>1, <2>2 DEF TraceInv, WasFiled
  <2> QED
    BY <1>4, <2>1, <2>2, <2>3, TraceStill
<1>12. CASE File(j)
  <2>1. /\ rows' = rows /\ j.step # "merge"
        /\ \A f \in filed' \ filed : f.id = j.captured.id /\ went' = went \cup {Gone(j)}
    BY <1>12 DEF File
  <2>2. j.kind # "send"
    BY <1>3, <1>12 DEF File, JobShape
  <2> QED
    BY <1>6, <1>8, <2>1, <2>2 DEF WasFiled
<1>13. CASE MergeRow(j)
  <2>1. j.kind \in {"send", "queue", "schedule"} /\ filed' = filed
    BY <1>3, <1>0, <1>13 DEF MergeRow, JobShape, JobTypes, Job
  <2>2. \E status \in RowStates : MergeMessage(j.captured, status)
    BY <1>13, <2>1 DEF MergeRow, RowStates
  <2>3. /\ \A i \in Sends : rows[i].status # "none" => rows'[i].status # "none"
        /\ rows'[j.captured.id].status # "none"
    BY <1>0, <1>3, <2>2 DEF MergeMessage, TableTypes, RowStates
  <2> QED
    BY <1>8, <2>1, <2>3
<1>14. CASE MarkSending(j) \/ SetOutcome(j)
  <2>1. filed' = filed /\ j.step # "merge"
        /\ \E status \in RowStates : rows' = MessageStatus(j.captured.id, status)
    BY <1>14 DEF MarkSending, SetOutcome, RowStates
  <2> QED
    BY <1>8, <1>9, <2>1
<1>15. CASE RemoveEntry(j)
  <2>1. rows' = rows /\ filed' \subseteq filed /\ j.step # "merge"
    BY <1>15 DEF RemoveEntry
  <2> QED
    BY <1>8, <2>1
<1>16. CASE EraseRow(j)
  <2>1. /\ rows' = [rows EXCEPT ![j.captured.id] = NoRow] /\ filed' = filed /\ went' = went
        /\ WasFiled(j.captured.id) /\ j.step = "erase"
    BY <1>3, <1>16 DEF EraseRow, JobShape, TraceInv
  <2>2. \A i \in Sends : Told(i) => Told(i)'
    BY <1>0, <1>3, <2>1 DEF Told, WasFiled, TableTypes
  <2>3. k.step = "done"
    BY <1>2, <2>1 DEF Advance
  <2> QED
    BY <1>2, <1>4, <1>7, <2>1, <2>2, <2>3 DEF TraceInv, WasFiled
<1> QED
  BY <1>1, <1>10, <1>11, <1>12, <1>13, <1>14, <1>15, <1>16

LEMMA TraceStep == Base /\ TraceInv /\ [Next]_vars => TraceInv'
<1> SUFFICES ASSUME Base, TraceInv, [Next]_vars PROVE TraceInv'
  OBVIOUS
<1>0. TInv /\ JobTypes /\ TableTypes /\ GhostTypes
  BY Parts DEF Base
<1>1. /\ \A w \in went : w.id \in Sends
      /\ \A i \in jobs : i.captured.id \in Sends
  BY <1>0 DEF JobTypes, GhostTypes, Handing, Job, Captured
<1>2. ASSUME went' = went, filed' = filed,
             \A i \in Sends : rows[i].status # "none" => rows'[i].status # "none",
             \A j \in jobs' \ jobs : j.step \in {"save", "file"} /\ j.kind # "edit"
      PROVE  TraceInv'
  BY <1>1, <1>2, TraceStill
<1>3. \A c : Deliver(c) => \A j \in jobs' \ jobs : j.step \in {"save", "file"} /\ j.kind # "edit"
  BY StartedJob DEF Deliver
<1>4. CASE Send \/ OpenSchedule
  <2>1. \A j \in jobs' \ jobs : j.step \in {"save", "file"} /\ j.kind # "edit"
    BY <1>3, <1>4 DEF Send, OpenSchedule
  <2>2. UNCHANGED <<went, filed, rows>>
    BY <1>4 DEF Send, OpenSchedule, PrepareSend, tables
  <2> QED
    BY <1>2, <2>1, <2>2
<1>5. CASE (\E n \in ticks : HoldTick(n)) \/ SendNow \/ CancelHold
  <2>1. \A j \in jobs' \ jobs : j.step \in {"save", "file"} /\ j.kind # "edit"
    BY <1>3, <1>5 DEF HoldTick, SendNow, CancelHold, ReleaseHold, work
  <2>2. UNCHANGED <<went, filed, rows>>
    BY <1>5 DEF HoldTick, SendNow, CancelHold, tables, ghosts
  <2> QED
    BY <1>2, <2>1, <2>2
<1>6. CASE AnswerPrompt
  <2>1. \A j \in jobs' \ jobs : j.step \in {"save", "file"} /\ j.kind # "edit"
    BY <1>3, <1>6, StartedJob DEF AnswerPrompt
  <2>2. UNCHANGED <<went, filed, rows>>
    BY <1>6 DEF AnswerPrompt, tables
  <2> QED
    BY <1>2, <2>1, <2>2
<1>7. CASE \E j \in jobs : SendEnded(j) \/ EntryLoaded(j)
  BY <1>2, <1>7 DEF SendEnded, EntryLoaded, tables, ghosts
<1>8. ASSUME NEW f \in filed, EditEntry(f) PROVE TraceInv'
  <2>1. PICK k : /\ jobs' = jobs \cup {k} /\ k.kind = "edit" /\ k.step = "remove"
                 /\ k.captured.id = f.id
    BY <1>8, StartedJob DEF EditEntry
  <2>2. UNCHANGED <<went, filed, rows>>
    BY <1>8 DEF EditEntry, tables, ghosts
  <2>3. WasFiled(f.id)'
    BY <2>2 DEF TraceInv, WasFiled
  <2> QED
    BY <1>1, <2>1, <2>2, <2>3, TraceStill
<1>9. Recovered \in [Sends -> Row] /\ \A i \in Sends : rows[i].status # "none" => Recovered[i].status # "none"
  BY <1>0, TableOps DEF Recovered, TableTypes, Row, NoRow
<1>10. CASE Start \/ OpenElsewhere \/ Stop
  <2>1. UNCHANGED <<went, filed>> /\ jobs' \subseteq jobs /\ rows' \in {rows, Recovered}
    BY <1>10 DEF Start, OpenElsewhere, Stop, work, ghosts
  <2> QED
    BY <1>2, <1>9, <2>1
<1>11. ASSUME \/ \E t \in Bodies : Type(t)
              \/ \E t \in Texts : Quote(t)
              \/ \E i \in Sends : PressRetry(i)
              \/ \E k \in Keys : OpenThread(k)
              \/ Choose
              \/ \E t \in timers : Debounce(t)
              \/ \E s \in saves : SaveDone(s)
              \/ SyncThread \/ LoadCache \/ LoadDrafts
              \/ UNCHANGED vars
       PROVE  TraceInv'
  <2>1. UNCHANGED <<went, filed, jobs, rows>>
    BY <1>11 DEF Type, Quote, PressRetry, OpenThread, Choose, Debounce, SaveDone, SyncThread,
                 LoadCache, LoadDrafts, vars, work, tables, ghosts
  <2> QED
    BY <1>2, <2>1
<1>12. CASE User
  BY <1>4, <1>5, <1>6, <1>8, <1>11, <1>12 DEF User
<1>13. ASSUME Next, ~User PROVE TraceInv'
  BY <1>0, <1>5, <1>7, <1>10, <1>11, <1>13, TraceJobs DEF Next
<1> QED
  BY <1>11, <1>12, <1>13

\* Whatever the phone accepted has a row in its conversation, unless the user
\* took the same message back from the outbox: the row is there before the phone
\* is called, and no failed statement and no restart skips it.
THEOREM SentIsTold == Spec => []LeavesATrace
<1>1. Base /\ TraceInv /\ [Next]_vars => TraceInv'
  BY TraceStep
<1>2. TraceInv => LeavesATrace
  BY DEF TraceInv, Told, WasFiled, LeavesATrace
<1> QED
  BY <1>1, <1>2, BaseHolds, TraceInit, PTL DEF Spec

-----------------------------------------------------------------------------
(* What a row of the conversation may become. *)

LEMMA FailsWhenTold ==
  ASSUME Base, [Next]_vars, NEW i \in Sends, rows[i].status # "failed", rows'[i].status = "failed"
  PROVE  \E j \in jobs : j.captured.id = i /\ j.step = "status" /\ ~j.ok
<1>0. TInv /\ JobTypes /\ TableTypes
  BY Parts DEF Base
<1>1. Recovered[i].status # "failed"
  BY <1>0 DEF Recovered, TableTypes, Row, NoRow
<1>2. rows' # rows /\ rows' # Recovered
  BY <1>1
<1>3. JobStep
  <2>1. ~User
    BY <1>2 DEF User, Type, Quote, PressRetry, OpenThread, Choose, Send, SendNow, CancelHold,
                OpenSchedule, AnswerPrompt, EditEntry, PrepareSend, tables
  <2>2. ~UNCHANGED vars
    BY <1>2 DEF vars, tables
  <2>3. ~JobFails
    BY <1>2 DEF JobFails, StatementFails, tables
  <2>4. ~\E j \in jobs : SendEnded(j) \/ EntryLoaded(j)
    BY <1>2 DEF SendEnded, EntryLoaded, tables
  <2> QED
    BY <1>2, <2>1, <2>2, <2>3, <2>4
      DEF Next, Debounce, HoldTick, SaveDone, SyncThread, LoadCache, Start, LoadDrafts, Stop,
          OpenElsewhere, tables
<1>4. PICK j \in jobs :
        \/ SaveBeforeSend(j) \/ File(j) \/ MergeRow(j) \/ MarkSending(j) \/ CallPhone(j)
        \/ PhoneAnswers(j) \/ SetOutcome(j) \/ RemoveEntry(j) \/ EraseRow(j)
  BY <1>3 DEF JobStep
<1>5. j.captured.id \in Sends /\ JobShape(j) /\ j.kind \in {"send", "queue", "schedule", "edit"}
  BY <1>0 DEF JobTypes, Job, Captured
<1>6. MergeRow(j) \/ MarkSending(j) \/ SetOutcome(j) \/ EraseRow(j)
  BY <1>2, <1>4 DEF SaveBeforeSend, File, CallPhone, PhoneAnswers, RemoveEntry, tables
<1>7. \A status \in RowStates :
        MessageStatus(j.captured.id, status)[i].status = "failed" =>
          j.captured.id = i /\ status = "failed"
  BY <1>0, <1>5 DEF MessageStatus, TableTypes, Row, NoRow
<1>8. ~MergeRow(j)
  BY <1>0, <1>5 DEF MergeRow, MergeMessage, JobShape, TableTypes
<1>9. ~MarkSending(j)
  BY <1>7 DEF MarkSending, RowStates
<1>10. ~EraseRow(j)
  BY <1>0, <1>5 DEF EraseRow, TableTypes, NoRow
<1>11. SetOutcome(j) /\ (IF j.ok THEN "submitted" ELSE "failed") \in RowStates
  BY <1>6, <1>8, <1>9, <1>10 DEF RowStates
<1> QED
  BY <1>7, <1>11 DEF SetOutcome

\* A row becomes failed, and can be sent again with r, only on the word of a
\* send that is still running: a send that a stop or another Open cut short is
\* never called failed.
THEOREM FailedIsTold == Spec => OnlyToldFailed
<1>1. Base /\ [Next]_vars =>
        \A i \in Sends : rows[i].status # "failed" /\ rows'[i].status = "failed" =>
          \E j \in jobs : j.captured.id = i /\ j.step = "status" /\ ~j.ok
  BY FailsWhenTold
<1> QED
  BY <1>1, BaseHolds, PTL DEF Spec, OnlyToldFailed

-----------------------------------------------------------------------------
(* The drafts. *)

\* Until the drafts are read there is nothing that a reading could replace.
Unread ==
  /\ \A k \in Keys : drafts[k] = NoDraft
  /\ jobs = {} /\ timers = {} /\ saves = {} /\ ticks = {}
  /\ hold = NoHold /\ modal = "none"

\* Job j did what the draft it was captured from is to be cleared for.
Succeeded(j) ==
  /\ j.kind # "edit" /\ j.ok
  /\ j.step \in {"status", "done"} \/ (j.step = "merge" /\ j.kind # "send")

DraftInv ==
  /\ ~loaded => Unread
  /\ \A j \in jobs : Succeeded(j) => Gone(j) \in went

LEMMA DraftInit == Init => DraftInv
BY DEF Init, Fresh, DraftInv, Unread

LEMMA AdvanceSucceeds ==
  ASSUME TInv, DraftInv, NEW j \in jobs, NEW k, Advance(j, k, went'), Succeeded(k)
  PROVE  Gone(k) \in went'
<1>1. Gone(k) = Gone(j) /\ k.kind = j.kind /\ JobShape(j)
  BY Parts DEF Advance, Gone, JobTypes
<1>2. Gone(j) \in went' \/ (went' = went /\ Succeeded(j))
  BY <1>1 DEF Advance, Succeeded, JobShape
<1> QED
  BY <1>1, <1>2 DEF DraftInv

LEMMA DraftStep == Base /\ DraftInv /\ [Next]_vars => DraftInv'
<1> SUFFICES ASSUME Base, DraftInv, [Next]_vars PROVE DraftInv'
  OBVIOUS
<1>0. TInv /\ DraftTypes
  BY Parts DEF Base
<1>1. ASSUME loaded', went' = went, \A j \in jobs' \ jobs : j.step \in {"save", "file", "remove"}
      PROVE  DraftInv'
  <2>1. \A j \in jobs' : Succeeded(j) => j \in jobs
    BY <1>1 DEF Succeeded
  <2> QED
    BY <1>1, <2>1 DEF DraftInv, Gone, Succeeded
<1>2. \A c : Deliver(c) => \A j \in jobs' \ jobs : j.step \in {"save", "file", "remove"}
  BY StartedJob DEF Deliver
<1>3. CASE Send \/ OpenSchedule
  <2>1. PrepareSend /\ \A j \in jobs' \ jobs : j.step \in {"save", "file", "remove"}
    BY <1>2, <1>3 DEF Send, OpenSchedule
  <2> QED
    BY <1>1, <2>1 DEF PrepareSend, Keyboard, start
<1>4. CASE (\E n \in ticks : HoldTick(n)) \/ SendNow \/ CancelHold
  <2>1. \A j \in jobs' \ jobs : j.step \in {"save", "file", "remove"}
    BY <1>2, <1>4 DEF HoldTick, SendNow, CancelHold, ReleaseHold, work
  <2>2. loaded' /\ went' = went
    BY <1>4 DEF HoldTick, SendNow, CancelHold, Keyboard, start, ghosts, DraftInv, Unread
  <2> QED
    BY <1>1, <2>1, <2>2
<1>5. CASE AnswerPrompt
  <2>1. \A j \in jobs' \ jobs : j.step \in {"save", "file", "remove"}
    BY <1>2, <1>5, StartedJob DEF AnswerPrompt
  <2>2. loaded' /\ went' = went
    BY <1>5 DEF AnswerPrompt, start, DraftInv, Unread
  <2> QED
    BY <1>1, <2>1, <2>2
<1>6. CASE JobStep \/ JobFails
  <2>1. PICK j \in jobs, k \in Job : jobs' = (jobs \ {j}) \cup {k} /\ Advance(j, k, went')
    BY <1>0, <1>6, JobMoves
  <2>2. loaded' = loaded /\ loaded
    BY <1>0, <1>6, JobMoves DEF Beside, start, DraftInv, Unread
  <2>3. Succeeded(k) => Gone(k) \in went'
    BY <1>0, <2>1, AdvanceSucceeds
  <2>4. went \subseteq went'
    BY <2>1 DEF Advance
  <2> QED
    BY <2>1, <2>2, <2>3, <2>4 DEF DraftInv, Gone, Succeeded
<1>7. CASE \E j \in jobs : SendEnded(j) \/ EntryLoaded(j)
  <2>1. loaded' /\ went' = went /\ jobs' \subseteq jobs
    BY <1>7 DEF SendEnded, EntryLoaded, start, ghosts, DraftInv, Unread
  <2> QED
    BY <1>1, <2>1
<1>8. CASE \E f \in filed : EditEntry(f)
  <2>1. \A j \in jobs' \ jobs : j.step \in {"save", "file", "remove"}
    BY <1>8, StartedJob DEF EditEntry
  <2> QED
    BY <1>1, <1>8, <2>1 DEF EditEntry, Keyboard, start, ghosts
<1>9. ASSUME \/ \E t \in Bodies : Type(t)
             \/ \E t \in Texts : Quote(t)
             \/ \E i \in Sends : PressRetry(i)
             \/ \E k \in Keys : OpenThread(k)
             \/ Choose
             \/ \E t \in timers : Debounce(t)
             \/ \E s \in saves : SaveDone(s)
             \/ LoadDrafts
      PROVE  DraftInv'
  <2>1. loaded' /\ UNCHANGED <<went, jobs>>
    BY <1>9 DEF Type, Quote, PressRetry, OpenThread, Choose, Debounce, SaveDone, LoadDrafts,
                Keyboard, start, work, ghosts, DraftInv, Unread
  <2> QED
    BY <1>1, <2>1
<1>10. ASSUME drafts' = drafts,
              UNCHANGED <<loaded, jobs, timers, saves, ticks, hold, modal, went>>
       PROVE  DraftInv'
  BY <1>10 DEF DraftInv, Unread, Gone, Succeeded
<1>11. CASE SyncThread \/ Start \/ OpenElsewhere \/ UNCHANGED vars
  BY <1>10, <1>11 DEF SyncThread, Start, OpenElsewhere, vars, screen, sender, work, start, ghosts
<1>12. CASE LoadCache
  <2>1. UNCHANGED <<loaded, jobs, timers, saves, ticks, hold, modal, went>>
    BY <1>12 DEF LoadCache, sender, work, ghosts
  <2>2. CASE loaded
    BY <2>1, <2>2 DEF DraftInv, Gone, Succeeded
  <2>3. CASE ~loaded
    <3>1. \A k \in Keys : drafts[k] = NoDraft
      BY <2>3 DEF DraftInv, Unread
    <3>2. "number" \in Keys /\ "local" \in Keys /\ "thread" \in Keys
      BY DEF Keys
    <3>3. \A k : Legacy(k) = drafts
      BY <3>1, <3>2 DEF Legacy, NoDraft
    <3>4. \A k \in Keys : drafts'[k] = NoDraft
      BY <1>0, <1>12, <3>1, <3>2, <3>3 DEF LoadCache, Opened, DraftTypes
    <3> QED
      BY <2>1, <2>3, <3>4 DEF DraftInv, Unread
  <2> QED
    BY <2>2, <2>3
<1>13. CASE Stop
  BY <1>13 DEF Stop, DraftInv, Unread
<1>14. CASE User
  BY <1>3, <1>4, <1>5, <1>8, <1>9, <1>14 DEF User
<1>15. ASSUME Next, ~User PROVE DraftInv'
  BY <1>4, <1>6, <1>7, <1>9, <1>11, <1>12, <1>13, <1>15 DEF Next
<1> QED
  BY <1>11, <1>14, <1>15

LEMMA DraftsHold == Spec => [](Base /\ DraftInv)
<1>1. Base /\ DraftInv /\ [Next]_vars => DraftInv'
  BY DraftStep
<1> QED
  BY <1>1, BaseHolds, DraftInit, PTL DEF Spec

\* A draft changes by the user's hand, by the answer of a job, when drafts are
\* read or when a stop forgets them.
LEMMA DraftChanges ==
  ASSUME Base, DraftInv, [Next]_vars, up, up', left' = left, at' = at,
         \A j \in jobs \ jobs' : j.kind # "edit"
  PROVE  \/ drafts' = drafts
         \/ \E j \in jobs : SendEnded(j)
         \/ \A k \in Keys : drafts[k].body = Empty \/ drafts'[k].body = drafts[k].body
<1>0. TInv /\ DraftTypes
  BY Parts DEF Base
<1>1. \A e \in Events : ~Spend(e)
  <2>1. \A e \in Events : left[e] \in Nat
    BY <1>0, Parts DEF LeftTypes
  <2> QED
    BY <1>0, <2>1, Parts DEF Spend, LeftTypes
<1>2. ASSUME User PROVE drafts' = drafts
  <2>1. SendNow \/ CancelHold \/ AnswerPrompt
    BY <1>1, <1>2 DEF User, Type, Quote, PressRetry, OpenThread, Choose, Send, OpenSchedule,
                      PrepareSend, EditEntry, Events
  <2> QED
    BY <2>1 DEF SendNow, CancelHold, AnswerPrompt
<1>3. CASE LoadCache
  <2>1. "number" \in Keys /\ "local" \in Keys /\ "thread" \in Keys
    BY DEF Keys
  <2>2. drafts' = drafts \/ \E k : drafts' = Legacy(k)
    BY <1>3 DEF LoadCache, Opened
  <2>3. \A k : Legacy(k) = drafts
               \/ (drafts[k] = NoDraft /\ Legacy(k) = [drafts EXCEPT ![k] = drafts["number"]])
    BY DEF Legacy
  <2> QED
    BY <1>0, <2>2, <2>3 DEF DraftTypes, NoDraft
<1>4. CASE LoadDrafts
  BY <1>4 DEF LoadDrafts, DraftInv, Unread, NoDraft
<1>5. ASSUME NEW j \in jobs, EntryLoaded(j) PROVE FALSE
  <2>1. j \in jobs \ jobs' /\ j.kind = "edit"
    BY <1>5 DEF EntryLoaded
  <2> QED
    BY <2>1
<1>6. ~Start /\ ~Stop
  BY DEF Start, Stop
<1>7. CASE \/ \E t \in timers : Debounce(t)
           \/ \E n \in ticks : HoldTick(n)
           \/ JobStep \/ JobFails
           \/ \E s \in saves : SaveDone(s)
           \/ SyncThread \/ OpenElsewhere \/ UNCHANGED vars
  BY <1>7 DEF Debounce, HoldTick, JobStep, JobFails, Beside, SaveDone, SyncThread, OpenElsewhere, vars
<1> QED
  BY <1>2, <1>3, <1>4, <1>5, <1>6, <1>7 DEF Next

LEMMA ClearedIsGone ==
  ASSUME Base, DraftInv, NEW j \in jobs, SendEnded(j), NEW k \in Keys,
         drafts[k].body \notin {Empty, drafts'[k].body}
  PROVE  \E w \in went : w.to = To(k) /\ w.body = drafts[k].body
<1>0. DraftTypes
  BY Parts DEF Base
<1>1. j.kind # "edit" /\ j.step = "done" /\ j.ok /\ UnchangedSince(j.captured) /\ j.captured.key = k
  BY <1>0 DEF SendEnded, DraftTypes
<1>2. Gone(j) \in went
  BY <1>1 DEF DraftInv, Succeeded
<1>3. drafts[k].body = j.captured.body
  BY <1>1 DEF UnchangedSince
<1> QED
  BY <1>1, <1>2, <1>3 DEF Gone

\* A text is cleared from a draft only when it went to the same person or was
\* filed for later: a failed send, a late answer or a text typed meanwhile never
\* costs the user a text.
THEOREM TextIsKept == Spec => TextKept
<1>1. Base /\ DraftInv /\ [Next]_vars =>
        (up /\ up' /\ left' = left /\ at' = at /\ (\A j \in jobs \ jobs' : j.kind # "edit") =>
           \A k \in Keys : drafts[k].body \notin {Empty, drafts'[k].body} =>
             \E w \in went : w.to = To(k) /\ w.body = drafts[k].body)
  BY DraftChanges, ClearedIsGone
<1> QED
  BY <1>1, DraftsHold, PTL DEF Spec, TextKept

\* Nothing is open before the drafts are read, unless --open says so.
EditorInv == ~opening /\ (at # None => loaded) /\ EditorIsDraft

LEMMA EditorStep ==
  ASSUME ~OpenAtStart, Base, DraftInv, EditorInv, [Next]_vars
  PROVE  EditorInv'
<1>0. TInv /\ DraftTypes /\ ScreenTypes /\ JobTypes
  BY Parts DEF Base
<1>1. ASSUME UNCHANGED <<opening, loaded, at, editor, drafts>> PROVE EditorInv'
  BY <1>1 DEF EditorInv, EditorIsDraft
<1>2. ASSUME loaded', opening' = opening, at' # None => editor' = drafts'[at'].body PROVE EditorInv'
  BY <1>2 DEF EditorInv, EditorIsDraft
<1>3. ASSUME NEW t \in Bodies, Type(t) PROVE EditorInv'
  <2>1. at \in Keys
    BY <1>0, <1>3 DEF Type, ScreenTypes
  <2>2. drafts'[at].body = t
    BY <1>0, <1>3, <2>1, DraftOps DEF Type
  <2> QED
    BY <1>2, <1>3, <2>2 DEF Type, Keyboard, start
<1>4. ASSUME NEW t \in Texts, Quote(t) PROVE EditorInv'
  <2>1. at \in Keys /\ t \in Bodies
    BY <1>0, <1>4 DEF Quote, ScreenTypes, Bodies
  <2>2. drafts'[at].body = t
    BY <1>0, <1>4, <2>1, DraftOps DEF Quote
  <2> QED
    BY <1>2, <1>4, <2>2 DEF Quote, Keyboard, start
<1>5. ASSUME NEW i \in Sends, PressRetry(i) PROVE EditorInv'
  <2>1. at \in Keys /\ rows[i].body \in Bodies
    BY <1>0, <1>5, Parts DEF PressRetry, ScreenTypes, TableTypes, Row, NoRow, Bodies
  <2>2. drafts'[at].body = rows[i].body
    BY <1>0, <1>5, <2>1, DraftOps DEF PressRetry
  <2> QED
    BY <1>2, <1>5, <2>2 DEF PressRetry, Keyboard, start
<1>6. CASE Choose \/ \E k \in Keys : OpenThread(k)
  BY <1>2, <1>6 DEF Choose, OpenThread, Opened, Keyboard, start
<1>7. CASE Send \/ OpenSchedule
  <2>1. PrepareSend
    BY <1>7 DEF Send, OpenSchedule
  <2>2. SendKey \in Keys
    BY <1>0, <2>1, PrepareTypes
  <2>3. drafts'[SendKey].body = editor
    BY <1>0, <2>1, <2>2 DEF PrepareSend, DraftTypes
  <2> QED
    BY <1>2, <2>1, <2>3 DEF PrepareSend, Keyboard, start
<1>8. CASE \E j \in jobs : SendEnded(j)
  <2>1. PICK j \in jobs : SendEnded(j)
    BY <1>8
  <2>2. loaded' /\ opening' = opening /\ at' = at
    BY <2>1 DEF SendEnded, start, DraftInv, Unread
  <2>3. UNCHANGED <<drafts, editor>> \/
        (/\ drafts' = [drafts EXCEPT ![j.captured.key] = [body |-> Empty, rev |-> j.captured.rev + 1]]
         /\ editor' = ClearedEditor(j.captured))
    BY <2>1 DEF SendEnded
  <2>4. at # None => editor' = drafts'[at].body
    BY <1>0, <2>3 DEF ClearedEditor, EditorInv, EditorIsDraft, ScreenTypes, DraftTypes
  <2> QED
    BY <1>2, <2>2, <2>4
<1>9. CASE \E j \in jobs : EntryLoaded(j)
  <2>1. PICK j \in jobs : EntryLoaded(j)
    BY <1>9
  <2>2. loaded' /\ opening' = opening
    BY <2>1 DEF EntryLoaded, start, DraftInv, Unread
  <2>3. "number" \in Keys /\ j.captured.body \in Bodies
    BY <1>0 DEF Keys, JobTypes, Job, Captured, Bodies
  <2>4. Tracked("number", j.captured.body)["number"].body = j.captured.body
    BY <1>0, <2>3, DraftOps
  <2>5. at' # None => editor' = drafts'[at'].body
    BY <2>1, <2>4 DEF EntryLoaded, EditorInv, EditorIsDraft
  <2> QED
    BY <1>2, <2>2, <2>5
<1>10. CASE LoadCache
  <2>1. /\ opening' = FALSE /\ loaded' = loaded /\ editor' = editor
        /\ \/ at = "local" /\ at' = "thread" /\ drafts' = [drafts EXCEPT !["thread"] = drafts["local"]]
           \/ UNCHANGED <<at, drafts>>
    BY <1>10 DEF LoadCache, EditorInv
  <2>2. "thread" \in Keys /\ None # "local"
    BY ComposeAssumption DEF Keys
  <2> QED
    BY <1>0, <2>1, <2>2 DEF EditorInv, EditorIsDraft, DraftTypes
<1>11. CASE Start \/ LoadDrafts \/ Stop
  BY <1>1, <1>11 DEF Start, LoadDrafts, Stop, EditorInv, EditorIsDraft, screen
<1>12. CASE \/ SendNow \/ CancelHold \/ AnswerPrompt
            \/ \E f \in filed : EditEntry(f)
            \/ \E t \in timers : Debounce(t)
            \/ \E n \in ticks : HoldTick(n)
            \/ JobStep \/ JobFails
            \/ \E s \in saves : SaveDone(s)
            \/ SyncThread \/ OpenElsewhere \/ UNCHANGED vars
  <2>1. UNCHANGED <<opening, loaded, at, editor, drafts>>
    BY <1>12 DEF SendNow, CancelHold, AnswerPrompt, EditEntry, Debounce, HoldTick, JobStep, JobFails,
                 Beside, SaveDone, SyncThread, OpenElsewhere, vars, screen, start
  <2> QED
    BY <1>1, <2>1
<1> QED
  BY <1>3, <1>4, <1>5, <1>6, <1>7, <1>8, <1>9, <1>10, <1>11, <1>12 DEF Next, User

\* Without --open the composer always shows the draft of the conversation it
\* belongs to. (With --open a conversation may open before the drafts are read.)
THEOREM EditorShowsDraft == ASSUME ~OpenAtStart PROVE Spec => []EditorIsDraft
<1>1. Init => EditorInv
  BY DEF Init, Fresh, EditorInv, EditorIsDraft
<1>2. Base /\ DraftInv /\ EditorInv /\ [Next]_vars => EditorInv'
  BY EditorStep
<1>3. EditorInv => EditorIsDraft
  BY DEF EditorInv
<1> QED
  BY <1>1, <1>2, <1>3, DraftsHold, PTL DEF Spec
=============================================================================
