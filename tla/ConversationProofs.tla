-------------------------- MODULE ConversationProofs --------------------------
(* The reply window, the meeting of a message with its echo, contacts, and the
   open conversation. *)
EXTENDS PictureProofs, WritingProofs, FiniteSetTheorems, WellFoundedInduction, TLAPS

-----------------------------------------------------------------------------
(* The reply window: where the reply to each Enter is. *)

ReplyTexts == Texts \cup {Empty}
ReplySend ==
  [press : R!Presses, text : ReplyTexts,
   step : {"store", "hand", "taken", "refused", "sent", "failed"}]

ReplyTypes ==
  /\ window \in {"open", "closed"} /\ rEditor \in ReplyTexts
  /\ rDraft \in [body : ReplyTexts, rev : Nat] /\ app \in [body : ReplyTexts, rev : Nat]
  /\ rRow \in [body : ReplyTexts, rev : Nat, by : {"window", "app"}]
  /\ rSending \in BOOLEAN /\ hold \in BOOLEAN /\ closing \in BOOLEAN
  /\ rSends \subseteq ReplySend
  /\ DOMAIN messages = R!Presses /\ handed \in [R!Presses -> 0 .. 1]
  /\ rKeys \in 0 .. MaxKeys["reply"] /\ press \in 0 .. rKeys

\* One reply is under way at a time: it waits in the undo window, or one
\* delivery has it, and then the window waits for that delivery.
OneReply ==
  /\ hold => rSending /\ rSends = {} /\ press # 0 /\ press \notin undone /\ handed[press] = 0
  /\ \A s, t \in rSends : s = t
  /\ \A s \in rSends :
       /\ window = "open" /\ rSending /\ s.press = press /\ press \notin undone
       /\ s.step \in {"store", "hand"} => handed[press] = 0
       /\ s.step = "hand" => messages[press] # None
       /\ s.step \in {"taken", "sent"} => handed[press] = 1

\* What the phone got was stored before and never taken back; an Enter that was
\* not pressed yet did nothing.
HandedOnce ==
  \A n \in R!Presses :
    /\ n \in undone \/ n > rKeys => handed[n] = 0
    /\ n > rKeys => n \notin undone
    /\ handed[n] = 1 => messages[n] # None

\* The row is the draft as long as the window wrote it last, and the window does
\* not close with a text that is in neither.
DraftStored ==
  /\ rRow.by = "window" => rRow.body = rDraft.body /\ rRow.rev = rDraft.rev
  /\ closing => \E n \in R!Presses : handed[n] = 1
  /\ window = "closed" => rEditor = rDraft.body \/ \E n \in R!Presses : handed[n] = 1

ReplyInv == ReplyTypes /\ OneReply /\ HandedOnce /\ DraftStored

LEMMA ReplyStarts == R!ReplyInit => ReplyInv
<1> SUFFICES ASSUME R!ReplyInit PROVE ReplyInv
  OBVIOUS
<1> USE ReplyAssumption DEF R!ReplyInit, R!Presses, R!Draft
<1>1. ReplyTypes
  <2>1. rDraft \in [body : ReplyTexts, rev : Nat] /\ rRow \in [body : ReplyTexts, rev : Nat, by : {"window", "app"}] /\ rEditor \in ReplyTexts
    BY DEF ReplyTexts
  <2>2. app \in [body : ReplyTexts, rev : Nat]
    BY DEF ReplyTexts
  <2>3. rKeys \in 0 .. MaxKeys["reply"] /\ press \in 0 .. rKeys
    OBVIOUS
  <2>4. DOMAIN messages = R!Presses /\ handed \in [R!Presses -> 0 .. 1]
    OBVIOUS
  <2>5. rSending \in BOOLEAN /\ hold \in BOOLEAN /\ closing \in BOOLEAN
    OBVIOUS
  <2> QED
    BY <2>1, <2>2, <2>3, <2>4, <2>5 DEF ReplyTypes
<1>2. OneReply /\ HandedOnce
  BY DEF OneReply, HandedOnce
<1>3. DraftStored
  BY DEF DraftStored
<1> QED
  BY <1>1, <1>2, <1>3 DEF ReplyInv

\* saveDraft keeps the draft and the row of the window together.
LEMMA SavesDraft ==
  ASSUME ReplyTypes, DraftStored, NEW b \in ReplyTexts, R!SaveDraft(b)
  PROVE  /\ rDraft' \in [body : ReplyTexts, rev : Nat] /\ rDraft'.body = b
         /\ rRow' \in [body : ReplyTexts, rev : Nat, by : {"window", "app"}]
         /\ rRow'.by = "window" => rRow'.body = rDraft'.body /\ rRow'.rev = rDraft'.rev
BY DEF ReplyTypes, DraftStored, R!SaveDraft, R!SaveRow, R!Draft

LEMMA ReplyCounts ==
  ASSUME ReplyTypes, R!Pressed, press' \in {press, rKeys'}
  PROVE  rKeys' \in 0 .. MaxKeys["reply"] /\ press' \in 0 .. rKeys'
BY ReplyAssumption DEF ReplyTypes, R!Pressed

LEMMA ReplyKeyStep ==
  ASSUME ReplyInv, R!Edit \/ R!Leave \/ R!TakeBack \/ R!Close
  PROVE  ReplyInv'
<1> USE ReplyAssumption DEF ReplyInv, R!Presses
<1>1. ASSUME R!Edit PROVE ReplyInv'
  <2> USE <1>1 DEF R!Edit, R!Pressed, R!timer, R!outcome
  <2>0. rEditor' \in ReplyTexts
    BY DEF ReplyTexts
  <2>1. /\ rDraft' \in [body : ReplyTexts, rev : Nat]
        /\ rRow' \in [body : ReplyTexts, rev : Nat, by : {"window", "app"}]
        /\ rRow'.by = "window" => rRow'.body = rDraft'.body /\ rRow'.rev = rDraft'.rev
    BY <2>0, SavesDraft DEF ReplyTypes, DraftStored
  <2>5. rKeys' \in 0 .. MaxKeys["reply"] /\ press' \in 0 .. rKeys'
    BY ReplyCounts
  <2>2. ReplyTypes'
    BY <2>0, <2>1, <2>5 DEF ReplyTypes
  <2>3. OneReply' /\ HandedOnce'
    BY DEF OneReply, HandedOnce, ReplyTypes
  <2>4. DraftStored'
    BY <2>1 DEF DraftStored
  <2> QED
    BY <2>2, <2>3, <2>4
<1>2. ASSUME R!Leave PROVE ReplyInv'
  <2> USE <1>2 DEF R!Leave, R!Pressed, R!timer, R!outcome
  <2>1. /\ rDraft' \in [body : ReplyTexts, rev : Nat] /\ rDraft'.body = rEditor
        /\ rRow' \in [body : ReplyTexts, rev : Nat, by : {"window", "app"}]
        /\ rRow'.by = "window" => rRow'.body = rDraft'.body /\ rRow'.rev = rDraft'.rev
    BY SavesDraft DEF ReplyTypes
  <2>2. ReplyTypes'
    BY <2>1 DEF ReplyTypes
  <2>3. OneReply' /\ HandedOnce'
    BY DEF OneReply, HandedOnce, ReplyTypes
  <2>4. DraftStored'
    BY <2>1 DEF DraftStored
  <2> QED
    BY <2>2, <2>3, <2>4
<1>3. ASSUME R!TakeBack PROVE ReplyInv'
  <2> USE <1>3 DEF R!TakeBack, R!draftVars, R!outcome
  <2>0. rKeys' \in 0 .. MaxKeys["reply"] /\ press' \in 0 .. rKeys'
    BY ReplyCounts
  <2>1. ReplyTypes'
    BY <2>0 DEF ReplyTypes
  <2>2. OneReply'
    BY DEF OneReply
  <2>3. HandedOnce'
    BY DEF OneReply, HandedOnce, ReplyTypes, R!Pressed
  <2>4. DraftStored'
    BY DEF DraftStored
  <2> QED
    BY <2>1, <2>2, <2>3, <2>4
<1>4. ASSUME R!Close PROVE ReplyInv'
  <2> USE <1>4 DEF R!Close, R!draftVars, R!timer, R!outcome
  <2>1. ReplyTypes'
    BY DEF ReplyTypes
  <2>2. OneReply' /\ HandedOnce' /\ DraftStored'
    BY DEF OneReply, HandedOnce, DraftStored
  <2> QED
    BY <2>1, <2>2
<1> QED
  BY <1>1, <1>2, <1>3, <1>4

\* The start of a delivery, by Enter without an undo window, by a tick or by Enter
\* in the window.
LEMMA Delivers ==
  ASSUME ReplyTypes, rSends = {}, NEW n \in R!Presses, R!Deliver(n)
  PROVE  /\ hold' = FALSE
         /\ \E s \in ReplySend : rSends' = {s} /\ s.press = n /\ s.step = "store"
<1>1. R!Delivery(n) \in ReplySend /\ R!Delivery(n).press = n /\ R!Delivery(n).step = "store"
  BY DEF R!Delivery, ReplySend, ReplyTypes
<1> QED
  BY <1>1 DEF R!Deliver

LEMMA ReplySendStep ==
  ASSUME ReplyInv, R!Send \/ R!SendNow \/ \E s \in ticks : R!Tick(s)
  PROVE  ReplyInv'
<1> USE ReplyAssumption DEF ReplyInv
<1>1. ASSUME R!Send PROVE ReplyInv'
  <2> USE <1>1 DEF R!Send, R!Pressed, R!outcome
  <2>1. /\ rDraft' \in [body : ReplyTexts, rev : Nat]
        /\ rRow' \in [body : ReplyTexts, rev : Nat, by : {"window", "app"}]
        /\ rRow'.by = "window" => rRow'.body = rDraft'.body /\ rRow'.rev = rDraft'.rev
    BY SavesDraft DEF ReplyTypes
  <2>2. rKeys' \in R!Presses /\ rKeys' > rKeys /\ rSends = {} /\ rSending'
    BY DEF ReplyTypes, OneReply, R!Presses
  <2>3. handed[rKeys'] = 0 /\ rKeys' \notin undone
    BY <2>2 DEF HandedOnce
  <2>4. \/ hold' = TRUE /\ rSends' = {}
        \/ hold' = FALSE /\ \E s \in ReplySend : rSends' = {s} /\ s.press = rKeys' /\ s.step = "store"
    <3>1. CASE undo
      BY <2>2, <3>1
    <3>2. CASE ~undo
      BY <2>2, <3>2, Delivers
    <3> QED
      BY <3>1, <3>2
  <2>9. rKeys' \in 0 .. MaxKeys["reply"] /\ press' \in 0 .. rKeys'
    BY ReplyCounts
  <2>5. ReplyTypes'
    BY <2>1, <2>4, <2>9 DEF ReplyTypes
  <2>6. OneReply'
    BY <2>2, <2>3, <2>4 DEF OneReply, R!Presses
  <2>7. HandedOnce'
    BY <2>2 DEF HandedOnce, ReplyTypes, R!Presses
  <2>8. DraftStored'
    BY <2>1 DEF DraftStored
  <2> QED
    BY <2>5, <2>6, <2>7, <2>8
<1>2. ASSUME hold, R!Deliver(press), window = "open",
             UNCHANGED <<undo, window, rEditor, R!draftVars, rSending, closing, R!outcome, press, undone>>,
             rKeys' \in {rKeys, rKeys + 1}, rKeys' <= MaxKeys["reply"]
      PROVE  ReplyInv'
  <2> USE <1>2 DEF R!draftVars, R!outcome
  <2>1. press \in R!Presses /\ rSends = {}
    BY DEF ReplyTypes, OneReply, R!Presses
  <2>2. hold' = FALSE /\ \E s \in ReplySend : rSends' = {s} /\ s.press = press /\ s.step = "store"
    BY <2>1, Delivers
  <2>6. rKeys' \in 0 .. MaxKeys["reply"] /\ press' \in 0 .. rKeys'
    BY DEF ReplyTypes
  <2>3. ReplyTypes'
    BY <2>2, <2>6 DEF ReplyTypes
  <2>4. OneReply'
    BY <2>2 DEF OneReply
  <2>5. HandedOnce' /\ DraftStored'
    BY DEF HandedOnce, DraftStored, ReplyTypes, R!Presses
  <2> QED
    BY <2>3, <2>4, <2>5
<1>3. ASSUME R!SendNow PROVE ReplyInv'
  <2>1. rKeys' \in {rKeys, rKeys + 1} /\ rKeys' <= MaxKeys["reply"]
    BY <1>3 DEF R!SendNow, R!Pressed, ReplyTypes
  <2> QED
    BY <1>2, <1>3, <2>1 DEF R!SendNow, R!outcome, R!draftVars
<1>4. ASSUME NEW s \in ticks, R!Tick(s) PROVE ReplyInv'
  <2>1. CASE s = holdSeq /\ rSending /\ hold /\ R!Deliver(press)
    BY <1>2, <1>4, <2>1 DEF R!Tick, R!outcome, R!draftVars, ReplyTypes
  <2>2. CASE UNCHANGED <<hold, rSends>>
    BY <1>4, <2>2 DEF R!Tick, R!outcome, R!draftVars, ReplyTypes, OneReply, HandedOnce, DraftStored, R!Presses
  <2> QED
    BY <1>4, <2>1, <2>2 DEF R!Tick
<1> QED
  BY <1>1, <1>3, <1>4

\* A delivery goes on to its next step, and stays the only one.
LEMMA GoesOn ==
  ASSUME ReplyInv, NEW s \in rSends,
         NEW step \in {"store", "hand", "taken", "refused", "sent", "failed"}, R!To(s, step)
  PROVE  \E r \in ReplySend : rSends' = {r} /\ r.press = s.press /\ r.step = step
<1>1. s \in ReplySend /\ rSends = {s}
  BY DEF ReplyInv, ReplyTypes, OneReply
<1>2. [s EXCEPT !.step = step] \in ReplySend
  BY <1>1 DEF ReplySend
<1>3. rSends' = {[s EXCEPT !.step = step]}
  BY <1>1 DEF R!To
<1> QED
  BY <1>1, <1>2, <1>3 DEF ReplySend

LEMMA ReplyDeliveryStep ==
  ASSUME ReplyInv, NEW s \in rSends, R!Store(s) \/ R!Hand(s) \/ R!Record(s) \/ R!Answered(s)
  PROVE  ReplyInv'
<1> USE ReplyAssumption DEF ReplyInv
<1>0. /\ s \in ReplySend /\ rSends = {s} /\ s.press = press /\ press \in R!Presses
      /\ window = "open" /\ rSending /\ press \notin undone /\ ~hold
  BY DEF ReplyTypes, OneReply, R!Presses, ReplySend
<1>1. ASSUME R!Store(s) PROVE ReplyInv'
  <2> USE <1>1 DEF R!Store, R!draftVars, R!timer
  <2>1. \E r \in ReplySend : /\ rSends' = {r} /\ r.press = press
                             /\ \/ r.step = "hand" /\ messages' = [messages EXCEPT ![press] = "sending"]
                                \/ r.step = "failed" /\ messages' = messages
    BY <1>0, GoesOn
  <2>2. handed[press] = 0
    BY <1>0 DEF OneReply
  <2>3. DOMAIN messages' = R!Presses /\ \A n \in R!Presses : messages[n] # None => messages'[n] # None
    BY <2>1 DEF ReplyTypes
  <2>4. ReplyTypes'
    BY <2>1, <2>3 DEF ReplyTypes
  <2>5. OneReply'
    BY <1>0, <2>1, <2>2 DEF OneReply, ReplyTypes
  <2>6. HandedOnce' /\ DraftStored'
    BY <2>3 DEF HandedOnce, DraftStored
  <2> QED
    BY <2>4, <2>5, <2>6
<1>2. ASSUME R!Hand(s) PROVE ReplyInv'
  <2> USE <1>2 DEF R!Hand, R!draftVars, R!timer
  <2>1. handed[press] = 0 /\ messages[press] # None
    BY <1>0 DEF OneReply
  <2>2. \E r \in ReplySend : /\ rSends' = {r} /\ r.press = press
                             /\ \/ r.step = "taken" /\ handed' = [handed EXCEPT ![press] = 1]
                                \/ r.step = "refused" /\ handed' \in {handed, [handed EXCEPT ![press] = 1]}
    BY <1>0, <2>1, GoesOn DEF ReplyTypes
  <2>3. handed' \in [R!Presses -> 0 .. 1] /\ \A n \in R!Presses : n # press => handed'[n] = handed[n]
    BY <2>2 DEF ReplyTypes
  <2>4. ReplyTypes'
    BY <2>2, <2>3 DEF ReplyTypes
  <2>5. OneReply'
    BY <1>0, <2>2 DEF OneReply, ReplyTypes
  <2>6. HandedOnce'
    BY <1>0, <2>1, <2>3 DEF HandedOnce, ReplyTypes, R!Presses
  <2>7. \A n \in R!Presses : handed[n] = 1 => handed'[n] = 1
    BY <2>1, <2>3
  <2>8. DraftStored'
    BY <1>0, <2>7 DEF DraftStored
  <2> QED
    BY <2>4, <2>5, <2>6, <2>8
<1>3. ASSUME R!Record(s) PROVE ReplyInv'
  <2> USE <1>3 DEF R!Record, R!draftVars, R!timer
  <2>1. \E r \in ReplySend : /\ rSends' = {r} /\ r.press = press
                             /\ (r.step = "sent" /\ s.step = "taken") \/ r.step = "failed"
    BY <1>0, GoesOn
  <2>2. DOMAIN messages' = R!Presses /\ \A n \in R!Presses : messages[n] # None => messages'[n] # None
    BY DEF ReplyTypes
  <2>3. ReplyTypes'
    BY <2>1, <2>2 DEF ReplyTypes
  <2>4. OneReply'
    BY <1>0, <2>1 DEF OneReply
  <2>5. HandedOnce' /\ DraftStored'
    BY <2>2 DEF HandedOnce, DraftStored
  <2> QED
    BY <2>3, <2>4, <2>5
<1>4. ASSUME R!Answered(s) PROVE ReplyInv'
  <2> USE <1>4 DEF R!Answered, R!outcome
  <2>1. rSends' = {}
    BY <1>0
  <2>2. /\ rDraft' \in [body : ReplyTexts, rev : Nat]
        /\ rRow' \in [body : ReplyTexts, rev : Nat, by : {"window", "app"}]
        /\ rRow'.by = "window" => rRow'.body = rDraft'.body /\ rRow'.rev = rDraft'.rev
    BY DEF ReplyTypes, DraftStored, R!SaveRow, R!Draft, ReplyTexts
  <2>3. closing' \in BOOLEAN /\ (closing' => \E n \in R!Presses : handed'[n] = 1)
    BY <1>0 DEF ReplyTypes, OneReply, DraftStored
  <2>4. ReplyTypes'
    BY <2>1, <2>2, <2>3 DEF ReplyTypes
  <2>5. OneReply'
    BY <1>0, <2>1 DEF OneReply
  <2>6. HandedOnce' /\ DraftStored'
    BY <1>0, <2>2, <2>3 DEF HandedOnce, DraftStored
  <2> QED
    BY <2>4, <2>5, <2>6
<1> QED
  BY <1>1, <1>2, <1>3, <1>4

\* The other programs on the same database.
LEMMA ReplyBesideStep ==
  ASSUME ReplyInv, R!OpenStore \/ R!AppTypes \/ R!AppSaves
  PROVE  ReplyInv'
<1> USE ReplyAssumption DEF ReplyInv, R!timer
<1>1. ASSUME R!OpenStore PROVE ReplyInv'
  <2> USE <1>1 DEF R!OpenStore, R!draftVars
  <2>1. DOMAIN messages' = R!Presses /\ \A n \in R!Presses : messages[n] # None => messages'[n] # None
    OBVIOUS
  <2>2. ReplyTypes'
    BY <2>1 DEF ReplyTypes
  <2>5. \A s \in rSends : press \in R!Presses
    BY DEF OneReply, ReplyTypes, ReplySend
  <2>3. OneReply'
    BY <2>1, <2>5 DEF OneReply
  <2>4. HandedOnce' /\ DraftStored'
    BY <2>1 DEF HandedOnce, DraftStored
  <2> QED
    BY <2>2, <2>3, <2>4
<1>2. ASSUME R!AppTypes PROVE ReplyInv'
  <2> USE <1>2 DEF R!AppTypes, R!Pressed, R!outcome
  <2>1. app' \in [body : ReplyTexts, rev : Nat]
    BY DEF ReplyTypes, R!Draft, ReplyTexts
  <2>2. ReplyTypes'
    BY <2>1 DEF ReplyTypes
  <2>3. OneReply' /\ HandedOnce' /\ DraftStored'
    BY DEF OneReply, HandedOnce, DraftStored, ReplyTypes, R!Presses
  <2> QED
    BY <2>2, <2>3
<1>3. ASSUME R!AppSaves PROVE ReplyInv'
  <2> USE <1>3 DEF R!AppSaves, R!outcome
  <2>1. rRow' \in [body : ReplyTexts, rev : Nat, by : {"window", "app"}] /\ rRow'.by = "app"
    BY DEF ReplyTypes, R!SaveRow
  <2>2. ReplyTypes'
    BY <2>1 DEF ReplyTypes
  <2>3. OneReply' /\ HandedOnce' /\ DraftStored'
    BY <2>1 DEF OneReply, HandedOnce, DraftStored
  <2> QED
    BY <2>2, <2>3
<1> QED
  BY <1>1, <1>2, <1>3

LEMMA ReplyStep == ReplyInv /\ [Next]_vars => ReplyInv'
<1>1. ASSUME ReplyInv, R!ReplyNext PROVE ReplyInv'
  BY <1>1, ReplyKeyStep, ReplySendStep, ReplyDeliveryStep, ReplyBesideStep DEF R!ReplyNext
<1>2. ASSUME ReplyInv, UNCHANGED replyVars PROVE ReplyInv'
  BY <1>2 DEF replyVars, ReplyInv, ReplyTypes, ReplySend, OneReply, HandedOnce, DraftStored, R!Presses
<1>3. [Next]_vars => R!ReplyNext \/ UNCHANGED replyVars
  BY DEF Next, vars, HistoryNext, AssistantNext, AttachNext, MediaNext, ContactsNext, ReplyNext, EchoNext
<1> QED
  BY <1>1, <1>2, <1>3

\* Every reply is accounted for, however Enter, Esc, ticks, answers, the closing
\* timer, a TideSMS beside the window and other processes' Open fall: the phone
\* gets it once for the Enter that sent it, never after it was taken back and
\* never before it is stored, and a text that never went stays in the drafts
\* (reply.go).
THEOREM RepliesAccounted == Spec => []ReplyAccounted
<1>1. Init => ReplyInv
  BY ReplyStarts DEF Init
<1>2. ReplyInv => ReplyAccounted
  <2> SUFFICES ASSUME ReplyInv PROVE R!ReplyAccounted
    BY DEF ReplyAccounted
  <2>1. \A n \in R!Presses : /\ handed[n] <= 1 /\ (n \in undone => handed[n] = 0)
                             /\ handed[n] = 1 => messages[n] # None
    BY DEF ReplyInv, ReplyTypes, HandedOnce
  <2>2. window = "closed" /\ (\A n \in R!Presses : handed[n] = 0) => rRow.body = rEditor \/ rRow.by = "app"
    BY DEF ReplyInv, ReplyTypes, DraftStored
  <2> QED
    BY <2>1, <2>2 DEF R!ReplyAccounted
<1> QED
  BY <1>1, <1>2, ReplyStep, PTL DEF Spec
-----------------------------------------------------------------------------
(* A message and its echo: which rows stand for which messages. *)

EchoRow ==
  [id : Nat, echo : BOOLEAN, body : Bodies, thread : {"local", "phone"}, at : Nat,
   status : {"queued", "sending", "submitted", "failed", "unknown", "sent"}]
EchoTypes ==
  /\ count \in [sent : Nat, typed : Nat] /\ count.sent <= MaxSends /\ span \in Nat
  /\ \A s \in eSends :
       /\ s \in [id : Nat, body : Bodies, queue : BOOLEAN, step : {"hand", "submitted", "failed"}]
       /\ s.id \in 1 .. count.sent
  /\ \A p \in phone :
       /\ p \in [id : Nat, body : Bodies, at : Nat]
       /\ p.id \in 1 .. count.sent \/ p.id \in MaxSends + 1 .. MaxSends + count.typed
  /\ merged \subseteq phone
  /\ \A r \in eRows :
       /\ r \in EchoRow
       /\ IF r.echo THEN \E p \in merged : r = E!Reported(p) ELSE r.id \in 1 .. count.sent
  /\ \A e \in refused : e \in [id : Nat, body : Bodies] /\ e.id \in 1 .. count.sent

\* One row, call or message has an id; a message that waits for its call is neither on
\* the phone nor refused; the phone's messages are in the table once they were reported.
Numbered ==
  /\ \A s, q \in eSends : s.id = q.id => s = q
  /\ \A p, q \in phone : p.id = q.id => p = q
  /\ \A r, q \in eRows : r.id = q.id /\ ~ r.echo /\ ~ q.echo => r = q
  /\ \A s \in eSends :
       s.step = "hand" => (\A p \in phone : p.id # s.id) /\ \A e \in refused : e.id # s.id
  /\ \A s \in eSends, r \in eRows : s.id = r.id /\ ~ r.echo => s.body = r.body
  /\ \A p \in merged : E!Reported(p) \in eRows

Locals(b) == {r \in eRows : ~ r.echo /\ r.body = b}
Sends(b) == {s \in eSends : s.body = b}
Unseen(b) == {p \in phone \ merged : p.body = b}
Refusal(i, b) == [id |-> i, body |-> b] \in refused

\* A local row waits for its call, for its echo or for nothing.
RowStands(b, r) ==
  \/ /\ r.status \in {"queued", "sending"}
     /\ \E s \in Sends(b) : s.id = r.id /\ (s.queue <=> r.status = "queued")
  \/ r.status = "submitted" /\ \E p \in Unseen(b) : p.id = r.id
  \/ r.status = "failed" /\ Refusal(r.id, b)
\* A call has its row until the echo took it.
SendStands(b, s) ==
  \/ s.step = "hand" /\ \E r \in Locals(b) : r.id = s.id /\ r.at = span
  \/ /\ s.step = "submitted"
     /\ \E p \in phone : /\ p.id = s.id /\ p.body = b
                         /\ IF p \in merged THEN ~ s.queue ELSE \E r \in Locals(b) : r.id = s.id
  \/ s.step = "failed" /\ Refusal(s.id, b)
TextStands(b) ==
  /\ \A r \in Locals(b) : RowStands(b, r)
  /\ \A s \in Sends(b) : SendStands(b, s)
  /\ \A p \in Unseen(b) : p.id <= MaxSends => \E r \in Locals(b) : r.id = p.id /\ r.at = p.at
  /\ \A p \in phone : p.body = b => ~ Refusal(p.id, b)
  /\ \A e \in refused : e.body = b => \E r \in Locals(b) : r.id = e.id
  /\ \A p \in merged, r \in Locals(b) : p.body = b => p.id # r.id
\* One call or one echo of the text is awaited.
OneAtATime(b) ==
  /\ \A s, q \in Sends(b) : s = q
  /\ \A r, q \in E!Outstanding(b) : r = q
  /\ \A s \in Sends(b), r \in E!Outstanding(b) : s.id = r.id
  /\ \A p \in Unseen(b) : p.id > MaxSends => Sends(b) = {} /\ E!Outstanding(b) = {}
EchoInv ==
  /\ EchoTypes /\ Numbered
  /\ \A b \in Bodies \ odd : TextStands(b) /\ OneAtATime(b)

LEMMA EchoStarts == E!EchoInit => EchoInv
BY EchoAssumption DEF E!EchoInit, EchoInv, EchoTypes, Numbered, TextStands, OneAtATime, Locals, Sends, Unseen, E!Outstanding

\* Everything a text has is reconciled when nothing of it is under way.
LEMMA EchoReconciles == EchoInv => Reconciled
<1> SUFFICES ASSUME EchoInv, NEW b \in Bodies \ odd,
                    \A s \in eSends : s.body # b, \A p \in phone \ merged : p.body # b
             PROVE  /\ {r.id : r \in {q \in eRows : q.body = b}}
                         = {p.id : p \in {q \in phone : q.body = b}}
                           \cup {e.id : e \in {f \in refused : f.body = b}}
                    /\ \A r, q \in eRows : r.body = b /\ q.body = b /\ r.id = q.id => r = q
  BY DEF Reconciled, E!Reconciled
<1> USE DEF EchoInv, EchoTypes
<1>1. TextStands(b) /\ Numbered
  OBVIOUS
<1>2. Sends(b) = {} /\ Unseen(b) = {}
  BY DEF Sends, Unseen
<1>3. \A r \in eRows : r.body = b /\ ~ r.echo => Refusal(r.id, b)
  BY <1>1, <1>2 DEF TextStands, RowStands, Locals
<1>4. \A r \in eRows : r.body = b /\ r.echo => \E p \in merged : p.body = b /\ p.id = r.id /\ r = E!Reported(p)
  BY DEF E!Reported
<1>5. ASSUME NEW r \in eRows, r.body = b
      PROVE  r.id \in {p.id : p \in {q \in phone : q.body = b}}
                        \cup {e.id : e \in {f \in refused : f.body = b}}
  <2>1. CASE r.echo
    BY <1>4, <1>5, <2>1
  <2>2. CASE ~ r.echo
    <3> DEFINE e == [id |-> r.id, body |-> b]
    <3>1. e \in refused /\ e.body = b /\ e.id = r.id
      BY <1>3, <1>5, <2>2 DEF Refusal
    <3> QED
      BY <3>1
  <2> QED
    BY <2>1, <2>2
<1>6. ASSUME NEW p \in phone, p.body = b
      PROVE  p.id \in {r.id : r \in {q \in eRows : q.body = b}}
  <2>1. p \in merged /\ E!Reported(p) \in eRows
    BY <1>1, <1>2, <1>6 DEF Unseen, Numbered
  <2>2. E!Reported(p).id = p.id /\ E!Reported(p).body = b
    BY <1>6 DEF E!Reported
  <2> QED
    BY <2>1, <2>2
<1>7. ASSUME NEW e \in refused, e.body = b
      PROVE  e.id \in {r.id : r \in {q \in eRows : q.body = b}}
  BY <1>1, <1>7 DEF TextStands, Locals
<1>8. ASSUME NEW r \in eRows, NEW q \in eRows, r.body = b, q.body = b, r.id = q.id
      PROVE  r = q
  <2>1. CASE ~ r.echo /\ ~ q.echo
    BY <1>1, <1>8, <2>1 DEF Numbered
  <2>2. CASE r.echo /\ q.echo
    BY <1>1, <1>4, <1>8, <2>2 DEF Numbered
  <2>3. CASE r.echo /\ ~ q.echo
    BY <1>1, <1>4, <1>8, <2>3 DEF TextStands, Locals
  <2>4. CASE ~ r.echo /\ q.echo
    BY <1>1, <1>4, <1>8, <2>4 DEF TextStands, Locals
  <2> QED
    BY <2>1, <2>2, <2>3, <2>4
<1>9. {r.id : r \in {q \in eRows : q.body = b}}
        = {p.id : p \in {q \in phone : q.body = b}} \cup {e.id : e \in {f \in refused : f.body = b}}
  BY <1>5, <1>6, <1>7
<1> QED
  BY <1>8, <1>9

LEMMA StoreLocalStep ==
  ASSUME EchoInv, E!StoreLocal
  PROVE  EchoInv'
<1> USE EchoAssumption DEF EchoInv
<1>0. PICK b \in Bodies, t \in {"local", "phone"}, q \in BOOLEAN :
        /\ eRows' = eRows \cup {E!Local(count'.sent, b, t, IF q THEN "queued" ELSE "sending")}
        /\ eSends' = eSends \cup {[id |-> count'.sent, body |-> b, queue |-> q, step |-> "hand"]}
        /\ odd' = odd \cup (IF E!Awaited(b) \/ \E p \in phone \ merged : p.body = b THEN {b} ELSE {})
  BY DEF E!StoreLocal
<1> DEFINE i == count.sent + 1
<1>1. /\ count' \in [sent : Nat, typed : Nat] /\ count'.sent = i /\ count'.typed = count.typed
      /\ i <= MaxSends /\ i \in Nat
  BY DEF E!StoreLocal, EchoTypes
<1>2. UNCHANGED <<phone, span, merged, refused>>
  BY DEF E!StoreLocal
<1>3a. E!Local(i, b, t, IF q THEN "queued" ELSE "sending") \in EchoRow
  BY <1>0, <1>1 DEF E!Local, EchoRow, EchoTypes
<1>3. PICK row \in EchoRow :
      /\ eRows' = eRows \cup {row} /\ row.id = i /\ ~ row.echo /\ row.body = b
      /\ row.status = (IF q THEN "queued" ELSE "sending") /\ row.at = span
  BY <1>0, <1>1, <1>3a DEF E!Local
<1>4. PICK send \in [id : Nat, body : Bodies, queue : BOOLEAN, step : {"hand", "submitted", "failed"}] :
      /\ eSends' = eSends \cup {send} /\ send.id = i /\ send.body = b /\ send.step = "hand"
      /\ send.queue = q
  <2> DEFINE new == [id |-> i, body |-> b, queue |-> q, step |-> "hand"]
  <2>1. new \in [id : Nat, body : Bodies, queue : BOOLEAN, step : {"hand", "submitted", "failed"}]
    BY <1>1
  <2> QED
    BY <1>0, <1>1, <2>1
<1>5. EchoTypes'
  BY <1>1, <1>2, <1>3, <1>4 DEF EchoTypes
<1>6. /\ \A s \in eSends : s.id < i
      /\ \A r \in eRows : ~ r.echo => r.id < i
      /\ \A p \in phone : p.id # i
      /\ \A e \in refused : e.id < i
  BY <1>1 DEF EchoTypes
<1>7. Numbered'
  BY <1>1, <1>2, <1>3, <1>4, <1>6 DEF Numbered
<1>8. ASSUME NEW c \in Bodies \ odd' PROVE (TextStands(c) /\ OneAtATime(c))'
  <2>0. c \in Bodies \ odd /\ TextStands(c) /\ OneAtATime(c)
    BY <1>0, <1>8
  <2>1. CASE c # b
    <3>1. Locals(c)' = Locals(c) /\ Sends(c)' = Sends(c) /\ Unseen(c)' = Unseen(c)
      BY <1>2, <1>3, <1>4, <2>1 DEF Locals, Sends, Unseen
    <3>2. E!Outstanding(c)' = E!Outstanding(c)
      BY <1>3, <2>1 DEF E!Outstanding
    <3> QED
      BY <1>2, <2>0, <3>1, <3>2 DEF TextStands, OneAtATime, RowStands, SendStands, Refusal
  <2>2. CASE c = b
    <3>1. /\ Sends(b) = {} /\ E!Outstanding(b) = {} /\ Unseen(b) = {}
      BY <1>0, <1>8, <2>2 DEF E!Awaited, Sends, Unseen
    <3>2. /\ Locals(b)' = Locals(b) \cup {row} /\ Sends(b)' = {send} /\ Unseen(b)' = {}
      BY <1>2, <1>3, <1>4, <3>1 DEF Locals, Sends, Unseen
    <3>3. E!Outstanding(b)' \subseteq {row}
      BY <1>3, <3>1 DEF E!Outstanding
    <3>4. OneAtATime(b)'
      BY <1>3, <1>4, <3>2, <3>3 DEF OneAtATime
    <3>5. \A r \in Locals(b) : RowStands(b, r)'
      BY <1>2, <2>0, <2>2, <3>1 DEF TextStands, RowStands, Refusal
    <3>6. RowStands(b, row)'
      BY <1>3, <1>4, <3>2 DEF RowStands
    <3>7. SendStands(b, send)'
      BY <1>2, <1>3, <1>4, <1>6, <3>2 DEF SendStands
    <3>8. TextStands(b)'
      BY <1>2, <1>3, <1>6, <2>0, <2>2, <3>2, <3>5, <3>6, <3>7 DEF TextStands, Refusal, EchoTypes
    <3> QED
      BY <2>2, <3>4, <3>8
  <2> QED
    BY <2>1, <2>2
<1> QED
  BY <1>5, <1>7, <1>8

LEMMA TypedThereStep ==
  ASSUME EchoInv, E!TypedThere
  PROVE  EchoInv'
<1> USE EchoAssumption DEF EchoInv
<1>0. PICK b \in Bodies :
        /\ phone' = phone \cup {[id |-> MaxSends + count'.typed, body |-> b, at |-> span]}
        /\ odd' = odd \cup (IF E!Awaited(b) THEN {b} ELSE {})
  BY DEF E!TypedThere
<1> DEFINE i == MaxSends + count.typed + 1
           p == [id |-> i, body |-> b, at |-> span]
<1>1. /\ count' \in [sent : Nat, typed : Nat] /\ count'.sent = count.sent
      /\ count'.typed = count.typed + 1 /\ count.typed \in Nat
  BY DEF E!TypedThere, EchoTypes
<1>2. UNCHANGED <<eRows, eSends, span, merged, refused>>
  BY DEF E!TypedThere
<1>3. /\ phone' = phone \cup {p} /\ p.id = i /\ p.body = b
      /\ p \in [id : Nat, body : Bodies, at : Nat]
  BY <1>0, <1>1 DEF EchoTypes
<1> HIDE DEF p
<1>5. EchoTypes'
  BY <1>1, <1>2, <1>3 DEF EchoTypes
<1>6. /\ \A s \in eSends : s.id < i
      /\ \A r \in eRows : ~ r.echo => r.id < i
      /\ \A m \in phone : m.id # i
      /\ \A e \in refused : e.id < i
      /\ p \notin merged /\ i > MaxSends
  BY <1>1, <1>3 DEF EchoTypes
<1>7. Numbered'
  BY <1>1, <1>2, <1>3, <1>6 DEF Numbered
<1>8. ASSUME NEW c \in Bodies \ odd' PROVE (TextStands(c) /\ OneAtATime(c))'
  <2>0. c \in Bodies \ odd /\ TextStands(c) /\ OneAtATime(c)
    BY <1>0, <1>8
  <2>1. /\ Locals(c)' = Locals(c) /\ Sends(c)' = Sends(c)
        /\ E!Outstanding(c)' = E!Outstanding(c)
    BY <1>2 DEF Locals, Sends, E!Outstanding
  <2>2. Unseen(c)' = Unseen(c) \cup {m \in {p} : m.body = c}
    BY <1>2, <1>3, <1>6 DEF Unseen
  <2>3. p.body = c => Sends(c) = {} /\ E!Outstanding(c) = {}
    BY <1>0, <1>3, <1>8 DEF E!Awaited, Sends
  <2>4. OneAtATime(c)'
    BY <2>0, <2>1, <2>2, <2>3 DEF OneAtATime
  <2>5. \A r \in Locals(c) : RowStands(c, r)'
    BY <1>2, <2>0, <2>1, <2>2 DEF TextStands, RowStands, Refusal
  <2>6. \A s \in Sends(c) : SendStands(c, s)'
    BY <1>2, <1>3, <1>6, <2>0, <2>1 DEF TextStands, SendStands, Refusal, Sends
  <2>7. ~ Refusal(p.id, c)
    BY <1>3, <1>6 DEF Refusal
  <2>8. TextStands(c)'
    BY <1>2, <1>3, <1>6, <2>0, <2>1, <2>2, <2>5, <2>6, <2>7 DEF TextStands, Refusal
  <2> QED
    BY <2>4, <2>8
<1> QED
  BY <1>5, <1>7, <1>8

\* Two minutes, and another process opening the database.
LEMMA TimeStep ==
  ASSUME EchoInv, E!Elapse \/ E!OpenStore
  PROVE  EchoInv'
<1> USE EchoAssumption DEF EchoInv
<1>1. ASSUME E!Elapse PROVE EchoInv'
  <2> USE <1>1 DEF E!Elapse
  <2>1. EchoTypes'
    BY DEF EchoTypes
  <2>2. Numbered'
    BY DEF Numbered
  <2>3. ASSUME NEW c \in Bodies \ odd' PROVE (TextStands(c) /\ OneAtATime(c))'
    <3>0. c \in Bodies \ odd /\ TextStands(c) /\ OneAtATime(c)
      BY <2>3
    <3>1. \A s \in Sends(c) : s.step # "hand"
      BY <2>3 DEF Sends
    <3>2. /\ Locals(c)' = Locals(c) /\ Sends(c)' = Sends(c) /\ Unseen(c)' = Unseen(c)
          /\ E!Outstanding(c)' = E!Outstanding(c)
      BY DEF Locals, Sends, Unseen, E!Outstanding
    <3>3. \A r \in Locals(c) : RowStands(c, r)'
      BY <3>0, <3>2 DEF TextStands, RowStands, Refusal
    <3>4. \A s \in Sends(c) : SendStands(c, s)'
      BY <3>0, <3>1, <3>2 DEF TextStands, SendStands, Refusal
    <3> QED
      BY <3>0, <3>2, <3>3, <3>4 DEF TextStands, OneAtATime, Refusal
  <2> QED
    BY <2>1, <2>2, <2>3
<1>2. ASSUME E!OpenStore PROVE EchoInv'
  <2> DEFINE Opened(r) == IF r.status = "sending" THEN [r EXCEPT !.status = "unknown"] ELSE r
  <2>0. /\ eRows' = {Opened(r) : r \in eRows}
        /\ odd' = odd \cup {r.body : r \in {q \in eRows : q.status = "sending"}}
        /\ UNCHANGED <<eSends, phone, span, merged, refused, count>>
    BY <1>2 DEF E!OpenStore
  <2>1. \A r \in eRows :
          /\ Opened(r) \in EchoRow /\ Opened(r).id = r.id /\ Opened(r).echo = r.echo
          /\ Opened(r).body = r.body /\ Opened(r).at = r.at
          /\ r.status # "sending" => Opened(r) = r
          /\ r.echo => Opened(r) = r
    BY DEF EchoTypes, EchoRow, E!Reported
  <2> HIDE DEF Opened
  <2>2. EchoTypes'
    BY <2>0, <2>1 DEF EchoTypes
  <2>3. Numbered'
    <3>1. \A p \in merged : E!Reported(p).echo /\ E!Reported(p)' = E!Reported(p)
      BY DEF E!Reported
    <3>2. \A p \in merged : E!Reported(p) \in eRows'
      BY <2>0, <2>1, <3>1 DEF Numbered
    <3>3. \A r, q \in eRows' : r.id = q.id /\ ~ r.echo /\ ~ q.echo => r = q
      BY <2>0, <2>1 DEF Numbered
    <3>4. \A s \in eSends, r \in eRows' : s.id = r.id /\ ~ r.echo => s.body = r.body
      BY <2>0, <2>1 DEF Numbered
    <3> QED
      BY <2>0, <3>1, <3>2, <3>3, <3>4 DEF Numbered
  <2>4. ASSUME NEW c \in Bodies \ odd' PROVE (TextStands(c) /\ OneAtATime(c))'
    <3>0. c \in Bodies \ odd /\ TextStands(c) /\ OneAtATime(c)
      BY <2>0, <2>4
    <3>1. \A r \in eRows : r.body = c => Opened(r) = r
      BY <2>0, <2>1, <2>4
    <3>2. /\ Locals(c)' = Locals(c) /\ Sends(c)' = Sends(c) /\ Unseen(c)' = Unseen(c)
          /\ E!Outstanding(c)' = E!Outstanding(c)
      BY <2>0, <2>1, <3>1 DEF Locals, Sends, Unseen, E!Outstanding
    <3> QED
      BY <2>0, <3>0, <3>2 DEF TextStands, OneAtATime, RowStands, SendStands, Refusal
  <2> QED
    BY <2>2, <2>3, <2>4
<1> QED
  BY <1>1, <1>2

LEMMA HandStep ==
  ASSUME EchoInv, NEW s \in eSends, E!Hand(s)
  PROVE  EchoInv'
<1> USE EchoAssumption DEF EchoInv
<1> DEFINE b == s.body
<1>0. PICK taken \in BOOLEAN, ok \in BOOLEAN :
        /\ ok => taken
        /\ phone' = IF taken THEN phone \cup {[id |-> s.id, body |-> s.body, at |-> span]} ELSE phone
        /\ eSends' = (eSends \ {s}) \cup {[s EXCEPT !.step = IF ok THEN "submitted" ELSE "failed"]}
        /\ refused' = IF ok THEN refused ELSE refused \cup {[id |-> s.id, body |-> s.body]}
        /\ odd' = odd \cup (IF taken /\ ~ok THEN {s.body} ELSE {})
  BY DEF E!Hand
<1>1. UNCHANGED <<eRows, span, merged, count>> /\ s.step = "hand"
  BY DEF E!Hand
<1>2. /\ s \in [id : Nat, body : Bodies, queue : BOOLEAN, step : {"hand", "submitted", "failed"}]
      /\ s.id \in 1 .. count.sent /\ span \in Nat /\ count.sent <= MaxSends /\ count.sent \in Nat
  BY DEF EchoTypes
<1>3. PICK p \in [id : Nat, body : Bodies, at : Nat] :
        p = [id |-> s.id, body |-> s.body, at |-> span] /\ p.id = s.id /\ p.body = b /\ p.at = span
  <2> DEFINE new == [id |-> s.id, body |-> s.body, at |-> span]
  <2>1. new \in [id : Nat, body : Bodies, at : Nat]
    BY <1>2
  <2> QED
    BY <2>1
<1>4. PICK t \in [id : Nat, body : Bodies, queue : BOOLEAN, step : {"hand", "submitted", "failed"}] :
        /\ eSends' = (eSends \ {s}) \cup {t} /\ t.id = s.id /\ t.body = b /\ t.queue = s.queue
        /\ t.step = IF ok THEN "submitted" ELSE "failed"
  <2> DEFINE new == [s EXCEPT !.step = IF ok THEN "submitted" ELSE "failed"]
  <2>1. new \in [id : Nat, body : Bodies, queue : BOOLEAN, step : {"hand", "submitted", "failed"}]
    BY <1>2
  <2>2. new.id = s.id /\ new.body = b /\ new.queue = s.queue
        /\ new.step = IF ok THEN "submitted" ELSE "failed"
    BY <1>2
  <2> QED
    BY <1>0, <2>1, <2>2
<1>5. PICK e \in [id : Nat, body : Bodies] :
        e = [id |-> s.id, body |-> s.body] /\ e.id = s.id /\ e.body = b
  <2> DEFINE new == [id |-> s.id, body |-> s.body]
  <2>1. new \in [id : Nat, body : Bodies]
    BY <1>2
  <2> QED
    BY <2>1
<1>6. /\ phone' = IF taken THEN phone \cup {p} ELSE phone
      /\ refused' = IF ok THEN refused ELSE refused \cup {e}
  BY <1>0, <1>3, <1>5
<1>7. EchoTypes'
  BY <1>1, <1>2, <1>3, <1>4, <1>5, <1>6 DEF EchoTypes
<1>8. ASSUME NEW c \in Bodies \ odd' PROVE (TextStands(c) /\ OneAtATime(c))'
  <2>0. c \in Bodies \ odd /\ TextStands(c) /\ OneAtATime(c)
    BY <1>0, <1>8
  <2>1. CASE c # b
    <3>1. Locals(c)' = Locals(c) /\ Sends(c)' = Sends(c) /\ Unseen(c)' = Unseen(c)
      BY <1>1, <1>3, <1>4, <1>6, <2>1 DEF Locals, Sends, Unseen
    <3>2. E!Outstanding(c)' = E!Outstanding(c)
      BY <1>1 DEF E!Outstanding
    <3>3. \A k : Refusal(k, c)' <=> Refusal(k, c)
      BY <1>5, <1>6, <2>1 DEF Refusal
    <3>4. \A q \in Sends(c) : q.id # s.id
      BY <2>1 DEF Sends, Numbered
    <3>5. \A q \in Sends(c) : SendStands(c, q)'
      BY <1>1, <1>3, <1>6, <2>0, <2>1, <3>1, <3>3, <3>4 DEF TextStands, SendStands
    <3>6. \A r \in Locals(c) : RowStands(c, r)'
      BY <2>0, <3>1, <3>3 DEF TextStands, RowStands
    <3>7. TextStands(c)'
      BY <1>1, <1>3, <1>5, <1>6, <2>0, <2>1, <3>1, <3>3, <3>5, <3>6 DEF TextStands
    <3> QED
      BY <2>0, <3>1, <3>2, <3>7 DEF OneAtATime
  <2>2. CASE c = b
    <3>1. Sends(b) = {s} /\ SendStands(b, s) /\ ok = taken
      BY <1>0, <1>8, <2>0, <2>2 DEF OneAtATime, TextStands, Sends
    <3>2. PICK row \in Locals(b) : row.id = s.id /\ row.at = span
      BY <1>1, <3>1 DEF SendStands
    <3>3. \A q \in phone : q.id # s.id
      BY <1>1 DEF Numbered
    <3>4. /\ Locals(b)' = Locals(b) /\ Sends(b)' = {t} /\ E!Outstanding(b)' = E!Outstanding(b)
          /\ Unseen(b)' = IF taken THEN Unseen(b) \cup {p} ELSE Unseen(b)
      <4>1. p \notin merged
        BY <1>3, <3>3 DEF EchoTypes
      <4> QED
        BY <1>1, <1>3, <1>4, <1>6, <3>1, <4>1 DEF Locals, Sends, Unseen, E!Outstanding
    <3>5. p.id <= MaxSends
      BY <1>2, <1>3
    <3>6. OneAtATime(b)'
      BY <1>4, <2>0, <2>2, <3>1, <3>4, <3>5 DEF OneAtATime
    <3>7. \A r \in Locals(b) : r.status \in {"queued", "sending"} => r.id = s.id
      BY <2>0, <2>2, <3>1, <3>3 DEF TextStands, RowStands
    <3>8. \A r \in Locals(b) : RowStands(b, r)'
      BY <1>4, <1>5, <1>6, <2>0, <2>2, <3>1, <3>4 DEF TextStands, RowStands, Refusal
    <3>9. SendStands(b, t)'
      BY <1>1, <1>3, <1>4, <1>5, <1>6, <3>1, <3>2, <3>3, <3>4 DEF SendStands, Refusal, EchoTypes
    <3>10. ok => ~ Refusal(s.id, b)
      BY <1>1, <1>5 DEF Numbered, Refusal
    <3>11. TextStands(b)'
      BY <1>1, <1>3, <1>4, <1>5, <1>6, <2>0, <2>2, <3>1, <3>2, <3>3, <3>4, <3>8, <3>9, <3>10 DEF TextStands, Refusal
    <3> QED
      BY <2>2, <3>6, <3>11
  <2> QED
    BY <2>1, <2>2
<1>9. Numbered'
  <2>1. \A q \in phone : q.id # s.id
    BY <1>1 DEF Numbered
  <2>2. \A q, m \in phone' : q.id = m.id => q = m
    BY <1>3, <1>6, <2>1 DEF Numbered
  <2>3. \A q, m \in eSends' : q.id = m.id => q = m
    BY <1>4 DEF Numbered
  <2>4. \A q \in eSends' : q.step = "hand" => q \in eSends /\ q.id # s.id
    BY <1>4 DEF Numbered
  <2>5. \A q \in eSends' :
          q.step = "hand" => (\A m \in phone' : m.id # q.id) /\ \A f \in refused' : f.id # q.id
    BY <1>3, <1>5, <1>6, <2>4 DEF Numbered
  <2>6. \A q \in eSends', r \in eRows : q.id = r.id /\ ~ r.echo => q.body = r.body
    BY <1>4 DEF Numbered
  <2> QED
    BY <1>1, <2>2, <2>3, <2>5, <2>6 DEF Numbered, E!Reported
<1> QED
  BY <1>7, <1>8, <1>9

LEMMA RecordStep ==
  ASSUME EchoInv, NEW s \in eSends, E!Record(s)
  PROVE  EchoInv'
<1> USE EchoAssumption DEF EchoInv
<1> DEFINE b == s.body
           Noted(r) == IF r.id = s.id /\ ~r.echo THEN [r EXCEPT !.status = s.step] ELSE r
<1>0. /\ s.step \in {"submitted", "failed"} /\ eSends' = eSends \ {s}
      /\ eRows' = {Noted(r) : r \in eRows}
      /\ UNCHANGED <<phone, span, merged, refused, odd, count>>
  BY DEF E!Record
<1>1. \A r \in eRows :
        /\ Noted(r) \in EchoRow /\ Noted(r).id = r.id /\ Noted(r).echo = r.echo
        /\ Noted(r).body = r.body /\ Noted(r).at = r.at
        /\ Noted(r) = r \/ (r.id = s.id /\ ~ r.echo /\ Noted(r).status = s.step)
        /\ r.id = s.id /\ ~ r.echo => Noted(r).status = s.step
        /\ (r.echo => Noted(r) = r)
  BY <1>0 DEF EchoTypes, EchoRow
<1> HIDE DEF Noted
<1>2. EchoTypes'
  BY <1>0, <1>1 DEF EchoTypes, E!Reported
<1>3. Numbered'
  <2>1. \A p \in merged : E!Reported(p).echo /\ E!Reported(p)' = E!Reported(p)
    BY DEF E!Reported
  <2>2. \A p \in merged : E!Reported(p) \in eRows'
    BY <1>0, <1>1, <2>1 DEF Numbered
  <2>3. \A r, q \in eRows' : r.id = q.id /\ ~ r.echo /\ ~ q.echo => r = q
    BY <1>0, <1>1 DEF Numbered
  <2>4. \A q \in eSends', r \in eRows' : q.id = r.id /\ ~ r.echo => q.body = r.body
    BY <1>0, <1>1 DEF Numbered
  <2> QED
    BY <1>0, <2>1, <2>2, <2>3, <2>4 DEF Numbered
<1>4. ASSUME NEW c \in Bodies \ odd' PROVE (TextStands(c) /\ OneAtATime(c))'
  <2>0. c \in Bodies \ odd /\ TextStands(c) /\ OneAtATime(c)
    BY <1>0, <1>4
  <2>1. Unseen(c)' = Unseen(c) /\ \A k : Refusal(k, c)' <=> Refusal(k, c)
    BY <1>0 DEF Unseen, Refusal
  <2>2. CASE c # b
    <3>1. \A r \in eRows : r.body = c /\ ~ r.echo => Noted(r) = r
      BY <1>1, <2>2 DEF Numbered
    <3>2. Locals(c)' = Locals(c) /\ Sends(c)' = Sends(c) /\ E!Outstanding(c)' = E!Outstanding(c)
      BY <1>0, <1>1, <2>2, <3>1 DEF Locals, Sends, E!Outstanding
    <3>3. TextStands(c)'
      BY <1>0, <2>0, <2>1, <3>2 DEF TextStands, RowStands, SendStands
    <3> QED
      BY <2>0, <2>1, <3>2, <3>3 DEF OneAtATime
  <2>3. CASE c = b
    <3>1. /\ Sends(b) = {s} /\ Sends(b)' = {} /\ SendStands(b, s)
          /\ \A p \in Unseen(b) : ~ p.id > MaxSends
      BY <1>0, <1>2, <2>0, <2>3 DEF OneAtATime, TextStands, Sends, Unseen, EchoTypes
    <3>2. /\ Locals(b)' = {Noted(r) : r \in Locals(b)}
      BY <1>0, <1>1 DEF Locals
    <3>3. \A r \in E!Outstanding(b)' : r.id = s.id /\ ~ r.echo
      BY <1>0, <1>1, <2>0, <2>3, <3>1 DEF E!Outstanding, OneAtATime
    <3>4. \A r, q \in E!Outstanding(b)' : r = q
      BY <1>3, <3>3 DEF E!Outstanding, Numbered
    <3>5. OneAtATime(b)'
      BY <2>1, <2>3, <3>1, <3>4 DEF OneAtATime
    <3>7. ASSUME NEW n \in Locals(b)' PROVE RowStands(b, n)'
      <4>1. PICK r \in Locals(b) : n = Noted(r)
        BY <3>2
      <4>2. CASE r.id # s.id
        <5>1. n = r /\ RowStands(b, r)
          BY <1>1, <2>0, <2>3, <4>1, <4>2 DEF Locals, TextStands
        <5>2. \/ r.status = "submitted" /\ \E p \in Unseen(b) : p.id = r.id
              \/ r.status = "failed" /\ Refusal(r.id, b)
          BY <3>1, <4>2, <5>1 DEF RowStands
        <5> QED
          BY <2>1, <2>3, <5>1, <5>2 DEF RowStands
      <4>3. CASE r.id = s.id
        <5>1. n.status = s.step /\ n.id = s.id
          BY <1>1, <4>1, <4>3 DEF Locals
        <5>2. s.step = "submitted" => \E p \in Unseen(b) : p.id = s.id
          BY <1>0, <2>0, <2>3, <3>1, <4>3 DEF SendStands, TextStands, Unseen
        <5>3. s.step = "failed" => Refusal(s.id, b)
          BY <3>1 DEF SendStands
        <5> QED
          BY <1>0, <2>1, <2>3, <5>1, <5>2, <5>3 DEF RowStands
      <4> QED
        BY <4>2, <4>3
    <3>8. \A k : (\E r \in Locals(b) : r.id = k) => \E r \in Locals(b)' : r.id = k
      BY <1>1, <3>2 DEF Locals
    <3>9. \A r \in Locals(b)' : \E q \in Locals(b) : q.id = r.id
      BY <1>1, <3>2 DEF Locals
    <3>10. \A p \in Unseen(b) : p.id <= MaxSends => \E r \in Locals(b)' : r.id = p.id /\ r.at = p.at
      BY <1>1, <2>0, <2>3, <3>2 DEF TextStands, Locals
    <3>11. TextStands(b)'
      BY <1>0, <2>0, <2>1, <2>3, <3>1, <3>7, <3>8, <3>9, <3>10 DEF TextStands
    <3> QED
      BY <2>3, <3>5, <3>11
  <2> QED
    BY <2>2, <2>3
<1> QED
  BY <1>2, <1>3, <1>4

\* A report moves every row to the phone's thread.
Moved(r) == [r EXCEPT !.thread = "phone"]
LEMMA MovedRows ==
  ASSUME EchoTypes
  PROVE  \A r \in eRows :
           /\ Moved(r) \in EchoRow /\ Moved(r).id = r.id /\ Moved(r).echo = r.echo
           /\ Moved(r).body = r.body /\ Moved(r).at = r.at /\ Moved(r).status = r.status
           /\ Moved(r).thread = "phone"
           /\ (r.echo => Moved(r) = r)
BY DEF EchoTypes, EchoRow, E!Reported, Moved

\* It takes the one local row it can stand for, if there is one.
Taken(p) == {r \in E!Outstanding(p.body) : r.at = p.at}
LEMMA EchoTakes ==
  ASSUME EchoTypes, Numbered, NEW p \in phone, E!MergeEcho(p)
  PROVE  /\ p \in merged => eRows' = {Moved(r) : r \in eRows}
         /\ p \notin merged =>
              \/ /\ (\A r, q \in Taken(p) : r = q) => Taken(p) = {}
                 /\ eRows' = {Moved(r) : r \in eRows} \cup {E!Reported(p)}
              \/ \E r \in Taken(p) :
                   eRows' = {Moved(q) : q \in eRows \ {r}} \cup {E!Reported(p)}
<1> DEFINE all == {Moved(r) : r \in eRows}
           local == E!Matching(all, p)
<1>1. /\ eRows' = IF E!Reported(p) \in all THEN all
                  ELSE (IF \E r \in local : local = {r} THEN all \ local ELSE all) \cup {E!Reported(p)}
  BY DEF E!MergeEcho, E!Promoted, Moved
<1>2. E!Reported(p) \in all <=> p \in merged
  <2>1. ASSUME p \in merged PROVE E!Reported(p) \in all
    <3>1. E!Reported(p) \in eRows /\ E!Reported(p).echo
      BY <2>1 DEF Numbered, E!Reported
    <3>2. Moved(E!Reported(p)) = E!Reported(p)
      BY <3>1, MovedRows
    <3> QED
      BY <3>1, <3>2
  <2>2. ASSUME NEW r \in eRows, Moved(r) = E!Reported(p) PROVE p \in merged
    <3>1. r.echo /\ r.id = p.id
      BY <2>2, MovedRows DEF E!Reported
    <3>2. PICK q \in merged : r = E!Reported(q)
      BY <3>1 DEF EchoTypes
    <3> QED
      BY <3>1, <3>2 DEF E!Reported, Numbered, EchoTypes
  <2> QED
    BY <2>1, <2>2
<1>3. local = {Moved(r) : r \in Taken(p)}
  BY MovedRows DEF E!Matching, E!Outstanding, Taken
<1>4. \A r, q \in Taken(p) : Moved(r) = Moved(q) => r = q
  BY MovedRows DEF Numbered, E!Outstanding, Taken
<1>5. ASSUME NEW r \in Taken(p), local = {Moved(r)}
      PROVE  all \ local = {Moved(q) : q \in eRows \ {r}}
  <2>1. r \in eRows /\ ~ r.echo
    BY DEF Taken, E!Outstanding
  <2>2. \A q \in eRows : Moved(q) = Moved(r) => q = r
    BY <2>1, MovedRows DEF Numbered
  <2> QED
    BY <1>5, <2>1, <2>2
<1>6. ASSUME p \notin merged, \E r \in local : local = {r}
      PROVE  \E r \in Taken(p) : eRows' = {Moved(q) : q \in eRows \ {r}} \cup {E!Reported(p)}
  <2>1. PICK r \in Taken(p) : local = {Moved(r)}
    BY <1>3, <1>6
  <2> QED
    BY <1>1, <1>2, <1>5, <1>6, <2>1
<1>7. ASSUME p \notin merged, ~ \E r \in local : local = {r}
      PROVE  /\ (\A r, q \in Taken(p) : r = q) => Taken(p) = {}
             /\ eRows' = all \cup {E!Reported(p)}
  <2>1. (\A r, q \in Taken(p) : r = q) => Taken(p) = {}
    <3>1. SUFFICES ASSUME \A r, q \in Taken(p) : r = q, NEW r \in Taken(p) PROVE FALSE
      OBVIOUS
    <3>2. local = {Moved(r)}
      BY <1>3, <3>1
    <3> QED
      BY <1>7, <3>2
  <2> QED
    BY <1>1, <1>2, <1>7, <2>1
<1> QED
  BY <1>1, <1>2, <1>6, <1>7

LEMMA MergeEchoStep ==
  ASSUME EchoInv, NEW p \in phone, E!MergeEcho(p)
  PROVE  EchoInv'
<1> USE EchoAssumption DEF EchoInv
<1> DEFINE b == p.body
<1>0. /\ merged' = merged \cup {p}
      /\ odd' = odd \cup (IF \E s \in eSends : s.id = p.id /\ s.queue THEN {b} ELSE {})
      /\ UNCHANGED <<eSends, phone, span, refused, count>>
  BY DEF E!MergeEcho
<1>1. PICK new : new = E!Reported(p) /\ new \in EchoRow /\ new.echo /\ new.id = p.id /\ new.body = b
                 /\ \A r \in eRows : Moved(r) = new => r.echo
  <2>1. E!Reported(p) \in EchoRow
    BY DEF E!Reported, EchoRow, EchoTypes
  <2> QED
    BY <2>1, MovedRows DEF E!Reported
\* The rows that stay.
<1>2. PICK stay \in SUBSET eRows :
        /\ eRows' = {Moved(r) : r \in stay} \cup {new}
        /\ \A r \in eRows \ stay : r \in Taken(p) /\ p \notin merged
        /\ p \notin merged /\ (\A r, q \in Taken(p) : r = q) => stay \cap Taken(p) = {}
        /\ \A r, q \in eRows \ stay : r = q
  <2>1. CASE p \in merged
    <3>1. eRows' = {Moved(r) : r \in eRows} /\ new \in eRows'
      BY <1>1, <2>1, EchoTakes, MovedRows DEF Numbered
    <3> QED
      BY <2>1, <3>1
  <2>2. CASE p \notin merged
    <3>1. CASE /\ (\A r, q \in Taken(p) : r = q) => Taken(p) = {}
               /\ eRows' = {Moved(r) : r \in eRows} \cup {new}
      BY <3>1
    <3>2. ASSUME NEW r \in Taken(p), eRows' = {Moved(q) : q \in eRows \ {r}} \cup {new}
          PROVE  \E stay \in SUBSET eRows :
                   /\ eRows' = {Moved(q) : q \in stay} \cup {new}
                   /\ \A q \in eRows \ stay : q \in Taken(p) /\ p \notin merged
                   /\ p \notin merged /\ (\A q, s \in Taken(p) : q = s) => stay \cap Taken(p) = {}
                   /\ \A q, s \in eRows \ stay : q = s
      <4> WITNESS eRows \ {r} \in SUBSET eRows
      <4> QED
        BY <2>2, <3>2
    <3> QED
      BY <1>1, <2>2, <3>1, <3>2, EchoTakes
  <2> QED
    BY <2>1, <2>2
<1>3. \A r \in eRows :
           /\ Moved(r) \in EchoRow /\ Moved(r).id = r.id /\ Moved(r).echo = r.echo
           /\ Moved(r).body = r.body /\ Moved(r).at = r.at /\ Moved(r).status = r.status
           /\ (r.echo => Moved(r) = r)
  BY MovedRows
<1>a. \A q : E!Reported(q)' = E!Reported(q)
  BY DEF E!Reported
<1>4. EchoTypes'
  <2>1. \A r \in eRows : IF r.echo THEN \E q \in merged : r = E!Reported(q) ELSE r.id \in 1 .. count.sent
    BY DEF EchoTypes
  <2>2. ASSUME NEW r \in eRows'
        PROVE  /\ r \in EchoRow
               /\ IF r.echo THEN \E q \in merged' : r = E!Reported(q) ELSE r.id \in 1 .. count.sent
    <3>1. CASE r = new
      BY <1>0, <1>1, <3>1
    <3>2. ASSUME NEW q \in stay, r = Moved(q)
          PROVE  /\ r \in EchoRow
                 /\ IF r.echo THEN \E m \in merged' : r = E!Reported(m) ELSE r.id \in 1 .. count.sent
      BY <1>0, <1>3, <2>1, <3>2
    <3> QED
      BY <1>2, <3>1, <3>2
  <2>3. merged' \subseteq phone
    BY <1>0 DEF EchoTypes
  <2> QED
    BY <1>0, <1>a, <2>2, <2>3 DEF EchoTypes
<1>5. Numbered'
  <2>1. \A q \in merged : E!Reported(q).echo /\ E!Reported(q) \in stay
    BY <1>2 DEF Numbered, Taken, E!Outstanding, E!Reported
  <2>2. ASSUME NEW q \in merged' PROVE E!Reported(q) \in eRows'
    <3>1. CASE q = p
      BY <1>1, <1>2, <3>1
    <3>2. CASE q \in merged
      <4>1. Moved(E!Reported(q)) = E!Reported(q) /\ E!Reported(q) \in stay
        BY <1>2, <1>3, <2>1, <3>2
      <4> QED
        BY <1>2, <4>1
    <3> QED
      BY <1>0, <3>1, <3>2
  <2>3. \A r, q \in eRows' : r.id = q.id /\ ~ r.echo /\ ~ q.echo => r = q
    BY <1>1, <1>2, <1>3 DEF Numbered
  <2>4. \A q \in eSends, r \in eRows' : q.id = r.id /\ ~ r.echo => q.body = r.body
    BY <1>1, <1>2, <1>3 DEF Numbered
  <2> QED
    BY <1>0, <1>a, <2>2, <2>3, <2>4 DEF Numbered
<1>6. ASSUME NEW c \in Bodies \ odd' PROVE (TextStands(c) /\ OneAtATime(c))'
  <2>0. c \in Bodies \ odd /\ TextStands(c) /\ OneAtATime(c)
    BY <1>0, <1>6
  <2>1. Sends(c)' = Sends(c) /\ \A k : Refusal(k, c)' <=> Refusal(k, c)
    BY <1>0 DEF Sends, Refusal
  <2>2. Unseen(c)' = Unseen(c) \ {p}
    BY <1>0 DEF Unseen
  <2>3. Locals(c)' = {Moved(r) : r \in stay \cap Locals(c)}
    BY <1>1, <1>2, <1>3 DEF Locals
  <2>4. E!Outstanding(c)' = {Moved(r) : r \in stay \cap E!Outstanding(c)}
    BY <1>1, <1>2, <1>3 DEF E!Outstanding
  <2>5. OneAtATime(c)'
    <3>1. \A r \in E!Outstanding(c) : r \in eRows
      BY DEF E!Outstanding
    <3> QED
      BY <1>3, <2>0, <2>1, <2>2, <2>4, <3>1 DEF OneAtATime
  \* Only the row of the reported message is taken for it.
  <2>9. ASSUME c = b, p \notin merged, NEW r \in Locals(b)
        PROVE  r.id = p.id <=> r \in Taken(p)
    <3>0. p \in Unseen(b) /\ r \in eRows /\ ~ r.echo /\ r.body = b
      BY <2>9 DEF Unseen, Locals
    <3>1. ASSUME r.id = p.id PROVE r \in Taken(p)
      <4>1. r.id <= MaxSends
        BY <3>0 DEF EchoTypes
      <4>2. PICK q \in Locals(b) : q.id = p.id /\ q.at = p.at
        BY <2>0, <2>9, <3>0, <3>1, <4>1 DEF TextStands
      <4>3. q = r
        BY <3>0, <3>1, <4>2 DEF Numbered, Locals
      <4>4. ~ Refusal(r.id, b) /\ RowStands(b, r)
        BY <2>0, <2>9, <3>1 DEF TextStands
      <4>5. r.status # "queued"
        BY <1>0, <1>6, <2>9, <3>1, <4>4 DEF RowStands, Sends
      <4> QED
        BY <3>0, <4>2, <4>3, <4>4, <4>5 DEF RowStands, Taken, E!Outstanding
    <3>2. ASSUME r \in Taken(p) PROVE r.id = p.id
      <4>1. p.id <= MaxSends
        BY <2>0, <2>9, <3>0, <3>2 DEF OneAtATime, Taken, EchoTypes
      <4>2. PICK q \in Locals(b) : q.id = p.id /\ q.at = p.at
        BY <2>0, <2>9, <3>0, <4>1 DEF TextStands
      <4>3. q \in E!Outstanding(b)
        <5>1. ~ Refusal(q.id, b) /\ RowStands(b, q)
          BY <2>0, <2>9, <4>2 DEF TextStands
        <5>2. q.status # "queued"
          BY <1>0, <1>6, <2>9, <4>2, <5>1 DEF RowStands, Sends
        <5> QED
          BY <5>1, <5>2 DEF RowStands, Locals, E!Outstanding
      <4> QED
        BY <2>0, <2>9, <3>2, <4>2, <4>3 DEF OneAtATime, Taken
    <3> QED
      BY <3>1, <3>2
  <2>6. \A r \in Locals(c) : r \in stay \/ (c = b /\ r.id = p.id)
    <3>1. \A r \in Locals(c) : r \notin stay => p \notin merged /\ r \in Taken(p) /\ c = b
      BY <1>2 DEF Locals, Taken, E!Outstanding
    <3> QED
      BY <2>9, <3>1
  <2>7. c = b => \A r \in stay \cap Locals(c) : r.id # p.id
    <3>1. CASE p \in merged
      BY <2>0, <3>1 DEF TextStands
    <3>2. ASSUME p \notin merged, c = b PROVE stay \cap Taken(p) = {}
      BY <1>2, <2>0, <3>2 DEF OneAtATime, Taken
    <3> QED
      BY <2>9, <3>1, <3>2
  <2>8. TextStands(c)'
    <3>1. ASSUME NEW n \in Locals(c)' PROVE RowStands(c, n)'
      <4>1. PICK r \in stay \cap Locals(c) : n = Moved(r)
        BY <2>3
      <4>2. RowStands(c, r) /\ n.id = r.id /\ n.status = r.status
        BY <1>3, <2>0, <4>1 DEF TextStands, Locals
      <4>3. c = b => r.id # p.id
        BY <2>7, <4>1
      <4>4. (\E q \in Unseen(c) : q.id = r.id) => \E q \in Unseen(c) \ {p} : q.id = r.id
        BY <4>3 DEF Unseen
      <4> QED
        BY <2>1, <2>2, <4>2, <4>4 DEF RowStands
    <3>2. ASSUME NEW s \in Sends(c) PROVE SendStands(c, s)'
      <4>0. SendStands(c, s) /\ s \in eSends /\ s.body = c
        BY <2>0 DEF TextStands, Sends
      <4>1. \A r \in Locals(c) : r.id = s.id /\ s.id # p.id => \E n \in Locals(c)' : n.id = s.id /\ n.at = r.at
        BY <1>3, <2>3, <2>6 DEF Locals
      <4>2. CASE s.step = "hand"
        BY <1>0, <4>0, <4>1, <4>2 DEF SendStands, Numbered
      <4>3. CASE s.step = "submitted"
        <5>1. PICK q \in phone : /\ q.id = s.id /\ q.body = c
                                 /\ IF q \in merged THEN ~ s.queue ELSE \E r \in Locals(c) : r.id = s.id
          BY <4>0, <4>3 DEF SendStands
        <5>2. CASE q = p
          <6>1. ~ s.queue
            BY <1>0, <1>6, <4>0, <5>1, <5>2
          <6> QED
            BY <1>0, <4>3, <5>1, <5>2, <6>1 DEF SendStands
        <5>3. CASE q # p
          <6>1. s.id # p.id
            BY <5>1, <5>3 DEF Numbered
          <6> QED
            BY <1>0, <4>1, <4>3, <5>1, <5>3, <6>1 DEF SendStands
        <5> QED
          BY <5>2, <5>3
      <4>4. CASE s.step = "failed"
        BY <2>1, <4>0, <4>4 DEF SendStands
      <4> QED
        BY <4>0, <4>2, <4>3, <4>4 DEF EchoTypes
    <3>3. \A q \in Unseen(c)' : q.id <= MaxSends => \E r \in Locals(c)' : r.id = q.id /\ r.at = q.at
      <4>1. \A q \in Unseen(c)' : q \in Unseen(c) /\ q.id # p.id
        BY <2>2 DEF Unseen, Numbered
      <4> QED
        BY <1>3, <2>0, <2>3, <2>6, <4>1 DEF TextStands, Locals
    <3>4. \A e \in refused : e.body = c => \E r \in Locals(c)' : r.id = e.id
      <4>1. \A e \in refused : e.body = c /\ c = b => e.id # p.id
        <5>1. c = b => ~ Refusal(p.id, c)
          BY <2>0 DEF TextStands
        <5>2. \A e \in refused : e = [id |-> e.id, body |-> e.body]
          BY DEF EchoTypes
        <5> QED
          BY <5>1, <5>2 DEF Refusal
      <4> QED
        BY <1>3, <2>0, <2>3, <2>6, <4>1 DEF TextStands, Locals
    <3>5. \A q \in merged', r \in Locals(c)' : q.body = c => q.id # r.id
      BY <1>0, <1>3, <2>0, <2>3, <2>7 DEF TextStands, Locals
    <3>6. \A q \in phone : q.body = c => ~ Refusal(q.id, c)
      BY <2>0 DEF TextStands
    <3> QED
      BY <1>0, <2>1, <3>1, <3>2, <3>3, <3>4, <3>5, <3>6 DEF TextStands
  <2> QED
    BY <2>5, <2>8
<1> QED
  BY <1>4, <1>5, <1>6

LEMMA EchoStep == EchoInv /\ [Next]_vars => EchoInv'
<1>1. ASSUME EchoInv, E!EchoNext PROVE EchoInv'
  BY <1>1, StoreLocalStep, TypedThereStep, TimeStep, HandStep, RecordStep, MergeEchoStep DEF E!EchoNext
<1>2. ASSUME EchoInv, UNCHANGED echoVars PROVE EchoInv'
  <2> USE <1>2 DEF echoVars, EchoInv
  <2>1. EchoTypes' /\ Numbered'
    BY DEF EchoTypes, Numbered, E!Reported
  <2>2. \A b : TextStands(b)' <=> TextStands(b)
    BY DEF TextStands, RowStands, SendStands, Locals, Sends, Unseen, Refusal
  <2>3. \A b : OneAtATime(b)' <=> OneAtATime(b)
    BY DEF OneAtATime, Sends, Unseen, E!Outstanding
  <2> QED
    BY <2>1, <2>2, <2>3
<1>3. [Next]_vars => E!EchoNext \/ UNCHANGED echoVars
  BY DEF Next, vars, HistoryNext, AssistantNext, AttachNext, MediaNext, ContactsNext, ReplyNext, EchoNext
<1> QED
  BY <1>1, <1>2, <1>3

\* The conversation shows a message and its echo as one, however the recording of
\* the send, the phone's reports and their repetition fall: every message the
\* phone has and every one whose call failed has exactly one row, for every text
\* that was not sent or typed twice at once, left without an outcome or reported
\* before the queue recorded it (conversations.go MergeMessages).
THEOREM EchoesMeet == Spec => []Reconciled
<1>1. Init => EchoInv
  BY EchoStarts DEF Init
<1> QED
  BY <1>1, EchoReconciles, EchoStep, PTL DEF Spec
-----------------------------------------------------------------------------
(* Contacts and colours: one contact per number, and what the open thread wears. *)

Paints == Colours \cup {None}
ContactRows == [id : Nat, number : Numbers \cup {None}, colour : Paints, synced : BOOLEAN]
Writing == [contact : ContactRows, deleted : BOOLEAN, restyle : BOOLEAN]
Panel == {"edit", "themes", "bubble-themes"}
ContactsTypes ==
  /\ table \subseteq ContactRows /\ mine = table /\ book \subseteq Numbers /\ cKeys \in Nat
  /\ selected \in Chats /\ recipient \in ContactRows /\ editing \in ContactRows
  /\ cActive # None => cActive \in [thread : Chats, colour : Paints]
  /\ cDraft \in [colour : Paints, saved : Paints]
  /\ cBusy # None => cBusy \in Writing
  /\ list \in [Chats -> Paints]

\* An entry has the ID of the rows of its number, 0 if there are none.
Fresh(e) == \A d \in table : d.number = e.number <=> d.id = e.id
\* The rows have IDs, and so has what is being written.
Minted ==
  /\ \A d \in table : d.id \in 1 .. cKeys
  /\ \A c, d \in table : c.id = d.id => c = d
  /\ cBusy # None /\ ~ cBusy.deleted => cBusy.contact.id \in 1 .. cKeys
  /\ recipient.id <= cKeys /\ editing.id <= cKeys
\* The recipient stands for the one the open thread is with.
Match(open, e) ==
  /\ C!Same(e.number, With[open.thread]) /\ Fresh(e)
  /\ e \in table \/ (e.id = 0 /\ e.colour = None)
OneEach ==
  /\ \A c, d \in table : c.number = d.number => c = d
  /\ cActive # None => Match(cActive, recipient)
  /\ cModal \in Panel =>
       \/ Fresh(editing) \/ C!Unthreaded(editing.number)
       \/ cModal = "edit" /\ editing.number \notin Numbers
  /\ cBusy # None /\ ~ cBusy.deleted => Fresh(cBusy.contact)
PeopleInv == ContactsTypes /\ Minted /\ (~ unthreaded => OneEach)

\* Someone without an entry, and a key more.
LEMMA Bares ==
  /\ \A p \in Numbers \cup {None} :
       /\ C!Bare(p) \in ContactRows /\ C!Bare(p).number = p
       /\ C!Bare(p).id = 0 /\ C!Bare(p).colour = None
  /\ C!Nobody \in ContactRows /\ C!Nobody.id = 0 /\ C!Nobody.number = None
  /\ \A n \in Nat : C!Nobody.id <= n /\ \A p \in Numbers \cup {None} : C!Bare(p).id <= n
BY DEF C!Bare, C!Nobody, C!Contact, ContactRows, Paints

LEMMA KeyMore ==
  ASSUME ContactsTypes, cKeys' = cKeys + 1
  PROVE  cKeys' \in Nat /\ cKeys' >= cKeys
BY DEF ContactsTypes

LEMMA ContactsStart == C!ContactsInit => PeopleInv
<1> SUFFICES ASSUME C!ContactsInit PROVE PeopleInv
  OBVIOUS
<1> USE DEF C!ContactsInit
<1>2. ContactsTypes
  BY Bares DEF ContactsTypes, Paints
<1> QED
  <2>1. Minted
    <3>1. C!Nobody.id <= cKeys
      BY <1>2, Bares DEF ContactsTypes
    <3> QED
      BY <3>1 DEF Minted
  <2>2. OneEach
    BY DEF OneEach, Panel
  <2> QED
    BY <1>2, <2>1, <2>2 DEF PeopleInv

\* Whom the lists and the open thread offer.
Offer(c) ==
  /\ c \in ContactRows /\ c.id <= cKeys
  /\ ~ unthreaded => Fresh(c) /\ (c \in table \/ (c.id = 0 /\ c.colour = None))
LEMMA Offered ==
  ASSUME PeopleInv
  PROVE  /\ \A c \in C!AllContacts : Offer(c)
         /\ \A t \in Chats : \A c \in C!ThreadContacts(t) : Offer(c) /\ C!Same(c.number, With[t])
<1> USE ContactsAssumption DEF PeopleInv, ContactsTypes
<1>0. ASSUME ~ unthreaded, NEW c \in table PROVE Fresh(c)
  <2>1. ASSUME NEW d \in table, d.id = c.id PROVE d.number = c.number
    BY <2>1 DEF Minted
  <2> QED
    BY <1>0, <2>1 DEF OneEach, Fresh
<1>a. \A d \in table : d.id # 0 /\ d.id <= cKeys
  BY DEF Minted
<1>1. ASSUME NEW p \in Numbers, NEW b \in BOOLEAN
      PROVE  /\ C!Contact(0, p, None, b) \in ContactRows /\ C!Contact(0, p, None, b).number = p
             /\ C!Contact(0, p, None, b).id = 0 /\ C!Contact(0, p, None, b).colour = None
  BY DEF C!Contact, ContactRows, Paints
<1>2. ASSUME NEW c \in C!AllContacts PROVE Offer(c)
  <2>1. CASE c \in mine
    BY <1>0, <1>a, <2>1 DEF Offer
  <2>2. ASSUME NEW p \in book, \A d \in mine : ~ C!Same(p, d.number), c = C!Contact(0, p, None, TRUE)
        PROVE  Offer(c)
    <3>1. c \in ContactRows /\ c.number = p /\ c.id = 0 /\ c.colour = None
      BY <1>1, <2>2
    <3>2. Fresh(c)
      <4>1. \A d \in table : d.number # p
        BY <2>2 DEF C!Same
      <4> QED
        BY <1>a, <3>1, <4>1 DEF Fresh
    <3> QED
      BY <3>1, <3>2 DEF Offer
  <2> QED
    BY <2>1, <2>2 DEF C!AllContacts
<1>3. ASSUME NEW t \in Chats, NEW c \in C!ThreadContacts(t)
      PROVE  Offer(c) /\ C!Same(c.number, With[t])
  <2>1. CASE c \in C!AllContacts /\ (c.number = With[t] \/ C!Same(c.number, With[t]))
    BY <1>2, <2>1 DEF C!Same
  <2>2. CASE c = C!Bare(With[t]) /\ \A d \in C!AllContacts : d.number # With[t]
    <3>1. c \in ContactRows /\ c.number = With[t] /\ c.id = 0 /\ c.colour = None
      BY <1>1, <2>2 DEF C!Bare
    <3>2. Fresh(c)
      <4>1. \A d \in table : d.number # With[t]
        BY <2>2 DEF C!AllContacts
      <4> QED
        BY <1>a, <3>1, <4>1 DEF Fresh
    <3> QED
      BY <3>1, <3>2 DEF Offer, C!Same
  <2> QED
    BY <2>1, <2>2 DEF C!ThreadContacts
<1> QED
  BY <1>2, <1>3

LEMMA Targets ==
  ASSUME PeopleInv, NEW c \in C!TargetContacts
  PROVE  /\ c \in ContactRows /\ c.id <= cKeys
         /\ ~ unthreaded => Fresh(c) \/ C!Unthreaded(c.number)
BY Offered DEF C!TargetContacts, C!Unthreaded, PeopleInv, OneEach, ContactsTypes, Match, Offer, Minted

\* No entry has an ID that is not minted yet.
LEMMA MintedStays ==
  ASSUME ContactsTypes, Minted, UNCHANGED table, cKeys' \in Nat, cKeys' >= cKeys,
         recipient' \in ContactRows, recipient'.id <= cKeys,
         editing' \in ContactRows, editing'.id <= cKeys,
         cBusy' # None /\ ~ cBusy'.deleted => cBusy' = cBusy \/ cBusy'.contact.id \in 1 .. cKeys'
  PROVE  Minted'
<1>1. cKeys \in Nat /\ cKeys' \in Nat /\ cKeys <= cKeys'
  BY DEF ContactsTypes
<1>2. \A n \in 1 .. cKeys : n \in 1 .. cKeys'
  BY <1>1
<1>3. recipient'.id <= cKeys' /\ editing'.id <= cKeys'
  BY <1>1 DEF ContactRows
<1> QED
  BY <1>2, <1>3 DEF Minted

LEMMA Opened ==
  ASSUME PeopleInv, NEW t \in Chats, NEW c, c \in C!ThreadContacts(t), C!OpenThread(t, c)
  PROVE  /\ recipient' \in ContactRows /\ recipient'.id <= cKeys /\ selected' \in Chats
         /\ cActive' \in [thread : Chats, colour : Paints] /\ list' = list
         /\ ~ unthreaded => Match(cActive', recipient')
<1>1. cActive' = C!Open(t, list[t]) /\ recipient' = c /\ selected' = t /\ list' = list
  BY DEF C!OpenThread
<1>2. cActive' \in [thread : Chats, colour : Paints] /\ cActive'.thread = t
  BY <1>1 DEF C!Open, PeopleInv, ContactsTypes
<1> QED
  BY <1>1, <1>2, Offered DEF Match, Offer

LEMMA Picked ==
  ASSUME PeopleInv, NEW c \in ContactRows, c.id <= cKeys, C!PickRecipient(c)
  PROVE  /\ recipient' \in ContactRows /\ recipient'.id <= cKeys /\ selected' \in Chats
         /\ cActive' # None => cActive' \in [thread : Chats, colour : Paints]
         /\ list' = list
         /\ ~ unthreaded /\ cActive' # None => Match(cActive', recipient')
BY Opened DEF C!PickRecipient, C!Choose, PeopleInv, ContactsTypes, C!cached

\* Opening a thread or starting over: nothing that is saved changes.
LEMMA OpeningStep ==
  ASSUME PeopleInv, UNCHANGED <<table, mine, book, cBusy, unthreaded, editing>>,
         cKeys' \in Nat, cKeys' >= cKeys,
         cDraft' \in [colour : Paints, saved : Paints], cModal' \notin Panel,
         recipient' \in ContactRows, recipient'.id <= cKeys, selected' \in Chats, list' \in [Chats -> Paints],
         cActive' # None => cActive' \in [thread : Chats, colour : Paints],
         ~ unthreaded /\ cActive' # None => Match(cActive', recipient')
  PROVE  PeopleInv'
<1>1. ContactsTypes' /\ Minted'
  <2>1. \A n \in Nat : n <= cKeys => n <= cKeys'
    BY DEF PeopleInv, ContactsTypes
  <2> QED
    BY <2>1, MintedStays DEF PeopleInv, ContactsTypes, Minted
<1>2. ASSUME ~ unthreaded PROVE OneEach'
  <2>1. \A e : Fresh(e)' <=> Fresh(e)
    BY DEF Fresh
  <2>2. cActive' # None => Match(cActive, recipient)'
    BY <1>2, <2>1 DEF Match
  <2> QED
    BY <1>2, <2>2 DEF PeopleInv, OneEach, Fresh
<1> QED
  BY <1>1, <1>2 DEF PeopleInv

LEMMA MovingStep ==
  ASSUME PeopleInv, C!SetPane \/ C!Select \/ C!Esc \/ C!OpenDetails \/ C!Adjust
  PROVE  PeopleInv'
<1>0. cKeys' = cKeys + 1 /\ cKeys \in Nat
  BY DEF C!SetPane, C!Select, C!Esc, C!OpenDetails, C!Adjust, C!Pressed, PeopleInv, ContactsTypes
<1>a. /\ cDraft \in [colour : Paints, saved : Paints] /\ list \in [Chats -> Paints]
      /\ recipient \in ContactRows /\ recipient.id <= cKeys /\ selected \in Chats
      /\ cActive # None => cActive \in [thread : Chats, colour : Paints]
      /\ ~ unthreaded /\ cActive # None => Match(cActive, recipient)
      /\ "" \notin Panel /\ "details" \notin Panel /\ cKeys' \in Nat /\ cKeys' >= cKeys
  BY <1>0 DEF PeopleInv, ContactsTypes, OneEach, Panel, Minted
<1>1. CASE C!SetPane
  <2>1. /\ UNCHANGED <<table, mine, book, cBusy, unthreaded, editing, cActive, recipient, list, cDraft>>
        /\ cModal' = "" /\ selected' \in Chats
    BY <1>a, <1>1 DEF C!SetPane, C!cached, C!store
  <2> QED
    BY <1>a, <2>1, OpeningStep
<1>2. CASE C!Select
  <2>1. \/ \E c \in C!ThreadContacts(selected) : C!OpenThread(selected, c)
        \/ \E c \in ContactRows : c.id <= cKeys /\ C!PickRecipient(c)
        \/ \E p \in Numbers : C!Choose(C!Bare(p))
    <3>1. \A p \in Numbers : C!Bare(p) \in ContactRows /\ C!Bare(p).id <= cKeys
      BY <1>0, Bares
    <3> QED
      BY <1>2, <3>1, Targets, Offered DEF C!Select, Offer
  <2>2. /\ recipient' \in ContactRows /\ recipient'.id <= cKeys /\ selected' \in Chats /\ list' = list
        /\ cActive' # None => cActive' \in [thread : Chats, colour : Paints]
        /\ ~ unthreaded /\ cActive' # None => Match(cActive', recipient')
    <3>1. \A p \in Numbers : C!Bare(p) \in ContactRows /\ C!Bare(p).id <= cKeys
      BY <1>0, Bares
    <3> QED
      BY <2>1, <3>1, Opened, Picked DEF C!Choose, PeopleInv, ContactsTypes, C!cached
  <2> QED
    <3>1. UNCHANGED <<table, mine, book, cBusy, unthreaded, editing, cDraft>> /\ cModal' = ""
      BY <1>2 DEF C!Select, C!store
    <3> QED
      BY <1>a, <2>2, <3>1, OpeningStep
<1>3. CASE C!Esc
  <2>1. /\ UNCHANGED <<table, mine, book, cBusy, unthreaded, editing, cActive, recipient, list, cDraft, selected>>
        /\ cModal' = ""
    BY <1>3 DEF C!Esc, C!cached, C!store
  <2> QED
    BY <1>a, <2>1, OpeningStep
<1>4. CASE C!OpenDetails
  <2>1. \/ \E c \in C!ThreadContacts(selected) : C!OpenThread(selected, c)
        \/ \E c \in ContactRows : c.id <= cKeys /\ C!PickRecipient(c)
        \/ UNCHANGED <<cActive, recipient, pane, selected, C!cached>>
    BY <1>4, Targets DEF C!OpenDetails
  <2>2. /\ recipient' \in ContactRows /\ recipient'.id <= cKeys /\ selected' \in Chats /\ list' = list
        /\ cActive' # None => cActive' \in [thread : Chats, colour : Paints]
        /\ ~ unthreaded /\ cActive' # None => Match(cActive', recipient')
    BY <2>1, Opened, Picked DEF PeopleInv, ContactsTypes, OneEach, Minted, C!cached
  <2>3. cDraft' \in [colour : Paints, saved : Paints]
    BY <1>4, <2>2 DEF C!OpenDetails, C!Draft, C!Worn, ContactRows, Paints
  <2> QED
    <3>1. UNCHANGED <<table, mine, book, cBusy, unthreaded, editing>> /\ cModal' = "details"
      BY <1>4 DEF C!OpenDetails, C!store
    <3> QED
      BY <1>a, <2>2, <2>3, <3>1, OpeningStep
<1>5. CASE C!Adjust
  <2>1. cDraft' \in [colour : Paints, saved : Paints]
    BY <1>5 DEF C!Adjust, PeopleInv, ContactsTypes, Paints
  <2> QED
    <3>1. /\ UNCHANGED <<table, mine, book, cBusy, unthreaded, editing, cActive, recipient, list, selected>>
          /\ cModal' = "details"
      BY <1>5 DEF C!Adjust, C!cached, C!store
    <3> QED
      BY <1>a, <2>1, <3>1, OpeningStep
<1> QED
  BY <1>1, <1>2, <1>3, <1>4, <1>5

\* The panels, until something is written.
LEMMA PanelStep ==
  ASSUME PeopleInv, C!OpenPanel \/ C!Rename
  PROVE  PeopleInv'
<1>1. /\ UNCHANGED <<table, mine, book, cBusy, unthreaded, cActive, recipient, list, cDraft, selected>>
      /\ cKeys' = cKeys + 1
  BY DEF C!OpenPanel, C!Rename, C!store, C!cached, C!Pressed
<1>2. /\ editing' \in ContactRows /\ editing'.id <= cKeys
      /\ ~ unthreaded /\ cModal' \in Panel =>
           Fresh(editing') \/ C!Unthreaded(editing'.number) \/ (cModal' = "edit" /\ editing'.number \notin Numbers)
  <2>1. CASE C!Rename
    BY <2>1 DEF C!Rename, C!OpenForm, PeopleInv, ContactsTypes, Minted, OneEach, Match, C!Unthreaded
  <2>2. CASE C!OpenPanel
    <3>1. CASE editing' \in C!TargetContacts
      BY <3>1, Targets
    <3>2. CASE editing' = C!Nobody /\ cModal' = "edit"
      BY <3>2, ContactsAssumption DEF C!Nobody, C!Contact, ContactRows, Paints, PeopleInv, ContactsTypes
    <3> QED
      BY <2>2, <3>1, <3>2 DEF C!OpenPanel, C!OpenForm
  <2> QED
    BY <2>1, <2>2
<1>3. ContactsTypes' /\ Minted'
  <2>1. ContactsTypes' /\ recipient' \in ContactRows /\ recipient'.id <= cKeys /\ cKeys' \in Nat /\ cKeys' >= cKeys
    BY <1>1, <1>2 DEF PeopleInv, ContactsTypes, Minted
  <2> QED
    BY <1>1, <1>2, <2>1, MintedStays DEF PeopleInv
<1>4. ASSUME ~ unthreaded PROVE OneEach'
  <2>1. cActive' # None => Match(cActive, recipient)'
    BY <1>1, <1>4 DEF PeopleInv, OneEach, Match, Fresh
  <2>2. cModal' \in Panel =>
           Fresh(editing)' \/ C!Unthreaded(editing.number)' \/ (cModal' = "edit" /\ editing'.number \notin Numbers)
    BY <1>1, <1>2, <1>4 DEF Fresh, C!Unthreaded
  <2> QED
    BY <1>1, <1>4, <2>1, <2>2 DEF PeopleInv, OneEach, Fresh
<1> QED
  BY <1>1, <1>3, <1>4 DEF PeopleInv

\* What ensureLocal gives: the entry's own ID, or one nothing has yet.
LEMMA EnsuresLocal ==
  ASSUME PeopleInv, NEW e \in ContactRows
  PROVE  /\ C!EnsureLocal(e) \in ContactRows /\ C!EnsureLocal(e).number = e.number
         /\ C!EnsureLocal(e).id = IF e.id # 0 THEN e.id ELSE cKeys + 1
         /\ C!EnsureLocal(e).id \in Nat
         /\ Fresh(e) => Fresh(C!EnsureLocal(e))
<1>0. cKeys + 1 \in Nat
  BY DEF PeopleInv, ContactsTypes
<1>1. /\ C!EnsureLocal(e) \in ContactRows /\ C!EnsureLocal(e).number = e.number
      /\ C!EnsureLocal(e).id = IF e.id # 0 THEN e.id ELSE cKeys + 1
  <2>1. CASE e.id = 0
    <3>1. C!EnsureLocal(e) = [e EXCEPT !.synced = FALSE, !.id = cKeys + 1]
      BY <2>1 DEF C!EnsureLocal, ContactRows
    <3> QED
      BY <1>0, <2>1, <3>1 DEF ContactRows
  <2>2. CASE e.id # 0
    <3>1. C!EnsureLocal(e) = [e EXCEPT !.synced = FALSE, !.id = e.id]
      BY <2>2 DEF C!EnsureLocal, ContactRows
    <3> QED
      BY <2>2, <3>1 DEF ContactRows
  <2> QED
    BY <2>1, <2>2
<1>2. Fresh(e) => Fresh(C!EnsureLocal(e))
  <2>1. \A d \in table : d.id \in 1 .. cKeys
    BY DEF PeopleInv, Minted
  <2> QED
    BY <1>0, <1>1, <2>1 DEF Fresh, PeopleInv, ContactsTypes
<1> QED
  BY <1>1, <1>2 DEF ContactRows

LEMMA Mutates ==
  ASSUME NEW c \in ContactRows, NEW deleted \in BOOLEAN, NEW restyle \in BOOLEAN, NEW m,
         C!Mutate(c, deleted, restyle, m)
  PROVE  \E busy \in Writing : cBusy' = busy /\ busy.deleted = deleted /\ busy.contact = c
<1> DEFINE busy == [contact |-> c, deleted |-> deleted, restyle |-> restyle]
<1>1. busy \in Writing /\ busy.deleted = deleted /\ busy.contact = c
  BY DEF Writing
<1> QED
  BY <1>1 DEF C!Mutate

LEMMA Changed ==
  ASSUME NEW e \in ContactRows
  PROVE  /\ \A c \in Paints :
              /\ [e EXCEPT !.colour = c] \in ContactRows
              /\ [e EXCEPT !.colour = c].number = e.number
              /\ [e EXCEPT !.colour = c].id = e.id
         /\ \A p \in Numbers :
              /\ [e EXCEPT !.number = p] \in ContactRows
              /\ [e EXCEPT !.number = p].number = p
              /\ [e EXCEPT !.number = p].id = e.id
BY DEF ContactRows

\* A write of a contact begins: whoever it is, their rows are the one it replaces.
LEMMA BeginStep ==
  ASSUME PeopleInv, cKeys' = cKeys + 1,
         UNCHANGED <<table, mine, book, recipient, list, selected, editing>>,
         cActive' # None => cActive # None /\ cActive' \in [thread : Chats, colour : Paints]
                            /\ cActive'.thread = cActive.thread,
         C!Unthreaded(editing.number) => C!Unthreaded(editing.number)',
         cDraft' \in [colour : Paints, saved : Paints],
         NEW busy \in Writing, cBusy' = busy, cModal' \in {cModal, ""},
         unthreaded => unthreaded',
         ~ busy.deleted => busy.contact.id \in 1 .. cKeys' /\ (~ unthreaded' => Fresh(busy.contact))
  PROVE  PeopleInv'
<1>1. ContactsTypes' /\ Minted'
  <2>0. cKeys' \in Nat /\ cKeys' >= cKeys
    BY KeyMore DEF PeopleInv
  <2>1. ContactsTypes'
    BY <2>0 DEF PeopleInv, ContactsTypes
  <2>2. recipient' \in ContactRows /\ recipient'.id <= cKeys /\ editing' \in ContactRows /\ editing'.id <= cKeys
    BY DEF PeopleInv, ContactsTypes, Minted
  <2> QED
    BY <2>0, <2>1, <2>2, MintedStays DEF PeopleInv
<1>2. ASSUME ~ unthreaded' PROVE OneEach'
  <2>0. ~ unthreaded /\ OneEach
    BY <1>2 DEF PeopleInv
  <2>1. cActive' # None => Match(cActive, recipient)'
    BY <2>0 DEF PeopleInv, OneEach, Match, Fresh
  <2>2. cModal' \in Panel =>
           Fresh(editing)' \/ C!Unthreaded(editing.number)' \/ (cModal' = "edit" /\ editing'.number \notin Numbers)
    BY <2>0 DEF OneEach, Fresh, Panel
  <2>3. cBusy' # None /\ ~ cBusy'.deleted => Fresh(cBusy.contact)'
    BY <1>2 DEF Fresh
  <2> QED
    BY <2>0, <2>1, <2>2, <2>3 DEF OneEach
<1> QED
  BY <1>1, <1>2 DEF PeopleInv

LEMMA CommitStep ==
  ASSUME PeopleInv, C!Commit
  PROVE  PeopleInv'
<1>0. /\ cBusy = None /\ cKeys' = cKeys + 1 /\ cKeys \in Nat /\ editing \in ContactRows
      /\ editing.id <= cKeys
      /\ UNCHANGED <<table, mine, book, recipient, list, selected, editing, cActive, cDraft>>
      /\ cDraft \in [colour : Paints, saved : Paints]
  BY DEF C!Commit, C!Pressed, C!store, C!cached, PeopleInv, ContactsTypes, Minted
<1>1. /\ cActive' # None => cActive # None /\ cActive' \in [thread : Chats, colour : Paints]
                            /\ cActive'.thread = cActive.thread
      /\ C!Unthreaded(editing.number) => C!Unthreaded(editing.number)'
  BY <1>0 DEF C!Unthreaded, PeopleInv, ContactsTypes
<1> DEFINE own == C!EnsureLocal(editing)
<1>2. /\ own \in ContactRows /\ own.number = editing.number /\ own.id \in 1 .. cKeys'
      /\ Fresh(editing) => Fresh(own)
  BY <1>0, EnsuresLocal DEF ContactRows
<1> HIDE DEF own
<1>3. ASSUME cModal \in {"themes", "bubble-themes"}, NEW c \in Paints,
             C!Mutate([own EXCEPT !.colour = c], FALSE, TRUE, IF cModal = "themes" THEN cModal ELSE ""),
             unthreaded' = (unthreaded \/ C!Unthreaded(editing.number))
      PROVE  PeopleInv'
  <2>0. /\ [own EXCEPT !.colour = c] \in ContactRows
        /\ [own EXCEPT !.colour = c].number = own.number
        /\ [own EXCEPT !.colour = c].id = own.id
    BY <1>2, Changed
  <2>1. PICK contact \in ContactRows :
          contact = [own EXCEPT !.colour = c] /\ contact.number = editing.number /\ contact.id = own.id
    BY <1>2, <2>0
  <2>2. PICK busy \in Writing :
          cBusy' = busy /\ ~ busy.deleted /\ busy.contact = contact
    BY <1>3, <2>1, Mutates
  <2>3. ~ unthreaded' => Fresh(contact)
    <3>1. ~ unthreaded' => Fresh(editing)
      BY <1>3 DEF PeopleInv, OneEach, Panel
    <3> QED
      BY <1>2, <2>1, <3>1 DEF Fresh
  <2> QED
    BY <1>0, <1>1, <1>2, <1>3, <2>1, <2>2, <2>3, BeginStep DEF C!Mutate
<1>4. ASSUME cModal = "edit", NEW p \in Numbers, C!Mutate([own EXCEPT !.number = p], FALSE, FALSE, cModal),
             unthreaded' = (unthreaded \/ C!Unthreaded(p) \/ p # editing.number)
      PROVE  PeopleInv'
  <2>1. PICK contact \in ContactRows :
          contact = [own EXCEPT !.number = p] /\ contact.number = p /\ contact.id = own.id
    BY <1>2, Changed
  <2>2. PICK busy \in Writing :
          cBusy' = busy /\ ~ busy.deleted /\ busy.contact = contact
    BY <1>4, <2>1, Mutates
  <2>3. ~ unthreaded' => Fresh(contact)
    <3>1. ~ unthreaded' => Fresh(editing) /\ p = editing.number
      BY <1>4 DEF PeopleInv, OneEach, Panel
    <3> QED
      BY <1>2, <2>1, <3>1 DEF Fresh
  <2> QED
    BY <1>0, <1>1, <1>2, <1>4, <2>1, <2>2, <2>3, BeginStep DEF C!Mutate
<1>5. ASSUME C!Mutate(editing, TRUE, FALSE, cModal), UNCHANGED unthreaded
      PROVE  PeopleInv'
  <2>1. PICK busy \in Writing : cBusy' = busy /\ busy.deleted
    BY <1>0, <1>5, Mutates
  <2> QED
    BY <1>0, <1>1, <1>5, <2>1, BeginStep DEF C!Mutate
<1> QED
  BY <1>3, <1>4, <1>5 DEF C!Commit, own, Paints

LEMMA SaveDetailsStep ==
  ASSUME PeopleInv, C!SaveDetails
  PROVE  PeopleInv'
<1>0. /\ cBusy = None /\ cKeys' = cKeys + 1 /\ cKeys \in Nat /\ recipient \in ContactRows
      /\ recipient.id <= cKeys /\ cModal = "details"
      /\ UNCHANGED <<table, mine, book, recipient, list, selected, editing>>
      /\ unthreaded' = (unthreaded \/ C!Unthreaded(recipient.number))
  BY DEF C!SaveDetails, C!Pressed, C!cached, C!store, PeopleInv, ContactsTypes, Minted
<1>1. /\ cActive' # None => cActive # None /\ cActive' \in [thread : Chats, colour : Paints]
                            /\ cActive'.thread = cActive.thread
      /\ cActive = None => cActive' = None
  BY DEF C!SaveDetails, C!WriteThread, PeopleInv, ContactsTypes, Paints
<1> DEFINE own == C!EnsureLocal(recipient)
<1>2. /\ own \in ContactRows /\ own.number = recipient.number /\ own.id \in 1 .. cKeys'
      /\ Fresh(recipient) => Fresh(own)
  BY <1>0, EnsuresLocal DEF ContactRows
<1>6. C!Mutate([own EXCEPT !.colour = cDraft.colour], FALSE, TRUE, cModal)
  BY DEF C!SaveDetails
<1> HIDE DEF own
<1>3. cDraft.colour \in Paints /\ cDraft' \in [colour : Paints, saved : Paints]
  BY DEF C!SaveDetails, PeopleInv, ContactsTypes
<1>a. /\ [own EXCEPT !.colour = cDraft.colour] \in ContactRows
      /\ [own EXCEPT !.colour = cDraft.colour].number = own.number
      /\ [own EXCEPT !.colour = cDraft.colour].id = own.id
  BY <1>2, <1>3, Changed
<1>4. PICK contact \in ContactRows :
        contact = [own EXCEPT !.colour = cDraft.colour] /\ contact.number = recipient.number /\ contact.id = own.id
  BY <1>2, <1>a
<1>5. PICK busy \in Writing : cBusy' = busy /\ ~ busy.deleted /\ busy.contact = contact
  BY <1>4, <1>6, Mutates
<1>7. ~ unthreaded' => Fresh(contact)
  <2>1. ~ unthreaded' => Fresh(recipient)
    BY <1>0 DEF PeopleInv, OneEach, Match, C!Unthreaded
  <2> QED
    BY <1>2, <1>4, <2>1 DEF Fresh
<1> QED
  BY <1>0, <1>1, <1>2, <1>3, <1>4, <1>5, <1>6, <1>7, BeginStep DEF C!Mutate, C!Unthreaded

\* The results.
LEMMA DeletedStep ==
  ASSUME PeopleInv, C!MutationDone, cBusy.deleted
  PROVE  PeopleInv'
<1> DEFINE c == cBusy.contact
<1>0. /\ table' = {d \in table : d.id # c.id} /\ mine' = {d \in mine : d.id # c.id}
      /\ recipient' = IF recipient.id = c.id THEN C!Bare(recipient.number) ELSE recipient
      /\ UNCHANGED <<book, cActive, selected, list, editing, cDraft, unthreaded, cKeys>>
      /\ cBusy' = None /\ cModal' \in {"", "details"}
  BY DEF C!MutationDone, C!Deleted, C!cached
<1>1. /\ recipient' \in ContactRows /\ recipient'.number = recipient.number
      /\ recipient' = recipient \/ (recipient'.id = 0 /\ recipient'.colour = None)
      /\ recipient'.id <= cKeys
  <2>0. recipient \in ContactRows /\ recipient.id <= cKeys /\ cKeys \in Nat
    BY DEF PeopleInv, ContactsTypes, Minted
  <2>1. recipient.number \in Numbers \cup {None}
    BY <2>0 DEF ContactRows
  <2>2. recipient' = recipient \/ recipient' = C!Bare(recipient.number)
    BY <1>0
  <2> QED
    BY <2>0, <2>1, <2>2, Bares
<1>2. ContactsTypes'
  BY <1>0, <1>1 DEF PeopleInv, ContactsTypes
<1>3. Minted'
  BY <1>0, <1>1 DEF PeopleInv, Minted
<1>4. ASSUME ~ unthreaded PROVE OneEach'
  <2>0. OneEach /\ \A d \in table : d.id # 0
    BY <1>4 DEF PeopleInv, Minted, ContactsTypes
  <2>1. ASSUME cActive # None PROVE Match(cActive, recipient)'
    <3>0. Match(cActive, recipient)
      BY <2>0, <2>1 DEF OneEach
    <3>1. CASE recipient.id = c.id
      BY <1>0, <1>1, <2>0, <3>0, <3>1 DEF Match, Fresh, C!Bare, C!Contact
    <3>2. CASE recipient.id # c.id
      BY <1>0, <3>0, <3>2 DEF Match, Fresh
    <3> QED
      BY <3>1, <3>2
  <2> QED
    BY <1>0, <2>0, <2>1 DEF OneEach, Panel
<1> QED
  BY <1>0, <1>2, <1>3, <1>4 DEF PeopleInv

LEMMA SavedStep ==
  ASSUME PeopleInv, C!MutationDone, ~ cBusy.deleted
  PROVE  PeopleInv'
<1> DEFINE c == cBusy.contact
<1>0. /\ table' = {d \in table : d.id # c.id} \cup {c} /\ mine' = {d \in mine : d.id # c.id} \cup {c}
      /\ UNCHANGED <<book, list, editing, cDraft, unthreaded, cKeys>> /\ cBusy # None
      /\ cBusy' = None /\ cModal' \in {"", "details"} /\ selected' = selected
      /\ \/ recipient' = c /\ cActive' = cActive /\ recipient.number = c.number
         \/ recipient' = c /\ cActive' = None
         \/ UNCHANGED <<recipient, cActive>> /\ (cActive = None \/ recipient.number # c.number)
  BY DEF C!MutationDone, C!Saved, C!SaveContact, C!Refreshed, C!Choose, C!cached
<1>1. c \in ContactRows /\ c.id \in 1 .. cKeys /\ cKeys \in Nat
  BY <1>0 DEF PeopleInv, ContactsTypes, Minted, Writing
<1> HIDE DEF c
<1>2. ContactsTypes'
  BY <1>0, <1>1 DEF PeopleInv, ContactsTypes
<1>3. Minted'
  <2>1. recipient'.id <= cKeys /\ editing.id <= cKeys
    <3>1. c.id <= cKeys
      BY <1>1
    <3>2. recipient' = c \/ recipient' = recipient
      BY <1>0
    <3> QED
      BY <3>1, <3>2 DEF PeopleInv, Minted
  <2>2. \A d, e \in table' : d.id = e.id => d = e
    BY <1>0 DEF PeopleInv, Minted
  <2>3. \A d \in table' : d.id \in 1 .. cKeys
    BY <1>0, <1>1 DEF PeopleInv, Minted
  <2> QED
    BY <1>0, <2>1, <2>2, <2>3 DEF Minted
<1>4. ASSUME ~ unthreaded PROVE OneEach'
  <2>0. OneEach /\ Fresh(c)
    BY <1>0, <1>4 DEF PeopleInv, OneEach, c
  <2>1. \A d, e \in table' : d.number = e.number => d = e
    BY <1>0, <2>0 DEF OneEach, Fresh
  <2>2. \A d \in table' : d.number = c.number <=> d.id = c.id
    BY <1>0, <2>0 DEF Fresh
  <2>3. ASSUME cActive' # None PROVE Match(cActive, recipient)'
    <3>0. Match(cActive, recipient)
      BY <1>0, <2>0, <2>3 DEF OneEach
    <3>1. CASE recipient' = c /\ cActive' = cActive /\ recipient.number = c.number
      BY <1>0, <2>2, <3>0, <3>1 DEF Match, Fresh
    <3>2. CASE UNCHANGED <<recipient, cActive>> /\ recipient.number # c.number
      <4>1. recipient.id # c.id
        BY <1>1, <2>0, <3>0, <3>2 DEF Match, Fresh
      <4>2. Fresh(recipient)'
        BY <1>0, <3>0, <3>2, <4>1 DEF Match, Fresh
      <4> QED
        BY <1>0, <3>0, <3>2, <4>1, <4>2 DEF Match
    <3> QED
      BY <1>0, <2>3, <3>1, <3>2
  <2> QED
    BY <1>0, <2>1, <2>3 DEF OneEach, Panel
<1> QED
  BY <1>0, <1>2, <1>3, <1>4 DEF PeopleInv

\* What writes no contact: the colours of a thread, reads, imports and failures.
LEMMA PeopleStay ==
  ASSUME PeopleInv, UNCHANGED <<table, mine, recipient, selected, editing, cModal, cDraft, unthreaded>>,
         book' \subseteq Numbers, cKeys' \in {cKeys, cKeys + 1}, list' \in [Chats -> Paints],
         cBusy' \in {cBusy, None},
         cActive = None => cActive' = None,
         cActive' # None => cActive' \in [thread : Chats, colour : Paints]
                            /\ cActive'.thread = cActive.thread
  PROVE  PeopleInv'
<1>1. ContactsTypes'
  BY DEF PeopleInv, ContactsTypes
<1>2. Minted'
  BY <1>1, MintedStays DEF PeopleInv, Minted, ContactsTypes
<1>3. ASSUME ~ unthreaded PROVE OneEach'
  <2>0. OneEach
    BY <1>3 DEF PeopleInv
  <2>1. \A e : Fresh(e)' <=> Fresh(e)
    BY DEF Fresh
  <2>2. cActive' # None => Match(cActive, recipient)'
    BY <2>0, <2>1 DEF OneEach, Match
  <2>3. cModal \in Panel =>
          Fresh(editing)' \/ C!Unthreaded(editing.number)' \/ (cModal' = "edit" /\ editing'.number \notin Numbers)
    BY <2>0 DEF OneEach, Fresh, C!Unthreaded
  <2>4. cBusy' # None /\ ~ cBusy'.deleted => Fresh(cBusy.contact)'
    BY <2>0 DEF OneEach, Fresh
  <2> QED
    BY <2>0, <2>2, <2>3, <2>4 DEF OneEach
<1> QED
  BY <1>1, <1>2, <1>3 DEF PeopleInv

LEMMA PeopleBesideStep ==
  ASSUME PeopleInv,
         \/ C!PickThreadTheme \/ C!MutationFails \/ C!Imported
         \/ \E w \in writes : C!RunWrite(w) \/ C!ThreadSaved(w)
         \/ \E l \in cLoads : C!RunLoad(l)
  PROVE  PeopleInv'
<1> USE DEF C!store, C!screen, C!cached
<1>1. CASE C!PickThreadTheme
  <2>1. PICK c \in Paints : cActive' = [cActive EXCEPT !.colour = c]
    BY <1>1 DEF C!PickThreadTheme, C!WriteThread, Paints
  <2>2. cActive # None /\ cActive \in [thread : Chats, colour : Paints]
    BY <1>1 DEF C!PickThreadTheme, PeopleInv, ContactsTypes
  <2>3. cActive' \in [thread : Chats, colour : Paints] /\ cActive'.thread = cActive.thread
    BY <2>1, <2>2
  <2> QED
    BY <1>1, <2>2, <2>3, PeopleStay DEF C!PickThreadTheme, C!Pressed, PeopleInv, ContactsTypes
<1>2. CASE C!MutationFails
  BY <1>2, PeopleStay DEF C!MutationFails, PeopleInv, ContactsTypes
<1>3. CASE C!Imported
  BY <1>3, PeopleStay DEF C!Imported, C!SyncContacts, PeopleInv, ContactsTypes
<1>4. ASSUME NEW w \in writes, C!RunWrite(w) \/ C!ThreadSaved(w) PROVE PeopleInv'
  BY <1>4, PeopleStay DEF C!RunWrite, C!ThreadSaved, PeopleInv, ContactsTypes
<1>5. ASSUME NEW l \in cLoads, C!RunLoad(l) PROVE PeopleInv'
  BY <1>5, PeopleStay DEF C!RunLoad, PeopleInv, ContactsTypes
<1> QED
  BY <1>1, <1>2, <1>3, <1>4, <1>5

-----------------------------------------------------------------------------
\* What was read, and what is shown of it.
ColourLoad(l) ==
  /\ l \in [seq : Nat, colour : [Chats -> Paints] \cup {None}, done : BOOLEAN]
  /\ l.seq <= cSeq /\ (l.done => l.colour \in [Chats -> Paints])
ColourTypes ==
  /\ colour \in [Chats -> Paints] /\ cSeq \in Nat /\ cApplied \in Nat /\ cApplied <= cSeq
  /\ \A l \in cLoads : ColourLoad(l)
  /\ \A k, l \in cLoads : k.seq = l.seq => k = l
  /\ \A w \in writes : w \in [thread : Chats, colour : Paints, n : Nat, done : BOOLEAN]
\* The last read is under way, or read what the table holds, or was shown.
Latest(l) == l.seq = cSeq /\ (l.done => l.colour = colour)
Shown ==
  /\ cApplied = cSeq /\ \A l \in cLoads : l.seq < cSeq
  /\ ~ cLate => list = colour /\ (cActive # None => cActive.colour = colour[cActive.thread])
ColourInv == ColourTypes /\ (writes # {} \/ (\E l \in cLoads : Latest(l)) \/ Shown)

LEMMA ColoursStart == C!ContactsInit => ColourInv
<1> SUFFICES ASSUME C!ContactsInit PROVE ColourInv
  OBVIOUS
<1>0. cApplied = 0 /\ cSeq = 0 /\ cLoads = {} /\ writes = {} /\ colour \in [Chats -> Paints]
  BY DEF C!ContactsInit, Paints
<1>1. ColourTypes
  BY ONLY <1>0 DEF ColourTypes
<1>2. Shown
  BY DEF C!ContactsInit, Shown
<1> QED
  BY <1>1, <1>2 DEF ColourInv

LEMMA Loads ==
  ASSUME ColourTypes, C!Load(cLoads), UNCHANGED <<colour, cApplied>>, 
         \A w \in writes' : w \in [thread : Chats, colour : Paints, n : Nat, done : BOOLEAN]
  PROVE  ColourInv'
<1> DEFINE new == [seq |-> cSeq + 1, colour |-> None, done |-> FALSE]
<1>1. cSeq' = cSeq + 1 /\ cLoads' = cLoads \cup {new} /\ cSeq \in Nat /\ cSeq' \in Nat
  BY DEF C!Load, ColourTypes
<1>2. new.seq = cSeq' /\ ~ new.done /\ new \in [seq : Nat, colour : [Chats -> Paints] \cup {None}, done : BOOLEAN]
  BY <1>1
<1> HIDE DEF new
<1>3. \A l \in cLoads : l.seq \in Nat /\ l.seq <= cSeq
  BY DEF ColourTypes, ColourLoad
<1>4. \A l \in cLoads' : ColourLoad(l)'
  BY <1>1, <1>2, <1>3 DEF ColourTypes, ColourLoad
<1>5. \A k, l \in cLoads' : k.seq = l.seq => k = l
  BY <1>1, <1>2, <1>3 DEF ColourTypes
<1>6. ColourTypes'
  BY <1>1, <1>4, <1>5 DEF ColourTypes
<1>7. new \in cLoads' /\ new.seq = cSeq' /\ (new.done => new.colour = colour')
  BY <1>1, <1>2
<1>8. \E l \in cLoads' : l.seq = cSeq' /\ (l.done => l.colour = colour')
  BY <1>7
<1> QED
  BY <1>6, <1>8 DEF ColourInv, Latest

\* Nothing that is written or read goes on.
LEMMA ColoursStay ==
  ASSUME ColourInv, UNCHANGED <<colour, list, cSeq, cApplied, cLoads, writes, cLate>>,
         cActive' = cActive \/ cActive' = None
  PROVE  ColourInv'
<1>1. ColourTypes'
  BY DEF ColourInv, ColourTypes, ColourLoad
<1>2. (\E l \in cLoads : Latest(l)) => \E l \in cLoads' : Latest(l)'
  BY DEF Latest
<1>3. Shown => Shown'
  BY DEF Shown
<1> QED
  BY <1>1, <1>2, <1>3 DEF ColourInv

\* A thread's colour is being written.
LEMMA ColoursWritten ==
  ASSUME ColourInv, UNCHANGED <<cSeq, cApplied, cLoads>>, writes' # {}, colour' \in [Chats -> Paints],
         \A w \in writes' : w \in [thread : Chats, colour : Paints, n : Nat, done : BOOLEAN]
  PROVE  ColourInv'
BY DEF ColourInv, ColourTypes, ColourLoad

LEMMA ColoursRead ==
  ASSUME ColourInv, NEW l \in cLoads, C!RunLoad(l)
  PROVE  ColourInv'
<1> DEFINE read == [l EXCEPT !.done = TRUE, !.colour = colour]
<1>0. /\ cLoads' = (cLoads \ {l}) \cup {read}
      /\ UNCHANGED <<colour, list, cSeq, cApplied, writes, cLate, cActive>>
  BY DEF C!RunLoad, C!store, C!screen
<1>1. /\ l \in [seq : Nat, colour : [Chats -> Paints] \cup {None}, done : BOOLEAN] /\ l.seq <= cSeq
      /\ colour \in [Chats -> Paints]
  BY DEF ColourInv, ColourTypes, ColourLoad
<1>2. /\ read \in [seq : Nat, colour : [Chats -> Paints] \cup {None}, done : BOOLEAN]
      /\ read.seq = l.seq /\ read.colour = colour
  BY <1>1
<1> HIDE DEF read
<1>3. \A k \in cLoads' : ColourLoad(k)'
  BY <1>0, <1>1, <1>2 DEF ColourInv, ColourTypes, ColourLoad
<1>4. ColourTypes'
  BY <1>0, <1>2, <1>3 DEF ColourInv, ColourTypes
<1>5. ASSUME NEW k \in cLoads, Latest(k) PROVE \E m \in cLoads' : m.seq = cSeq' /\ (m.done => m.colour = colour')
  <2>1. CASE k = l
    BY <1>0, <1>2, <1>5, <2>1 DEF Latest
  <2>2. CASE k # l
    BY <1>0, <1>5, <2>2 DEF Latest
  <2> QED
    BY <2>1, <2>2
<1>6. Shown => Shown'
  BY <1>0, <1>2 DEF Shown
<1> QED
  BY <1>0, <1>4, <1>5, <1>6 DEF ColourInv, Latest

LEMMA ColoursListed ==
  ASSUME ColourInv, NEW l \in cLoads, C!Listed(l)
  PROVE  ColourInv'
<1>0. /\ cLoads' = cLoads \ {l} /\ l.done /\ UNCHANGED <<colour, cSeq, writes>>
      /\ \/ l.seq < cApplied /\ UNCHANGED <<list, cApplied, cActive, cLate>>
         \/ /\ ~ l.seq < cApplied /\ cApplied' = l.seq
            /\ \/ /\ list' = l.colour
                  /\ cActive' = IF cActive = None THEN None
                                ELSE C!Open(cActive.thread, l.colour[cActive.thread])
               \/ cLate' = TRUE
  BY DEF C!Listed, C!store
<1>1. ColourLoad(l) /\ cSeq \in Nat /\ cApplied \in Nat /\ cApplied <= cSeq /\ l.seq \in Nat /\ l.seq <= cSeq
  BY DEF ColourInv, ColourTypes, ColourLoad
<1>2. ColourTypes'
  BY <1>0, <1>1 DEF ColourInv, ColourTypes, ColourLoad
<1>3. ASSUME Latest(l) PROVE Shown'
  <2>1. cApplied' = cSeq
    BY <1>0, <1>1, <1>3 DEF Latest
  <2>2. \A k \in cLoads' : k.seq < cSeq
    BY <1>0, <1>1, <1>3 DEF Latest, ColourInv, ColourTypes, ColourLoad
  <2>3. ~ cLate' => list' = colour /\ (cActive' # None => cActive'.colour = colour[cActive'.thread])
    BY <1>0, <1>1, <1>3 DEF Latest, C!Open
  <2> QED
    BY <1>0, <2>1, <2>2, <2>3 DEF Shown
<1>4. ASSUME NEW k \in cLoads, k # l, Latest(k) PROVE \E m \in cLoads' : m.seq = cSeq' /\ (m.done => m.colour = colour')
  BY <1>0, <1>4 DEF Latest
<1>5. ASSUME Shown PROVE Shown'
  BY <1>0, <1>1, <1>5 DEF Shown
<1> QED
  BY <1>0, <1>2, <1>3, <1>4, <1>5 DEF ColourInv, Latest

LEMMA ContactsKeyColours ==
  ASSUME PeopleInv, ColourInv, C!ContactKeys
  PROVE  ColourInv'
<1> USE DEF C!store, C!cached
<1>0. cKeys \in Nat
  BY DEF PeopleInv, ContactsTypes
\* Opening a thread reads the list again, everything else leaves the colours.
<1> DEFINE Reads == C!Load(cLoads) /\ UNCHANGED <<colour, cApplied, writes>>
           Stays == /\ UNCHANGED <<colour, list, cSeq, cApplied, cLoads, writes, cLate>>
                    /\ cActive' = cActive \/ cActive' = None
<1>1. Reads => ColourInv'
  BY Loads DEF ColourInv, ColourTypes
<1>2. Stays => ColourInv'
  BY ColoursStay
<1>3. CASE C!SetPane \/ C!Esc \/ C!OpenPanel \/ C!Adjust \/ C!Rename \/ C!Commit
  BY <1>2, <1>3 DEF C!SetPane, C!Esc, C!OpenPanel, C!Adjust, C!Rename, C!Commit
<1>4. CASE C!Select \/ C!OpenDetails
  <2>1. \A t, c : C!OpenThread(t, c) /\ UNCHANGED <<colour, writes>> => Reads
    BY DEF C!OpenThread
  <2>2. \A c : C!PickRecipient(c) /\ UNCHANGED <<colour, writes, cLate>> => Reads \/ Stays
    BY <2>1 DEF C!PickRecipient, C!Choose
  <2>3. \A c : C!Choose(c) /\ UNCHANGED <<colour, writes, cLate>> => Stays
    BY DEF C!Choose
  <2> QED
    BY <1>1, <1>2, <1>4, <2>1, <2>2, <2>3 DEF C!Select, C!OpenDetails
<1>5. CASE C!PickThreadTheme \/ C!SaveDetails
  <2>1. \/ /\ \E c \in Paints : C!WriteThread(c)
           /\ cActive # None /\ UNCHANGED <<colour, cSeq, cApplied, cLoads>> /\ cKeys' = cKeys + 1
        \/ Stays
    BY <1>5 DEF C!PickThreadTheme, C!SaveDetails, C!Pressed, Paints
  <2>2. ASSUME NEW c \in Paints, C!WriteThread(c), cActive # None,
               UNCHANGED <<colour, cSeq, cApplied, cLoads>>, cKeys' = cKeys + 1
        PROVE  ColourInv'
    <3>1. [thread |-> cActive.thread, colour |-> c, n |-> cKeys', done |-> FALSE]
            \in [thread : Chats, colour : Paints, n : Nat, done : BOOLEAN]
      BY <1>0, <2>2 DEF PeopleInv, ContactsTypes
    <3> QED
      BY <2>2, <3>1, ColoursWritten DEF C!WriteThread, ColourInv, ColourTypes
  <2> QED
    BY <1>2, <2>1, <2>2
<1> QED
  BY <1>3, <1>4, <1>5 DEF C!ContactKeys

LEMMA ContactsResultColours ==
  ASSUME PeopleInv, ColourInv, C!ContactResults
  PROVE  ColourInv'
<1> USE DEF C!store, C!cached, C!screen
<1>1. CASE C!MutationDone \/ C!MutationFails
  BY <1>1, ColoursStay DEF C!MutationDone, C!MutationFails, C!Deleted, C!Saved, C!Choose
<1>2. CASE C!Imported
  BY <1>2, Loads DEF C!Imported, ColourInv, ColourTypes
<1>3. ASSUME NEW w \in writes, C!RunWrite(w) PROVE ColourInv'
  <2>0. w \in [thread : Chats, colour : Paints, n : Nat, done : BOOLEAN] /\ colour \in [Chats -> Paints]
    BY DEF ColourInv, ColourTypes
  <2>1. [w EXCEPT !.done = TRUE] \in [thread : Chats, colour : Paints, n : Nat, done : BOOLEAN]
    BY <2>0
  <2>2. colour' \in [Chats -> Paints]
    BY <1>3, <2>0 DEF C!RunWrite
  <2> QED
    BY <1>3, <2>1, <2>2, ColoursWritten DEF C!RunWrite, ColourInv, ColourTypes
<1>4. ASSUME NEW w \in writes, C!ThreadSaved(w) PROVE ColourInv'
  BY <1>4, Loads DEF C!ThreadSaved, C!Reload, ColourInv, ColourTypes
<1> QED
  BY <1>1, <1>2, <1>3, <1>4, ColoursRead, ColoursListed DEF C!ContactResults

-----------------------------------------------------------------------------
ContactsInv == PeopleInv /\ ColourInv

LEMMA PeopleListed ==
  ASSUME PeopleInv, ColourInv, NEW l \in cLoads, C!Listed(l)
  PROVE  PeopleInv'
<1>0. l.done => l.colour \in [Chats -> Paints]
  BY DEF ColourInv, ColourTypes, ColourLoad
<1>1. list' \in [Chats -> Paints]
  BY <1>0 DEF C!Listed, PeopleInv, ContactsTypes
<1>2. ASSUME cActive # None
      PROVE  cActive' \in [thread : Chats, colour : Paints] /\ cActive'.thread = cActive.thread
  <2>1. cActive \in [thread : Chats, colour : Paints]
    BY <1>2 DEF PeopleInv, ContactsTypes
  <2>2. l.done /\ (cActive' = cActive \/ cActive' = C!Open(cActive.thread, l.colour[cActive.thread]))
    BY <1>2 DEF C!Listed
  <2> QED
    BY <1>0, <2>1, <2>2 DEF C!Open
<1>3. cActive = None => cActive' = None
  BY DEF C!Listed
<1>4. /\ UNCHANGED <<table, mine, recipient, selected, editing, cModal, cDraft, unthreaded, cKeys, cBusy>>
      /\ book' \subseteq Numbers
  BY DEF C!Listed, C!store, PeopleInv, ContactsTypes
<1> QED
  BY <1>1, <1>2, <1>3, <1>4, PeopleStay

LEMMA ContactsStep == ContactsInv /\ [Next]_vars => ContactsInv'
<1>1. ASSUME ContactsInv, C!ContactKeys PROVE ContactsInv'
  BY <1>1, MovingStep, PanelStep, CommitStep, SaveDetailsStep, PeopleBesideStep, ContactsKeyColours
     DEF ContactsInv, C!ContactKeys
<1>2. ASSUME ContactsInv, C!ContactResults PROVE ContactsInv'
  BY <1>2, DeletedStep, SavedStep, PeopleBesideStep, PeopleListed, ContactsResultColours
     DEF ContactsInv, C!ContactResults
<1>3. ASSUME ContactsInv, UNCHANGED contactsVars PROVE ContactsInv'
  BY <1>3, PeopleStay, ColoursStay DEF contactsVars, ContactsInv, PeopleInv, ContactsTypes
<1>4. [Next]_vars => C!ContactsNext \/ UNCHANGED contactsVars
  BY DEF Next, vars, HistoryNext, AssistantNext, AttachNext, MediaNext, ContactsNext, ReplyNext, EchoNext
<1> QED
  BY <1>1, <1>2, <1>3, <1>4 DEF C!ContactsNext

\* A number becomes one contact of the user's, from wherever and however often
\* its colours are changed, unless the user typed the number in a form or was in
\* a chat without a thread (details.go, actions.go, model.go).
THEOREM OneContactEach == Spec => []NoTwins
<1>1. Init => ContactsInv
  BY ContactsStart, ColoursStart DEF Init, ContactsInv
<1>2. ContactsInv => NoTwins
  BY DEF ContactsInv, PeopleInv, OneEach, NoTwins, C!NoTwins
<1> QED
  BY <1>1, <1>2, ContactsStep, PTL DEF Spec

\* Once nothing is under way the open conversation wears the thread's colour or that
\* of the contact with the recipient's number, a number of the thread's person, in
\* whatever order writes, reads, imports and failures came (details.go, history.go).
THEOREM ColoursMeet == Spec => []ColoursSettle
<1>1. Init => ContactsInv
  BY ContactsStart, ColoursStart DEF Init, ContactsInv
<1>2. ContactsInv => ColoursSettle
  <2> DEFINE own == {d \in table : d.number = recipient.number}
  <2> SUFFICES ASSUME ContactsInv, cActive # None, C!Idle, ~ unthreaded
               PROVE  /\ cActive.colour = colour[cActive.thread]
                      /\ C!Same(recipient.number, With[cActive.thread])
                      /\ recipient.colour \in C!ColoursOf(own)
    BY DEF ColoursSettle, C!ColoursSettle
  <2>1. cActive.colour = colour[cActive.thread]
    BY DEF ContactsInv, ColourInv, Shown, C!Idle
  <2>2. Match(cActive, recipient) /\ \A d \in table : d.id # 0
    BY DEF ContactsInv, PeopleInv, OneEach, Minted, ContactsTypes
  <2>3. CASE recipient \in table
    BY <2>1, <2>2, <2>3 DEF Match, C!ColoursOf
  <2>4. CASE recipient.id = 0 /\ recipient.colour = None
    <3>1. own = {}
      BY <2>2, <2>4 DEF Match, Fresh
    <3> QED
      BY <2>1, <2>2, <2>4, <3>1 DEF Match, C!ColoursOf
  <2> QED
    BY <2>2, <2>3, <2>4 DEF Match
<1> QED
  BY <1>1, <1>2, ContactsStep, PTL DEF Spec
-----------------------------------------------------------------------------
(***************************************************************************)
(* The open conversation (module History).  Loads are numbered and the     *)
(* last one is always of the open conversation; every change of the table, *)
(* of the window or of the query either leaves a command that will start   *)
(* another load, or starts one.  So as long as the last load is under way  *)
(* nothing is promised of the view, and once it is shown the view is up to *)
(* date, unless a search or a failed read is to blame.                     *)
(***************************************************************************)
Passages == {ms \in SUBSET Nat : IsFiniteSet(ms)}
\* What a view, a read of the table, a search, and a write of MarkRead hold.
IsView(v) ==
  DOMAIN v = {"ms", "new", "sel", "follow"} /\ v.ms \in Passages /\ v.new \subseteq v.ms
IsRead(r) == r.done \in BOOLEAN /\ r.ms \in Passages /\ r.new \subseteq Nat
IsLoad(l) ==
  /\ DOMAIN l = {"seq", "thread", "limit", "done", "ms", "new"}
  /\ l.seq \in Nat /\ l.thread \in Threads \cup {None} /\ IsRead(l)
IsSearch(s) ==
  /\ DOMAIN s = {"rev", "thread", "query", "done", "ms", "new"}
  /\ s.thread \in Threads /\ IsRead(s)
IsSave(s) ==
  DOMAIN s = {"thread", "ids", "done"} /\ s.thread \in Threads /\ s.ids \subseteq Nat

TablesOK ==
  /\ top \in [Threads -> Nat] /\ hRows \in [Threads -> Passages]
  /\ unread \in [Threads -> SUBSET Nat] /\ seen \in [Threads -> SUBSET Nat]
ScreenOK ==
  /\ hActive \in Threads \cup {None} /\ limit \in Nat
  /\ looking \in BOOLEAN /\ query \in BOOLEAN /\ typing \in BOOLEAN /\ hLate \in BOOLEAN
  /\ typing => hActive # None
  /\ IsView(view) /\ DOMAIN hViews = Threads /\ \A t \in Threads : IsView(hViews[t])
CommandsOK ==
  /\ older # None => older \in [thread : Threads, offset : Nat, done : BOOLEAN]
  /\ \A s \in searches : IsSearch(s)
  /\ news \subseteq Threads \X Nat
\* What is marked read was before the user.
SavesSeen == \A s \in saves : IsSave(s) /\ s.ids \subseteq seen[s.thread]
\* The loads are numbered, and the last one is of the open conversation.
LoadsOK ==
  /\ hSeq \in Nat /\ hApplied \in Nat /\ hApplied <= hSeq
  /\ \A l \in hLoads : IsLoad(l) /\ l.seq <= hSeq /\ (l.seq = hSeq => l.thread = hActive)
  /\ \A k, l \in hLoads : k.seq = l.seq => k = l

\* Something will start another load.
Underway == saves # {} \/ news # {} \/ older # None
\* The last load will show the conversation as it is.
Renews(l) ==
  /\ l.seq = hSeq /\ l.limit = limit
  /\ l.done /\ hActive # None =>
       l.ms = H!NewestOf(hRows[hActive], limit) /\ l.new = unread[hActive]
Asked == \E s \in searches : s.rev = rev /\ s.thread = hActive
Excused == query \/ typing \/ hLate \/ Asked \/ hActive = None
UpToDate ==
  LET all == H!NewestOf(hRows[hActive], limit)
  IN  all \subseteq view.ms /\ view.new \cap all = unread[hActive] \cap all
\* The last load was handled.
LastShown == hApplied = hSeq /\ \A l \in hLoads : l.seq < hSeq
ViewCurrent == Underway \/ (\E l \in hLoads : Renews(l)) \/ (LastShown /\ (Excused \/ UpToDate))
JumpCurrent ==
  (\E l \in hLoads : l.seq = hSeq) \/ (LastShown /\ (Excused \/ jump = None \/ jump[1] # hActive))

HistoryInv ==
  TablesOK /\ ScreenOK /\ CommandsOK /\ SavesSeen /\ LoadsOK /\ ViewCurrent /\ JumpCurrent

LEMMA NewestSubset == \A S, k : H!NewestOf(S, k) \subseteq S
BY DEF H!NewestOf

LEMMA PassagesPart == \A S \in Passages : \A T \in SUBSET S : T \in Passages
BY FS_Subset DEF Passages

LEMMA PassagesFirst == \A n \in Nat : 1 .. n \in Passages
<1> SUFFICES ASSUME NEW n \in Nat PROVE 1 .. n \in Passages
  OBVIOUS
<1>1. n \in Int /\ 1 \in Int /\ 1 .. n \subseteq Nat
  OBVIOUS
<1>2. IsFiniteSet(1 .. n)
  BY <1>1, FS_Interval
<1> QED
  BY <1>1, <1>2 DEF Passages

\* A load starts.
LEMMA LoadStarts ==
  ASSUME LoadsOK, NEW t \in Threads \cup {None}, t = hActive', NEW n, NEW old \in SUBSET hLoads,
         H!Load(old, t, n), hApplied' \in Nat, hApplied' <= hSeq
  PROVE  LoadsOK' /\ JumpCurrent' /\ (n = limit' => ViewCurrent')
<1> DEFINE new == [seq |-> hSeq + 1, thread |-> t, limit |-> n, done |-> FALSE, ms |-> {}, new |-> {}]
<1>1. hSeq' = hSeq + 1 /\ hLoads' = old \cup {new} /\ hSeq \in Nat
  BY DEF H!Load, LoadsOK
<1>2. {} \in Passages
  BY FS_EmptySet DEF Passages
<1>3. IsLoad(new) /\ new.seq = hSeq' /\ new.thread = hActive' /\ new.limit = n /\ ~ new.done
  BY <1>1, <1>2 DEF IsLoad, IsRead
<1> HIDE DEF new
<1>4. \A l \in old : IsLoad(l) /\ l.seq \in Nat /\ l.seq <= hSeq
  BY DEF LoadsOK, IsLoad
<1>5. LoadsOK'
  <2>1. hSeq' \in Nat /\ hApplied' \in Nat /\ hApplied' <= hSeq'
    BY <1>1
  <2>2. \A l \in hLoads' : IsLoad(l) /\ l.seq <= hSeq' /\ (l.seq = hSeq' => l.thread = hActive')
    BY <1>1, <1>3, <1>4
  <2>3. \A k, l \in hLoads' : k.seq = l.seq => k = l
    BY <1>1, <1>3, <1>4 DEF LoadsOK
  <2>4. \A l : IsLoad(l)' <=> IsLoad(l)
    BY DEF IsLoad, IsRead
  <2> QED
    BY <2>1, <2>2, <2>3 DEF LoadsOK, IsLoad, IsRead
<1>6. JumpCurrent'
  <2>1. \E l \in hLoads' : l.seq = hSeq'
    BY <1>1, <1>3
  <2> QED
    BY <2>1 DEF JumpCurrent
<1>7. n = limit' => ViewCurrent'
  <2>1. n = limit' => \E l \in hLoads' : l.seq = hSeq' /\ l.limit = limit' /\ ~ l.done
    BY <1>1, <1>3
  <2> QED
    BY <2>1 DEF ViewCurrent, Renews
<1> QED
  BY <1>5, <1>6, <1>7

LEMMA HistoryStarts == H!Init => HistoryInv
<1> SUFFICES ASSUME H!Init PROVE HistoryInv
  OBVIOUS
<1> USE HistoryAssumption DEF H!Init
<1>1. TablesOK
  <2>1. \A t \in Threads : 1 .. Top[t] \in Passages
    BY PassagesFirst DEF HistoryAssumption
  <2>2. \A t \in Threads : {i \in 1 .. Top[t] : i > Top[t] - Cached[t]} \in Passages
    BY <2>1, PassagesPart
  <2> QED
    BY <2>2 DEF TablesOK
<1>2. ScreenOK
  <2>1. IsView(H!New)
    BY FS_EmptySet DEF IsView, H!New, Passages
  <2> QED
    BY <2>1 DEF ScreenOK
<1>3. CommandsOK /\ SavesSeen
  BY DEF CommandsOK, SavesSeen
<1>4. LoadsOK
  BY DEF LoadsOK
<1>5. ViewCurrent /\ JumpCurrent
  BY DEF ViewCurrent, JumpCurrent, LastShown, Excused
<1> QED
  BY <1>1, <1>2, <1>3, <1>4, <1>5 DEF HistoryInv

\* A row of a command, or of a message, is a set of numbers.
LEMMA RowsPart ==
  ASSUME TablesOK, NEW t \in Threads
  PROVE  hRows[t] \in Passages /\ unread[t] \subseteq Nat
         /\ \A k : H!NewestOf(hRows[t], k) \in Passages
<1>1. hRows[t] \in Passages /\ unread[t] \subseteq Nat
  BY DEF TablesOK
<1> QED
  BY <1>1, NewestSubset, PassagesPart

LEMMA PassagesUnion == \A S, T \in Passages : S \cup T \in Passages
BY FS_Union DEF Passages

\* A step that starts no load and shows none.
LEMMA LoadsKept ==
  ASSUME LoadsOK, UNCHANGED <<hSeq, hApplied, hLoads, hActive>>
  PROVE  LoadsOK'
BY DEF LoadsOK, IsLoad, IsRead

LEMMA ViewKept ==
  ASSUME ViewCurrent, UNCHANGED <<hSeq, hApplied, hLoads, limit, hActive, hRows, unread>>,
         Underway => Underway', Excused \/ UpToDate => (Excused \/ UpToDate)'
  PROVE  ViewCurrent'
<1>1. ASSUME NEW k \in hLoads, Renews(k) PROVE Renews(k)'
  BY <1>1 DEF Renews, H!NewestOf
<1>2. LastShown => LastShown'
  BY DEF LastShown
<1> QED
  BY <1>1, <1>2 DEF ViewCurrent

LEMMA JumpKept ==
  ASSUME JumpCurrent, UNCHANGED <<hSeq, hApplied, hLoads, hActive, jump>>, Excused => Excused'
  PROVE  JumpCurrent'
BY DEF JumpCurrent, LastShown

\* A load reads the table.
LEMMA RunLoadKeeps ==
  ASSUME HistoryInv, NEW l \in hLoads, H!RunLoad(l)
  PROVE  HistoryInv'
<1> DEFINE ms == IF l.thread = None THEN {} ELSE H!NewestOf(hRows[l.thread], l.limit)
           new == IF l.thread = None THEN {} ELSE unread[l.thread]
<1>1. UNCHANGED <<H!client, H!table, older, hSeq, hApplied, searches, saves, news, seen, hLate>>
  BY DEF H!RunLoad
<1>2. /\ ~ l.done
      /\ hLoads' = (hLoads \ {l}) \cup {[l EXCEPT !.done = TRUE, !.ms = ms, !.new = new]}
  BY DEF H!RunLoad
<1>3. TablesOK /\ LoadsOK /\ IsLoad(l)
  BY DEF HistoryInv, LoadsOK
<1>4. ms \in Passages /\ new \subseteq Nat
  <2>1. {} \in Passages
    BY FS_EmptySet DEF Passages
  <2> QED
    BY <1>3, <2>1, RowsPart DEF IsLoad
<1>5. PICK r : /\ hLoads' = (hLoads \ {l}) \cup {r}
              /\ IsLoad(r) /\ r.seq = l.seq /\ r.thread = l.thread /\ r.limit = l.limit
              /\ r.done /\ r.ms = ms /\ r.new = new
  <2> HIDE DEF ms, new
  <2>1. ms \in Passages /\ new \in SUBSET Nat
    BY <1>4
  <2> DEFINE read == [l EXCEPT !.done = TRUE, !.ms = ms, !.new = new]
  <2>2. /\ IsLoad(read) /\ read.seq = l.seq /\ read.thread = l.thread /\ read.limit = l.limit
        /\ read.done /\ read.ms = ms /\ read.new = new
    BY ONLY <1>3, <2>1 DEF IsLoad, IsRead
  <2>3. hLoads' = (hLoads \ {l}) \cup {read}
    BY <1>2
  <2> HIDE DEF read
  <2> QED
    BY <2>2, <2>3
<1>6. LoadsOK'
  <2>1. \A k \in hLoads' : IsLoad(k) /\ k.seq <= hSeq /\ (k.seq = hSeq => k.thread = hActive)
    BY <1>3, <1>5 DEF LoadsOK
  <2>2. \A k, m \in hLoads' : k.seq = m.seq => k = m
    BY <1>3, <1>5 DEF LoadsOK
  <2> QED
    BY <1>1, <1>3, <2>1, <2>2 DEF LoadsOK, H!client, IsLoad, IsRead
<1>7. ViewCurrent'
  <2>1. CASE Underway
    BY <1>1, <2>1 DEF ViewCurrent, Underway
  <2>2. ASSUME NEW k \in hLoads, Renews(k) PROVE ViewCurrent'
    <3>1. k \in hLoads' \/ k = l
      BY <1>5
    <3>2. k \in hLoads' => Renews(k)'
      BY <2>2, <1>1 DEF Renews, H!client, H!table
    <3>3. k = l => Renews(r)'
      <4> SUFFICES ASSUME k = l PROVE Renews(r)'
        OBVIOUS
      <4>1. r.seq = hSeq /\ r.limit = limit /\ r.thread = hActive
        BY <1>3, <1>5, <2>2 DEF Renews, LoadsOK
      <4>2. hActive # None => r.ms = H!NewestOf(hRows[hActive], limit) /\ r.new = unread[hActive]
        BY <1>5, <4>1
      <4> QED
        BY <1>1, <4>1, <4>2 DEF Renews, H!client, H!table, H!NewestOf
    <3>4. r \in hLoads'
      BY <1>5
    <3> QED
      BY <3>1, <3>2, <3>3, <3>4 DEF ViewCurrent
  <2>3. CASE LastShown /\ (Excused \/ UpToDate)
    <3>1. LastShown'
      BY <1>1, <1>5, <2>3 DEF LastShown, H!client
    <3>2. (Excused \/ UpToDate)'
      BY <1>1, <2>3 DEF Excused, UpToDate, Asked, H!client, H!table, H!NewestOf
    <3> QED
      BY <3>1, <3>2 DEF ViewCurrent
  <2> QED
    BY <2>1, <2>2, <2>3 DEF HistoryInv, ViewCurrent
<1>8. JumpCurrent'
  <2>1. ASSUME NEW k \in hLoads, k.seq = hSeq PROVE JumpCurrent'
    BY <1>1, <1>5, <2>1 DEF JumpCurrent
  <2>2. CASE LastShown /\ (Excused \/ jump = None \/ jump[1] # hActive)
    <3>1. LastShown'
      BY <1>1, <1>5, <2>2 DEF LastShown, H!client
    <3> QED
      BY <1>1, <2>2, <3>1 DEF JumpCurrent, Excused, Asked, H!client
  <2> QED
    BY <2>1, <2>2 DEF HistoryInv, JumpCurrent
<1>9. (TablesOK /\ ScreenOK /\ CommandsOK /\ SavesSeen)'
  BY <1>1 DEF HistoryInv, TablesOK, ScreenOK, CommandsOK, SavesSeen, H!client, H!table
<1> QED
  BY <1>6, <1>7, <1>8, <1>9 DEF HistoryInv

\* A search reads the table.
LEMMA RunSearchKeeps ==
  ASSUME HistoryInv, NEW s \in searches, H!RunSearch(s)
  PROVE  HistoryInv'
<1> DEFINE ms == IF s.query THEN hRows[s.thread] \cap Hits ELSE hRows[s.thread]
           read == [s EXCEPT !.done = TRUE, !.ms = ms, !.new = unread[s.thread]]
<1>1. UNCHANGED <<H!client, H!table, older, hSeq, hApplied, hLoads, saves, news, seen, hLate>>
  BY DEF H!RunSearch
<1>2. searches' = (searches \ {s}) \cup {read}
  BY DEF H!RunSearch
<1>3. TablesOK /\ IsSearch(s)
  BY DEF HistoryInv, CommandsOK
<1>4. ms \in Passages /\ unread[s.thread] \in SUBSET Nat
  <2>1. hRows[s.thread] \in Passages /\ unread[s.thread] \subseteq Nat
    BY <1>3, RowsPart DEF IsSearch
  <2> QED
    BY <2>1, PassagesPart
<1> HIDE DEF ms
<1>5. IsSearch(read) /\ read.rev = s.rev /\ read.thread = s.thread
  BY ONLY <1>3, <1>4 DEF IsSearch, IsRead
<1> HIDE DEF read
<1>6. Excused => Excused'
  <2>1. Asked => Asked'
    BY <1>1, <1>2, <1>5 DEF Asked, H!client
  <2> QED
    BY <1>1, <2>1 DEF Excused, H!client
<1>7. UpToDate => UpToDate'
  BY <1>1 DEF UpToDate, H!client, H!table, H!NewestOf
<1>8. LoadsOK' /\ ViewCurrent' /\ JumpCurrent'
  BY <1>1, <1>6, <1>7, LoadsKept, ViewKept, JumpKept DEF HistoryInv, Underway, H!client, H!table
<1>9. \A x \in searches' : IsSearch(x)
  BY <1>2, <1>5 DEF HistoryInv, CommandsOK
<1>10. (TablesOK /\ ScreenOK /\ CommandsOK /\ SavesSeen)'
  BY <1>1, <1>9 DEF HistoryInv, TablesOK, ScreenOK, CommandsOK, SavesSeen, H!client, H!table
<1> QED
  BY <1>8, <1>10 DEF HistoryInv

\* The newest messages are marked read.
LEMMA RunSaveKeeps ==
  ASSUME HistoryInv, NEW s \in saves, H!RunSave(s)
  PROVE  HistoryInv'
<1> DEFINE done == [s EXCEPT !.done = TRUE]
<1>1. /\ UNCHANGED <<H!client, top, hRows, older, hSeq, hApplied, hLoads, searches, news, seen, hLate>>
      /\ unread' = [unread EXCEPT ![s.thread] = @ \ s.ids]
  BY DEF H!RunSave, H!MarkRead
<1>2. saves' = (saves \ {s}) \cup {done}
  BY DEF H!RunSave
<1>3. IsSave(s) /\ s.ids \subseteq seen[s.thread]
  BY DEF HistoryInv, SavesSeen
<1>4. IsSave(done) /\ done.thread = s.thread /\ done.ids = s.ids
  BY ONLY <1>3 DEF IsSave
<1> HIDE DEF done
<1>5. ViewCurrent'
  BY <1>2 DEF ViewCurrent, Underway
<1>6. LoadsOK' /\ JumpCurrent'
  BY <1>1, LoadsKept, JumpKept DEF HistoryInv, Excused, Asked, H!client
<1>7. SavesSeen'
  BY <1>1, <1>2, <1>3, <1>4 DEF HistoryInv, SavesSeen, IsSave
<1>8. TablesOK'
  BY <1>1 DEF HistoryInv, TablesOK
<1>9. (ScreenOK /\ CommandsOK)'
  BY <1>1 DEF HistoryInv, ScreenOK, CommandsOK, H!client
<1> QED
  BY <1>5, <1>6, <1>7, <1>8, <1>9 DEF HistoryInv

\* A page comes from the phone.
LEMMA RunOlderKeeps ==
  ASSUME HistoryInv, H!RunOlder
  PROVE  HistoryInv'
<1> USE HistoryAssumption
<1> DEFINE page == {i \in 1 .. top[older.thread] :
                      /\ i <= top[older.thread] - older.offset
                      /\ i + older.offset + PageSize > top[older.thread]}
<1>1. /\ UNCHANGED <<H!client, top, unread, hSeq, hApplied, hLoads, searches, saves, news, seen, hLate>>
      /\ older # None /\ older' = [older EXCEPT !.done = TRUE]
  BY DEF H!RunOlder
<1>2. hRows' = [hRows EXCEPT ![older.thread] = @ \cup page] \/ hRows' = hRows
  BY DEF H!RunOlder
<1>3. older \in [thread : Threads, offset : Nat, done : BOOLEAN]
  BY <1>1 DEF HistoryInv, CommandsOK
<1>4. older' \in [thread : Threads, offset : Nat, done : BOOLEAN] /\ older' # None
  BY <1>1, <1>3 DEF HistoryAssumption
<1>5. page \in Passages
  <2>1. top[older.thread] \in Nat
    BY <1>3 DEF HistoryInv, TablesOK
  <2>2. 1 .. top[older.thread] \in Passages
    BY <2>1, PassagesFirst
  <2> QED
    BY <2>2, PassagesPart
<1> HIDE DEF page
<1>6. TablesOK'
  <2>1. hRows[older.thread] \cup page \in Passages
    BY <1>3, <1>5, PassagesUnion DEF HistoryInv, TablesOK
  <2> QED
    BY <1>1, <1>2, <2>1 DEF HistoryInv, TablesOK
<1>7. ViewCurrent'
  BY <1>4 DEF ViewCurrent, Underway
<1>8. LoadsOK' /\ JumpCurrent'
  BY <1>1, LoadsKept, JumpKept DEF HistoryInv, Excused, Asked, H!client
<1>9. (ScreenOK /\ CommandsOK /\ SavesSeen)'
  BY <1>1, <1>4 DEF HistoryInv, ScreenOK, CommandsOK, SavesSeen, IsSave, H!client
<1> QED
  BY <1>6, <1>7, <1>8, <1>9 DEF HistoryInv

\* The session merges a message.
LEMMA AnnounceKeeps ==
  ASSUME HistoryInv, NEW t \in Threads, H!Announce(t)
  PROVE  HistoryInv'
<1>1. /\ UNCHANGED <<H!client, older, hSeq, hApplied, hLoads, searches, saves, seen, hLate>>
      /\ top' = [top EXCEPT ![t] = @ + 1]
      /\ hRows' = [hRows EXCEPT ![t] = @ \cup {top[t] + 1}]
      /\ unread' = [unread EXCEPT ![t] = @ \cup {top[t] + 1}]
      /\ news' = news \cup {<<t, top[t] + 1>>}
  BY DEF H!Announce
<1>2. top[t] + 1 \in Nat
  BY DEF HistoryInv, TablesOK
<1>3. TablesOK'
  <2>1. {top[t] + 1} \in Passages
    BY <1>2, FS_Singleton DEF Passages
  <2>2. hRows[t] \cup {top[t] + 1} \in Passages
    BY <2>1, PassagesUnion DEF HistoryInv, TablesOK
  <2> QED
    BY <1>1, <1>2, <2>2 DEF HistoryInv, TablesOK
<1>4. ViewCurrent'
  BY <1>1 DEF ViewCurrent, Underway
<1>5. LoadsOK' /\ JumpCurrent'
  BY <1>1, LoadsKept, JumpKept DEF HistoryInv, Excused, Asked, H!client
<1>6. (ScreenOK /\ CommandsOK /\ SavesSeen)'
  BY <1>1, <1>2 DEF HistoryInv, ScreenOK, CommandsOK, SavesSeen, IsSave, H!client
<1> QED
  BY <1>3, <1>4, <1>5, <1>6 DEF HistoryInv

\* A load is handled and leaves the view as it is: the last one only if the view
\* is not held to be up to date.
LEMMA HandledOnly ==
  ASSUME LoadsOK, ViewCurrent, JumpCurrent, NEW l \in hLoads, hLoads' = hLoads \ {l},
         hApplied' = l.seq, hApplied <= l.seq, l.seq = hSeq => Excused',
         UNCHANGED <<hSeq, hActive, limit, hRows, unread, saves, news, older, jump>>
  PROVE  LoadsOK' /\ ViewCurrent' /\ JumpCurrent'
<1>1. /\ hApplied \in Nat /\ hSeq \in Nat /\ l.seq \in Nat /\ l.seq <= hSeq
      /\ \A k \in hLoads : k.seq \in Nat /\ k.seq <= hSeq
  BY DEF LoadsOK, IsLoad
<1>2. LoadsOK'
  BY <1>1 DEF LoadsOK, IsLoad, IsRead
<1>3. CASE l.seq = hSeq
  <2>1. \A k \in hLoads' : k.seq < hSeq
    BY <1>1, <1>3 DEF LoadsOK
  <2>2. LastShown' /\ Excused'
    BY <1>3, <2>1 DEF LastShown
  <2> QED
    BY <1>2, <2>2 DEF ViewCurrent, JumpCurrent
<1>4. CASE l.seq # hSeq
  <2>1. ~ LastShown
    BY <1>1, <1>4 DEF LastShown
  <2>2. \A k \in hLoads : k.seq = hSeq => k \in hLoads'
    BY <1>4
  <2>3. ASSUME NEW k \in hLoads, Renews(k) PROVE k \in hLoads' /\ Renews(k)'
    BY <2>2, <2>3 DEF Renews, H!NewestOf
  <2> QED
    BY <1>2, <2>1, <2>2, <2>3 DEF ViewCurrent, JumpCurrent, Underway
<1> QED
  BY <1>3, <1>4

\* A load that is out of date is dropped: it is not the last.
LEMMA DroppedKeeps ==
  ASSUME HistoryInv, NEW l \in hLoads, H!Dropped(l)
  PROVE  HistoryInv'
<1>1. /\ UNCHANGED <<H!client, H!table, older, hSeq, hApplied, searches, saves, news, seen, hLate>>
      /\ hLoads' = hLoads \ {l} /\ l.seq < hApplied
  BY DEF H!Dropped, H!Outdated
<1>2. LoadsOK /\ hApplied <= hSeq /\ hApplied \in Nat /\ hSeq \in Nat /\ l.seq \in Nat
  BY DEF HistoryInv, LoadsOK, IsLoad
<1>3. l.seq # hSeq
  BY <1>1, <1>2
<1>4. \A k \in hLoads : k.seq = hSeq => k \in hLoads'
  BY <1>1, <1>3
<1>5. LoadsOK'
  BY <1>1, <1>2 DEF LoadsOK, IsLoad, IsRead, H!client
<1>6. LastShown => LastShown'
  BY <1>1 DEF LastShown
<1>7. Excused => Excused'
  BY <1>1 DEF Excused, Asked, H!client
<1>8. UpToDate => UpToDate'
  BY <1>1 DEF UpToDate, H!NewestOf, H!client, H!table
<1>9. ViewCurrent'
  <2>1. ASSUME NEW k \in hLoads, Renews(k) PROVE k \in hLoads' /\ Renews(k)'
    BY <1>1, <1>4, <2>1 DEF Renews, H!NewestOf, H!client, H!table
  <2> QED
    BY <1>1, <1>6, <1>7, <1>8, <2>1 DEF HistoryInv, ViewCurrent, Underway
<1>10. JumpCurrent'
  BY <1>1, <1>4, <1>6, <1>7 DEF HistoryInv, JumpCurrent, H!client
<1>11. (TablesOK /\ ScreenOK /\ CommandsOK /\ SavesSeen)'
  BY <1>1 DEF HistoryInv, TablesOK, ScreenOK, CommandsOK, SavesSeen, IsSave, H!client, H!table
<1> QED
  BY <1>5, <1>9, <1>10, <1>11 DEF HistoryInv

\* A load failed, or renews the list of conversations only.
LEMMA LoadFailedKeeps ==
  ASSUME HistoryInv, NEW l \in hLoads, H!LoadFailed(l)
  PROVE  HistoryInv'
<1>1. /\ UNCHANGED <<H!client, H!table, older, hSeq, searches, saves, news, seen>>
      /\ hLoads' = hLoads \ {l} /\ ~ (l.seq < hApplied) /\ hApplied' = l.seq /\ hLate' = TRUE
  BY DEF H!LoadFailed, H!Outdated
<1>2. hApplied \in Nat /\ l.seq \in Nat
  BY DEF HistoryInv, LoadsOK, IsLoad
<1>3. hApplied <= l.seq
  BY <1>1, <1>2
<1>4. Excused'
  BY <1>1 DEF Excused
<1>5. LoadsOK' /\ ViewCurrent' /\ JumpCurrent'
  BY <1>1, <1>3, <1>4, HandledOnly DEF HistoryInv, H!client, H!table
<1>6. (TablesOK /\ ScreenOK /\ CommandsOK /\ SavesSeen)'
  BY <1>1 DEF HistoryInv, TablesOK, ScreenOK, CommandsOK, SavesSeen, IsSave, H!client, H!table
<1> QED
  BY <1>5, <1>6 DEF HistoryInv

LEMMA ListedKeeps ==
  ASSUME HistoryInv, NEW l \in hLoads, H!Listed(l)
  PROVE  HistoryInv'
<1>1. /\ UNCHANGED <<H!client, H!table, older, hSeq, searches, saves, news, seen, hLate>>
      /\ hLoads' = hLoads \ {l} /\ ~ (l.seq < hApplied) /\ hApplied' = l.seq
      /\ hActive = None \/ l.thread # hActive \/ query
  BY DEF H!Listed, H!Outdated
<1>2. hApplied \in Nat /\ l.seq \in Nat /\ (l.seq = hSeq => l.thread = hActive)
  BY DEF HistoryInv, LoadsOK, IsLoad
<1>3. hApplied <= l.seq
  BY <1>1, <1>2
<1>4. l.seq = hSeq => Excused'
  BY <1>1, <1>2 DEF Excused, H!client
<1>5. LoadsOK' /\ ViewCurrent' /\ JumpCurrent'
  BY <1>1, <1>3, <1>4, HandledOnly DEF HistoryInv, H!client, H!table
<1>6. (TablesOK /\ ScreenOK /\ CommandsOK /\ SavesSeen)'
  BY <1>1 DEF HistoryInv, TablesOK, ScreenOK, CommandsOK, SavesSeen, IsSave, H!client, H!table
<1> QED
  BY <1>5, <1>6 DEF HistoryInv

\* What a step marks read, it has noted as seen.
LEMMA MarkedSeen ==
  ASSUME TablesOK, SavesSeen, NEW t \in Threads \cup {None}, NEW v, IsView(v), H!Seen(t, v),
         H!MarkVisible(saves, t, v) \/ UNCHANGED saves
  PROVE  SavesSeen' /\ seen' \in [Threads -> SUBSET Nat] /\ saves \subseteq saves'
<1>1. v.ms \subseteq Nat /\ v.new \subseteq v.ms
  BY DEF IsView, Passages
<1>2. seen \in [Threads -> SUBSET Nat] /\ \A s \in saves : IsSave(s) /\ s.ids \subseteq seen[s.thread]
  BY DEF TablesOK, SavesSeen
<1>3. /\ seen' \in [Threads -> SUBSET Nat] /\ \A x \in Threads : seen[x] \subseteq seen'[x]
      /\ t # None /\ looking' /\ H!AtNewest(v) => t \in Threads /\ v.ms \subseteq seen'[t]
  BY <1>1, <1>2 DEF H!Seen
<1> DEFINE new == [thread |-> t, ids |-> v.new, done |-> FALSE]
<1>4. saves' = saves \/ (saves' = saves \cup {new} /\ t # None /\ looking' /\ H!AtNewest(v))
  BY DEF H!MarkVisible
<1>5. t # None /\ looking' /\ H!AtNewest(v) =>
        IsSave(new) /\ new.thread \in Threads /\ new.ids \subseteq seen'[new.thread]
  BY <1>1, <1>3 DEF IsSave
<1> HIDE DEF new
<1>6. \A s \in saves : s.thread \in Threads /\ s.ids \subseteq seen'[s.thread]
  BY <1>2, <1>3 DEF IsSave
<1>7. \A s \in saves' : IsSave(s) /\ s.ids \subseteq seen'[s.thread]
  BY <1>2, <1>4, <1>5, <1>6
<1> QED
  BY <1>3, <1>4, <1>7 DEF SavesSeen, IsSave

\* The load of the open conversation is shown, or followed by a wider one.
LEMMA ShownKeeps ==
  ASSUME HistoryInv, NEW l \in hLoads, H!Shown(l)
  PROVE  HistoryInv'
<1> USE HistoryAssumption
<1> DEFINE v == H!SetMessages(view, l.ms, l.new \cap l.ms)
           jumping == jump # None /\ jump[1] = hActive
           found == jumping /\ jump[2] \in l.ms
           w == IF found THEN [v EXCEPT !.follow = FALSE, !.sel = jump[2]] ELSE v
<1>1. /\ UNCHANGED <<H!table, hActive, hViews, query, typing, rev, older, searches, news, looking>>
      /\ l.done /\ ~ (l.seq < hApplied) /\ hApplied' = l.seq /\ hLate' = FALSE
      /\ hActive # None /\ l.thread = hActive /\ view' = w /\ H!Seen(hActive, w)
  BY DEF H!Shown, H!Outdated
<1>2. \/ /\ limit' = H!Smaller(MaxJump, 2 * limit) /\ H!Load(hLoads \ {l}, hActive, limit')
         /\ UNCHANGED <<jump, wantsRead, saves>>
      \/ /\ jump' = IF jumping THEN None ELSE jump
         /\ hLoads' = hLoads \ {l} /\ UNCHANGED <<limit, hSeq>>
         /\ H!MarkVisible(saves, hActive, w) \/ UNCHANGED saves
  BY DEF H!Shown, H!Widened
<1>3. /\ TablesOK /\ ScreenOK /\ CommandsOK /\ SavesSeen /\ LoadsOK /\ IsLoad(l)
      /\ hActive \in Threads \cup {None} /\ l.ms \in Passages /\ IsView(view)
  BY DEF HistoryInv, LoadsOK, IsLoad, IsRead, ScreenOK
<1>4. IsView(v) /\ v.ms = l.ms /\ v.new = l.new \cap l.ms
  BY ONLY <1>3 DEF IsView, H!SetMessages
<1> HIDE DEF v, found
<1>5. IsView(w) /\ w.ms = l.ms /\ w.new = l.new \cap l.ms
  BY <1>4 DEF IsView
<1> HIDE DEF w
<1>6. SavesSeen' /\ seen' \in [Threads -> SUBSET Nat] /\ saves \subseteq saves'
  BY <1>1, <1>2, <1>3, <1>5, MarkedSeen
<1>7. TablesOK'
  BY <1>1, <1>3, <1>6 DEF TablesOK, H!table
<1>8. CommandsOK'
  BY <1>1, <1>3 DEF CommandsOK, IsSearch, IsRead
<1>9. ScreenOK'
  <2>1. limit' \in Nat
    BY <1>2, <1>3 DEF ScreenOK, H!Smaller, HistoryAssumption
  <2> QED
    BY <1>1, <1>3, <1>5, <2>1 DEF ScreenOK, IsView
<1>10. /\ hApplied \in Nat /\ hSeq \in Nat /\ l.seq \in Nat /\ l.seq <= hSeq /\ hApplied <= l.seq
       /\ \A k \in hLoads : k.seq \in Nat /\ k.seq <= hSeq
  BY <1>1, <1>3 DEF LoadsOK, IsLoad
<1>11. LoadsOK' /\ ViewCurrent' /\ JumpCurrent'
  <2>1. ASSUME H!Load(hLoads \ {l}, hActive, limit') PROVE LoadsOK' /\ ViewCurrent' /\ JumpCurrent'
    <3>1. hActive \in Threads \cup {None} /\ hLoads \ {l} \in SUBSET hLoads
          /\ hApplied' \in Nat /\ hApplied' <= hSeq /\ hActive = hActive'
      BY <1>1, <1>3, <1>10
    <3> QED
      BY <1>3, <2>1, <3>1, LoadStarts
  <2>2. ASSUME jump' = IF jumping THEN None ELSE jump,
               hLoads' = hLoads \ {l}, UNCHANGED <<limit, hSeq>>
        PROVE  LoadsOK' /\ ViewCurrent' /\ JumpCurrent'
    <3>1. LoadsOK'
      BY <1>1, <1>3, <1>10, <2>2 DEF LoadsOK, IsLoad, IsRead
    <3>2. jump' = None \/ jump'[1] # hActive'
      BY <1>1, <2>2
    <3>3. Underway => Underway'
      BY <1>1, <1>6 DEF Underway
    <3>4. CASE l.seq = hSeq
      <4>1. LastShown'
        BY <1>1, <1>3, <1>10, <2>2, <3>4 DEF LastShown, LoadsOK
      <4>2. JumpCurrent'
        BY <3>2, <4>1 DEF JumpCurrent
      <4>3. ASSUME NEW k \in hLoads, Renews(k) PROVE UpToDate'
        <5>1. k = l
          BY <1>3, <3>4, <4>3 DEF LoadsOK, Renews
        <5>2. l.ms = H!NewestOf(hRows[hActive], limit) /\ l.new = unread[hActive]
          BY <1>1, <4>3, <5>1 DEF Renews
        <5> QED
          BY <1>1, <1>5, <2>2, <5>2 DEF UpToDate, H!table, H!NewestOf
      <4>4. ~ LastShown
        BY <1>10, <3>4 DEF LastShown
      <4> QED
        BY <3>1, <3>3, <4>1, <4>2, <4>3, <4>4 DEF HistoryInv, ViewCurrent
    <3>5. CASE l.seq # hSeq
      <4>1. ~ LastShown
        BY <1>10, <3>5 DEF LastShown
      <4>2. \A k \in hLoads : k.seq = hSeq => k \in hLoads'
        BY <2>2, <3>5
      <4>3. JumpCurrent'
        BY <2>2, <4>1, <4>2 DEF HistoryInv, JumpCurrent
      <4>4. ASSUME NEW k \in hLoads, Renews(k) PROVE k \in hLoads' /\ Renews(k)'
        BY <1>1, <2>2, <4>2, <4>4 DEF Renews, H!NewestOf, H!table
      <4> QED
        BY <3>1, <3>3, <4>1, <4>3, <4>4 DEF HistoryInv, ViewCurrent
    <3> QED
      BY <3>4, <3>5
  <2> QED
    BY <1>2, <2>1, <2>2
<1> QED
  BY <1>6, <1>7, <1>8, <1>9, <1>11 DEF HistoryInv

\* A message that arrived is handled, marked read only if it comes into view.
LEMMA SyncedKeeps ==
  ASSUME HistoryInv, NEW e \in news, H!Synced(e)
  PROVE  HistoryInv'
<1> DEFINE new == [thread |-> e[1], ids |-> {e[2]}, done |-> FALSE]
<1>1. /\ UNCHANGED <<H!client, H!table, older, hApplied, searches, hLate>>
      /\ news' = news \ {e} /\ H!Load(hLoads, hActive, limit)
  BY DEF H!Synced
<1>2. \/ saves' = saves \cup {new} /\ seen' = [seen EXCEPT ![e[1]] = @ \cup {e[2]}]
      \/ saves' = saves /\ seen' = seen
  BY DEF H!Synced
<1>3. /\ TablesOK /\ ScreenOK /\ CommandsOK /\ SavesSeen /\ LoadsOK
      /\ hActive \in Threads \cup {None} /\ hLoads \in SUBSET hLoads
      /\ hApplied' \in Nat /\ hApplied' <= hSeq /\ hActive = hActive' /\ limit = limit'
  BY <1>1 DEF HistoryInv, ScreenOK, LoadsOK, H!client
<1>4. LoadsOK' /\ ViewCurrent' /\ JumpCurrent'
  BY <1>1, <1>3, LoadStarts
<1>5. e[1] \in Threads /\ e[2] \in Nat
  BY <1>3 DEF CommandsOK
<1>6. IsSave(new) /\ new.thread = e[1] /\ new.ids = {e[2]}
  BY <1>5 DEF IsSave
<1> HIDE DEF new
<1>7. seen \in [Threads -> SUBSET Nat] /\ \A s \in saves : IsSave(s) /\ s.ids \subseteq seen[s.thread]
  BY <1>3 DEF TablesOK, SavesSeen
<1>8. seen' \in [Threads -> SUBSET Nat] /\ SavesSeen'
  <2>1. CASE saves' = saves /\ seen' = seen
    BY <1>7, <2>1 DEF SavesSeen, IsSave
  <2>2. CASE saves' = saves \cup {new} /\ seen' = [seen EXCEPT ![e[1]] = @ \cup {e[2]}]
    <3>1. /\ seen' \in [Threads -> SUBSET Nat] /\ \A t \in Threads : seen[t] \subseteq seen'[t]
          /\ e[2] \in seen'[e[1]]
      BY <1>5, <1>7, <2>2
    <3>2. \A s \in saves : s.thread \in Threads /\ s.ids \subseteq seen'[s.thread]
      BY <1>7, <3>1 DEF IsSave
    <3> QED
      BY <1>6, <1>7, <2>2, <3>1, <3>2 DEF SavesSeen, IsSave
  <2> QED
    BY <1>2, <2>1, <2>2
<1>9. (TablesOK /\ ScreenOK /\ CommandsOK)'
  BY <1>1, <1>3, <1>8 DEF TablesOK, ScreenOK, CommandsOK, H!client, H!table
<1> QED
  BY <1>4, <1>8, <1>9 DEF HistoryInv

\* A written mark, and a page, start a load.
LEMMA SavedKeeps ==
  ASSUME HistoryInv, NEW s \in saves, H!Saved(s)
  PROVE  HistoryInv'
<1>1. /\ UNCHANGED <<H!client, H!table, older, hApplied, searches, news, seen, hLate>>
      /\ saves' = saves \ {s} /\ H!Load(hLoads, hActive, limit)
  BY DEF H!Saved
<1>2. /\ LoadsOK /\ hActive \in Threads \cup {None} /\ hLoads \in SUBSET hLoads
      /\ hApplied' \in Nat /\ hApplied' <= hSeq /\ hActive = hActive' /\ limit = limit'
  BY <1>1 DEF HistoryInv, ScreenOK, LoadsOK, H!client
<1>3. LoadsOK' /\ ViewCurrent' /\ JumpCurrent'
  BY <1>1, <1>2, LoadStarts
<1>4. (TablesOK /\ ScreenOK /\ CommandsOK /\ SavesSeen)'
  BY <1>1 DEF HistoryInv, TablesOK, ScreenOK, CommandsOK, SavesSeen, IsSave, H!client, H!table
<1> QED
  BY <1>3, <1>4 DEF HistoryInv

LEMMA OlderCameKeeps ==
  ASSUME HistoryInv, H!OlderCame
  PROVE  HistoryInv'
<1>1. /\ UNCHANGED <<H!client, H!table, hApplied, searches, saves, news, seen, hLate>>
      /\ older' = None /\ H!Load(hLoads, hActive, limit)
  BY DEF H!OlderCame
<1>2. /\ LoadsOK /\ hActive \in Threads \cup {None} /\ hLoads \in SUBSET hLoads
      /\ hApplied' \in Nat /\ hApplied' <= hSeq /\ hActive = hActive' /\ limit = limit'
  BY <1>1 DEF HistoryInv, ScreenOK, LoadsOK, H!client
<1>3. LoadsOK' /\ ViewCurrent' /\ JumpCurrent'
  BY <1>1, <1>2, LoadStarts
<1>4. (TablesOK /\ ScreenOK /\ CommandsOK /\ SavesSeen)'
  BY <1>1 DEF HistoryInv, TablesOK, ScreenOK, CommandsOK, SavesSeen, IsSave, H!client, H!table
<1> QED
  BY <1>3, <1>4 DEF HistoryInv

\* The answer of a search is shown if it is of the query that stands.
LEMMA FoundKeeps ==
  ASSUME HistoryInv, NEW s \in searches, H!Found(s)
  PROVE  HistoryInv'
<1>1. /\ UNCHANGED <<hActive, hViews, limit, query, typing, rev, jump, wantsRead, looking, H!table,
                     older, hSeq, hApplied, hLoads, saves, news>>
      /\ searches' = searches \ {s}
  BY DEF H!Found
<1>2. /\ TablesOK /\ ScreenOK /\ CommandsOK /\ SavesSeen /\ IsSearch(s)
      /\ hActive \in Threads \cup {None} /\ s.ms \in Passages
  BY DEF HistoryInv, CommandsOK, ScreenOK, IsSearch, IsRead
<1>3. CASE s.rev = rev /\ s.thread = hActive
  <2>1. /\ view' = [ms |-> s.ms, new |-> s.new \cap s.ms, follow |-> FALSE,
                    sel |-> IF s.ms = {} THEN 0 ELSE H!Earliest(s.ms)]
        /\ hLate' = (hLate \/ ~ query) /\ H!Seen(hActive, view')
    BY <1>3 DEF H!Found
  <2>2. IsView(view')
    BY <1>2, <2>1 DEF IsView
  <2>3. SavesSeen' /\ seen' \in [Threads -> SUBSET Nat]
    BY <1>1, <1>2, <2>1, <2>2, MarkedSeen
  <2>4. Excused'
    BY <1>1, <2>1 DEF Excused
  <2>5. LoadsOK' /\ ViewCurrent' /\ JumpCurrent'
    BY <1>1, <2>4, LoadsKept, ViewKept, JumpKept DEF HistoryInv, Underway, H!table
  <2>6. TablesOK' /\ CommandsOK'
    BY <1>1, <1>2, <2>3 DEF TablesOK, CommandsOK, IsSearch, IsRead, H!table
  <2>7. ScreenOK'
    BY <1>1, <1>2, <2>1, <2>2 DEF ScreenOK, IsView
  <2> QED
    BY <2>3, <2>5, <2>6, <2>7 DEF HistoryInv
<1>4. CASE ~ (s.rev = rev /\ s.thread = hActive)
  <2>1. UNCHANGED <<view, hLate, seen>>
    BY <1>4 DEF H!Found
  <2>2. Asked => Asked'
    BY <1>1, <1>4 DEF Asked
  <2>3. Excused => Excused'
    BY <1>1, <2>1, <2>2 DEF Excused
  <2>4. UpToDate => UpToDate'
    BY <1>1, <2>1 DEF UpToDate, H!table, H!NewestOf
  <2>5. LoadsOK' /\ ViewCurrent' /\ JumpCurrent'
    BY <1>1, <2>3, <2>4, LoadsKept, ViewKept, JumpKept DEF HistoryInv, Underway, H!table
  <2>6. (TablesOK /\ ScreenOK /\ CommandsOK /\ SavesSeen)'
    BY <1>1, <1>2, <2>1 DEF TablesOK, ScreenOK, CommandsOK, SavesSeen, IsSave, IsSearch, IsRead, H!table
  <2> QED
    BY <2>5, <2>6 DEF HistoryInv
<1> QED
  BY <1>3, <1>4

LEMMA FetchIs ==
  \A t \in Threads, n \in Nat :
    H!Fetch(t, n) \in [thread : Threads, offset : Nat, done : BOOLEAN] /\ H!Fetch(t, n) # None
<1>1. PageSize \in Nat
  BY HistoryAssumption DEF HistoryAssumption
<1>2. \A t \in Threads, n \in Nat :
        H!Fetch(t, n) \in [thread : Threads, offset : Nat, done : BOOLEAN]
  BY <1>1 DEF H!Fetch
<1> QED
  BY <1>2, HistoryAssumption DEF HistoryAssumption

\* A conversation is opened: its window holds what the kept view shows.
LEMMA OpenedKeeps ==
  ASSUME HistoryInv, NEW t \in Threads, H!Opened(t)
  PROVE  HistoryInv'
<1> USE HistoryAssumption
<1>1. /\ UNCHANGED <<H!table, typing, hApplied, searches, saves, news, hLate>>
      /\ hViews' = (IF hActive = None THEN hViews ELSE [hViews EXCEPT ![hActive] = view])
      /\ hActive' = t /\ looking' = TRUE /\ view' = hViews'[t] /\ query' = FALSE
      /\ limit' = H!Larger(Initial, H!Cardinality(view'.ms)) /\ H!Load(hLoads, t, limit')
      /\ older' = (IF older = None THEN H!Fetch(t, limit') ELSE older) /\ H!Seen(t, view')
  BY DEF H!Opened
<1>2. /\ TablesOK /\ ScreenOK /\ CommandsOK /\ SavesSeen /\ LoadsOK
      /\ t \in Threads \cup {None} /\ hLoads \in SUBSET hLoads
      /\ hApplied' \in Nat /\ hApplied' <= hSeq /\ t = hActive' /\ t # None
  BY <1>1 DEF HistoryInv, LoadsOK, HistoryAssumption
<1>3. LoadsOK' /\ ViewCurrent' /\ JumpCurrent'
  BY <1>1, <1>2, LoadStarts
<1>4. DOMAIN hViews' = Threads /\ \A x \in Threads : IsView(hViews'[x])
  BY <1>1, <1>2 DEF ScreenOK, IsView
<1>5. IsView(view')
  BY <1>1, <1>4
<1>6. limit' \in Nat
  <2>1. Cardinality(view'.ms) \in Nat
    BY <1>5, FS_CardinalityType DEF IsView, Passages
  <2>2. H!Cardinality(view'.ms) = Cardinality(view'.ms)
    BY DEF H!Cardinality, Cardinality, H!IsFiniteSet, IsFiniteSet
  <2> QED
    BY <1>1, <2>1, <2>2 DEF H!Larger, HistoryAssumption
<1>7. older' \in [thread : Threads, offset : Nat, done : BOOLEAN]
  BY <1>1, <1>2, <1>6 DEF CommandsOK, H!Fetch, HistoryAssumption
<1>8. SavesSeen' /\ seen' \in [Threads -> SUBSET Nat]
  BY <1>1, <1>2, <1>5, MarkedSeen
<1>9. TablesOK' /\ CommandsOK'
  BY <1>1, <1>2, <1>7, <1>8 DEF TablesOK, CommandsOK, IsSearch, IsRead, H!table
<1>10. ScreenOK'
  BY <1>1, <1>2, <1>4, <1>5, <1>6 DEF ScreenOK, IsView
<1> QED
  BY <1>3, <1>8, <1>9, <1>10 DEF HistoryInv

\* A step that changes neither a load nor what the table and the view hold.
LEMMA LookKeeps ==
  ASSUME HistoryInv,
         UNCHANGED <<hActive, view, hViews, limit, query, typing, rev, jump, H!table, older,
                     hSeq, hApplied, hLoads, searches, saves, news, hLate>>,
         looking' \in BOOLEAN, UNCHANGED seen \/ H!Seen(hActive, view)
  PROVE  HistoryInv'
<1>1. TablesOK /\ ScreenOK /\ CommandsOK /\ SavesSeen
  BY DEF HistoryInv
<1>2. SavesSeen' /\ seen' \in [Threads -> SUBSET Nat]
  <2>1. CASE UNCHANGED seen
    BY <1>1, <2>1 DEF SavesSeen, IsSave, TablesOK
  <2>2. CASE H!Seen(hActive, view)
    BY <1>1, <2>2, MarkedSeen DEF ScreenOK
  <2> QED
    BY <2>1, <2>2
<1>3. Excused => Excused'
  BY DEF Excused, Asked
<1>4. UpToDate => UpToDate'
  BY DEF UpToDate, H!table, H!NewestOf
<1>5. LoadsOK' /\ ViewCurrent' /\ JumpCurrent'
  BY <1>3, <1>4, LoadsKept, ViewKept, JumpKept DEF HistoryInv, Underway, H!table
<1>6. (TablesOK /\ ScreenOK /\ CommandsOK)'
  BY <1>1, <1>2 DEF TablesOK, ScreenOK, CommandsOK, H!table
<1> QED
  BY <1>2, <1>5, <1>6 DEF HistoryInv

\* A key moves the selection, and asks for older messages near the top.
LEMMA MoveKeeps ==
  ASSUME HistoryInv, NEW v, IsView(v), v.ms = view.ms, v.new = view.new, H!Move(v)
  PROVE  HistoryInv'
<1> USE HistoryAssumption
<1>1. /\ UNCHANGED <<hActive, hViews, query, typing, rev, jump, wantsRead, H!table, hApplied,
                     searches, news, hLate, looking>>
      /\ hActive # None /\ view' = v /\ H!Seen(hActive, v)
  BY DEF H!Move
<1>2. \/ /\ H!Load(hLoads, hActive, limit) /\ UNCHANGED saves
         /\ \/ older = None /\ limit' = limit + PageSize /\ older' = H!Fetch(hActive, limit')
            \/ older # None /\ UNCHANGED <<limit, older>>
      \/ H!MarkVisible(saves, hActive, v) /\ UNCHANGED <<hSeq, hLoads, limit, older>>
  BY DEF H!Move
<1>3. /\ TablesOK /\ ScreenOK /\ CommandsOK /\ SavesSeen /\ LoadsOK
      /\ hActive \in Threads \cup {None} /\ hLoads \in SUBSET hLoads
      /\ hApplied' \in Nat /\ hApplied' <= hSeq /\ hActive = hActive' /\ limit \in Nat
  BY <1>1 DEF HistoryInv, LoadsOK, ScreenOK
<1>4. SavesSeen' /\ seen' \in [Threads -> SUBSET Nat] /\ saves \subseteq saves'
  BY <1>1, <1>2, <1>3, MarkedSeen
<1>5. limit' \in Nat /\ (older' = older \/ older' \in [thread : Threads, offset : Nat, done : BOOLEAN])
  <2>1. limit + PageSize \in Nat
    BY <1>3 DEF HistoryAssumption
  <2>2. limit' \in Nat
    BY <1>2, <1>3, <2>1
  <2> QED
    BY <1>1, <1>2, <1>3, <2>2, FetchIs
<1>6. LoadsOK' /\ ViewCurrent' /\ JumpCurrent'
  <2>1. CASE H!Load(hLoads, hActive, limit)
    <3>1. LoadsOK' /\ JumpCurrent' /\ (limit = limit' => ViewCurrent')
      BY <1>3, <2>1, LoadStarts
    <3>2. older # None => older' # None \/ limit' = limit
      BY <1>2
    <3>3. older = None => older' # None \/ limit' = limit
      <4>1. H!Fetch(hActive, limit') # None
        BY <1>1, <1>3, <1>5, FetchIs
      <4> QED
        BY <1>2, <4>1
    <3>4. older' # None => ViewCurrent'
      BY DEF ViewCurrent, Underway
    <3> QED
      BY <3>1, <3>2, <3>3, <3>4
  <2>2. CASE UNCHANGED <<hSeq, hLoads, limit, older>>
    <3>1. Excused => Excused'
      BY <1>1 DEF Excused, Asked
    <3>2. UpToDate => UpToDate'
      BY <1>1, <2>2 DEF UpToDate, H!table, H!NewestOf
    <3> QED
      BY <1>1, <1>4, <2>2, <3>1, <3>2, LoadsKept, ViewKept, JumpKept DEF HistoryInv, Underway, H!table
  <2> QED
    BY <1>2, <2>1, <2>2
<1>7. (TablesOK /\ ScreenOK /\ CommandsOK)'
  BY <1>1, <1>3, <1>4, <1>5 DEF TablesOK, ScreenOK, CommandsOK, IsSearch, IsRead, IsView, H!table
<1> QED
  BY <1>4, <1>6, <1>7 DEF HistoryInv

\* The query is cleared, typed and asked.
LEMMA SlashKeeps ==
  ASSUME HistoryInv, H!Slash
  PROVE  HistoryInv'
<1>1. /\ UNCHANGED <<hActive, looking, view, hViews, limit, rev, jump, H!table, older, hSeq,
                     hApplied, hLoads, searches, saves, news, seen, hLate>>
      /\ hActive # None /\ typing' = TRUE /\ query' = FALSE
  BY DEF H!Slash
<1>2. Excused'
  BY <1>1 DEF Excused
<1>3. LoadsOK' /\ ViewCurrent' /\ JumpCurrent'
  BY <1>1, <1>2, LoadsKept, ViewKept, JumpKept DEF HistoryInv, Underway, H!table
<1>4. (TablesOK /\ ScreenOK /\ CommandsOK /\ SavesSeen)'
  BY <1>1 DEF HistoryInv, TablesOK, ScreenOK, CommandsOK, SavesSeen, IsSave, H!table
<1> QED
  BY <1>3, <1>4 DEF HistoryInv

LEMMA AskKeeps ==
  ASSUME HistoryInv, typing, typing' \in BOOLEAN, NEW q \in BOOLEAN, H!Ask(q)
  PROVE  HistoryInv'
<1> DEFINE new == [rev |-> rev + 1, thread |-> hActive, query |-> q, done |-> FALSE,
                   ms |-> {}, new |-> {}]
<1>1. /\ UNCHANGED <<hActive, looking, view, hViews, limit, jump, H!table, older, hSeq,
                     hApplied, hLoads, saves, news, seen, hLate>>
      /\ rev' = rev + 1 /\ query' = q /\ searches' = searches \cup {new}
  BY DEF H!Ask
<1>2. IsSearch(new) /\ new.rev = rev' /\ new.thread = hActive
  <2>1. hActive \in Threads
    BY DEF HistoryInv, ScreenOK
  <2>2. {} \in Passages
    BY FS_EmptySet DEF Passages
  <2> QED
    BY <1>1, <2>1, <2>2 DEF IsSearch, IsRead
<1> HIDE DEF new
<1>3. Excused'
  BY <1>1, <1>2 DEF Excused, Asked
<1>4. LoadsOK' /\ ViewCurrent' /\ JumpCurrent'
  BY <1>1, <1>3, LoadsKept, ViewKept, JumpKept DEF HistoryInv, Underway, H!table
<1>5. \A s \in searches' : IsSearch(s)
  BY <1>1, <1>2 DEF HistoryInv, CommandsOK
<1>6. (TablesOK /\ ScreenOK /\ CommandsOK /\ SavesSeen)'
  BY <1>1, <1>5 DEF HistoryInv, TablesOK, ScreenOK, CommandsOK, SavesSeen, IsSave, H!table
<1> QED
  BY <1>4, <1>6 DEF HistoryInv

\* A search ends, and the conversation is loaded again.
LEMMA EndSearchKeeps ==
  ASSUME HistoryInv, H!EndSearch
  PROVE  HistoryInv'
<1>1. /\ UNCHANGED <<hActive, looking, view, hViews, limit, jump, H!table, older, hApplied,
                     searches, saves, news, seen, hLate>>
      /\ typing' = FALSE /\ query' = FALSE /\ H!Load(hLoads, hActive, limit)
  BY DEF H!EndSearch, H!SearchOver
<1>2. /\ LoadsOK /\ hActive \in Threads \cup {None} /\ hLoads \in SUBSET hLoads
      /\ hApplied' \in Nat /\ hApplied' <= hSeq /\ hActive = hActive' /\ limit = limit'
  BY <1>1 DEF HistoryInv, ScreenOK, LoadsOK
<1>3. LoadsOK' /\ ViewCurrent' /\ JumpCurrent'
  BY <1>1, <1>2, LoadStarts
<1>4. (TablesOK /\ ScreenOK /\ CommandsOK /\ SavesSeen)'
  BY <1>1 DEF HistoryInv, TablesOK, ScreenOK, CommandsOK, SavesSeen, IsSave, H!table
<1> QED
  BY <1>3, <1>4 DEF HistoryInv

LEMMA JumpNewestKeeps ==
  ASSUME HistoryInv, H!JumpNewest
  PROVE  HistoryInv'
<1>1. /\ UNCHANGED <<hActive, hViews, limit, typing, rev, jump, H!table, older, hApplied,
                     searches, news, hLate>>
      /\ ~ typing /\ query' = FALSE /\ looking' = TRUE /\ H!Load(hLoads, hActive, limit)
      /\ view' = [view EXCEPT !.follow = TRUE,
                              !.sel = IF view.ms = {} THEN 0 ELSE H!Latest(view.ms)]
      /\ H!MarkVisible(saves, hActive, view') /\ H!Seen(hActive, view')
  BY DEF H!JumpNewest, H!SearchOver
<1>2. /\ TablesOK /\ ScreenOK /\ CommandsOK /\ SavesSeen /\ IsView(view)
      /\ LoadsOK /\ hActive \in Threads \cup {None} /\ hLoads \in SUBSET hLoads
      /\ hApplied' \in Nat /\ hApplied' <= hSeq /\ hActive = hActive' /\ limit = limit'
  BY <1>1 DEF HistoryInv, ScreenOK, LoadsOK
<1>3. LoadsOK' /\ ViewCurrent' /\ JumpCurrent'
  BY <1>1, <1>2, LoadStarts
<1>4. IsView(view')
  BY <1>1, <1>2 DEF IsView
<1>5. SavesSeen' /\ seen' \in [Threads -> SUBSET Nat]
  BY <1>1, <1>2, <1>4, MarkedSeen
<1>6. (TablesOK /\ ScreenOK /\ CommandsOK)'
  BY <1>1, <1>2, <1>4, <1>5 DEF TablesOK, ScreenOK, CommandsOK, IsSearch, IsRead, IsView, H!table
<1> QED
  BY <1>3, <1>5, <1>6 DEF HistoryInv

\* The user acts.
LEMMA KeysKeep ==
  ASSUME HistoryInv, H!Keys
  PROVE  HistoryInv'
<1>1. ASSUME NEW t \in Threads, H!Open(t) \/ \E i \in H!Ids : H!JumpTo(t, i) PROVE HistoryInv'
  BY <1>1, OpenedKeeps DEF H!Open, H!JumpTo
<1>2. CASE H!LookAway
  BY <1>2, LookKeeps DEF H!LookAway
<1>3. CASE H!LookBack
  BY <1>3, LookKeeps DEF H!LookBack
<1>4. ASSUME NEW v, IsView(v), v.ms = view.ms, v.new = view.new, H!Move(v) PROVE HistoryInv'
  BY <1>4, MoveKeeps
<1>5. IsView(view)
  BY DEF HistoryInv, ScreenOK
<1>6. CASE H!Step
  <2>1. PICK i \in view.ms : H!Move([view EXCEPT !.sel = i, !.follow = FALSE])
    BY <1>6 DEF H!Step
  <2> DEFINE v == [view EXCEPT !.sel = i, !.follow = FALSE]
  <2>2. IsView(v) /\ v.ms = view.ms /\ v.new = view.new
    BY <1>5 DEF IsView
  <2> QED
    BY <1>4, <2>1, <2>2
<1>7. CASE H!Newest
  <2> DEFINE v == [view EXCEPT !.sel = H!Latest(view.ms), !.follow = TRUE]
  <2>1. H!Move(v)
    BY <1>7 DEF H!Newest
  <2>2. IsView(v) /\ v.ms = view.ms /\ v.new = view.new
    BY <1>5 DEF IsView
  <2> QED
    BY <1>4, <2>1, <2>2
<1>8. CASE H!TypeQuery
  BY <1>8, AskKeeps DEF H!TypeQuery
<1>9. CASE H!Enter
  <2>1. query \in BOOLEAN
    BY DEF HistoryInv, ScreenOK
  <2> QED
    BY <1>9, <2>1, AskKeeps DEF H!Enter
<1> QED
  BY <1>1, <1>2, <1>3, <1>6, <1>7, <1>8, <1>9, SlashKeeps, EndSearchKeeps, JumpNewestKeeps
  DEF H!Keys

LEMMA HistoryKept == HistoryInv /\ [Next]_vars => HistoryInv'
<1> SUFFICES ASSUME HistoryInv, [Next]_vars PROVE HistoryInv'
  OBVIOUS
<1>1. CASE H!Commands
  BY <1>1, RunLoadKeeps, RunSearchKeeps, RunSaveKeeps, RunOlderKeeps, AnnounceKeeps DEF H!Commands
<1>2. CASE H!Results
  BY <1>2, DroppedKeeps, LoadFailedKeeps, ListedKeeps, ShownKeeps, SyncedKeeps, SavedKeeps,
     FoundKeeps, OlderCameKeeps DEF H!Results
<1>3. CASE H!Keys
  BY <1>3, KeysKeep
<1>4. CASE UNCHANGED historyVars
  <2>1. UNCHANGED <<hActive, looking, view, hViews, limit, query, typing, rev, jump, top, hRows,
                    unread, older, hSeq, hApplied, hLoads, searches, saves, news, seen, hLate>>
    BY <1>4 DEF historyVars
  <2>2. (TablesOK /\ ScreenOK /\ CommandsOK /\ SavesSeen)'
    BY <2>1 DEF HistoryInv, TablesOK, ScreenOK, CommandsOK, SavesSeen, IsSave
  <2>3. Excused => Excused'
    BY <2>1 DEF Excused, Asked
  <2>4. UpToDate => UpToDate'
    BY <2>1 DEF UpToDate, H!NewestOf
  <2>5. LoadsOK' /\ ViewCurrent' /\ JumpCurrent'
    BY <2>1, <2>3, <2>4, LoadsKept, ViewKept, JumpKept DEF HistoryInv, Underway
  <2> QED
    BY <2>2, <2>5 DEF HistoryInv
<1>5. H!Next \/ UNCHANGED historyVars
  BY DEF Next, vars, HistoryNext, AssistantNext, AttachNext, MediaNext, ContactsNext, ReplyNext, EchoNext
<1> QED
  BY <1>1, <1>2, <1>3, <1>4, <1>5 DEF H!Next

\* What a step takes out of the new messages was before the user.
LEMMA UnreadSeen ==
  ASSUME HistoryInv, [Next]_vars
  PROVE  \A t \in Threads : \A i \in unread[t] : i \notin unread'[t] => i \in seen[t]
<1>1. TablesOK /\ SavesSeen
  BY DEF HistoryInv
<1>2. ASSUME NEW s \in saves, H!RunSave(s)
      PROVE  \A t \in Threads : \A i \in unread[t] : i \notin unread'[t] => i \in seen[t]
  <2>1. unread' = [unread EXCEPT ![s.thread] = @ \ s.ids]
    BY <1>2 DEF H!RunSave, H!MarkRead
  <2> QED
    BY <1>1, <2>1 DEF TablesOK, SavesSeen, IsSave
<1>3. ASSUME NEW x \in Threads, H!Announce(x)
      PROVE  \A t \in Threads : unread[t] \subseteq unread'[t]
  <2>1. unread' = [unread EXCEPT ![x] = @ \cup {top[x] + 1}]
    BY <1>3 DEF H!Announce
  <2> QED
    BY <1>1, <2>1 DEF TablesOK
<1>4. CASE H!Commands
  <2>1. \/ \E s \in saves : H!RunSave(s)
        \/ \E t \in Threads : H!Announce(t)
        \/ UNCHANGED unread
    BY <1>4 DEF H!Commands, H!RunLoad, H!RunSearch, H!RunOlder, H!table
  <2> QED
    BY <1>2, <1>3, <2>1
<1>5. CASE H!Results
  <2>1. UNCHANGED unread
    BY <1>5 DEF H!Results, H!Dropped, H!LoadFailed, H!Listed, H!Shown, H!Synced, H!Saved, H!Found,
       H!OlderCame, H!table
  <2> QED
    BY <2>1
<1>6. CASE H!Keys
  <2>1. UNCHANGED unread
    BY <1>6 DEF H!Keys, H!Open, H!JumpTo, H!Opened, H!LookAway, H!LookBack, H!Step, H!Newest, H!Move,
       H!Slash, H!TypeQuery, H!Enter, H!Ask, H!EndSearch, H!JumpNewest, H!table
  <2> QED
    BY <2>1
<1>7. CASE UNCHANGED historyVars
  BY <1>7 DEF historyVars
<1>8. H!Next \/ UNCHANGED historyVars
  BY DEF Next, vars, HistoryNext, AssistantNext, AttachNext, MediaNext, ContactsNext, ReplyNext, EchoNext
<1> QED
  BY <1>4, <1>5, <1>6, <1>7, <1>8 DEF H!Next

\* Once nothing is on its way the open conversation shows the newest messages of the
\* table, marked as there, in whatever order loads, marks, pages and arrivals came
\* (history.go).
THEOREM ViewSettles == Spec => []Settled
<1>1. Init => HistoryInv
  BY HistoryStarts DEF Init
<1>2. HistoryInv => Settled
  <2> SUFFICES ASSUME HistoryInv, H!Quiet, hActive # None, ~ query, ~ typing, ~ hLate
               PROVE  UpToDate
    BY DEF Settled, H!Settled, UpToDate
  <2>1. ~ Underway /\ ~ Asked /\ hLoads = {}
    BY DEF H!Quiet, Underway, Asked
  <2> QED
    BY <2>1 DEF HistoryInv, ViewCurrent, Excused
<1>3. HistoryInv /\ [Next]_vars => HistoryInv'
  BY HistoryKept
<1> QED
  BY <1>1, <1>2, <1>3, PTL DEF Spec

\* A jump to a message ends: the window is widened until it holds the message or all
\* there is, whatever else is loaded meanwhile (search.go, history.go).
THEOREM JumpsEnd == Spec => []JumpResolved
<1>1. Init => HistoryInv
  BY HistoryStarts DEF Init
<1>2. HistoryInv => JumpResolved
  <2> SUFFICES ASSUME HistoryInv, H!Quiet, hActive # None, ~ query, ~ typing, ~ hLate
               PROVE  jump = None \/ jump[1] # hActive
    BY DEF JumpResolved, H!JumpResolved
  <2>1. ~ Asked /\ hLoads = {}
    BY DEF H!Quiet, Asked
  <2> QED
    BY <2>1 DEF HistoryInv, JumpCurrent, Excused
<1>3. HistoryInv /\ [Next]_vars => HistoryInv'
  BY HistoryKept
<1> QED
  BY <1>1, <1>2, <1>3, PTL DEF Spec

\* A message is marked read only if it was before the user, however long the write of
\* MarkRead takes and whatever arrives meanwhile (history.go, conversations.go).
THEOREM UnreadUntilSeen == Spec => NewStaysUnread
<1>1. Init => HistoryInv
  BY HistoryStarts DEF Init
<1>2. HistoryInv /\ [Next]_vars => HistoryInv'
  BY HistoryKept
<1>3. HistoryInv /\ [Next]_vars =>
        [\A t \in Threads : \A i \in unread[t] : i \notin unread'[t] => i \in seen[t]]_(H!vars)
  BY UnreadSeen
<1> QED
  BY <1>1, <1>2, <1>3, PTL DEF Spec, NewStaysUnread, H!NewStaysUnread
-----------------------------------------------------------------------------
(* The conversation: what is shown is in the table, and one of it selected. *)

\* A set of numbers has a least one, and a greatest one if it is bounded.
LEMMA LeastNumber ==
  ASSUME NEW S \in SUBSET Nat, S # {}
  PROVE  \E i \in S : \A j \in S : i <= j
<1> DEFINE less == OpToRel(<, Nat)
<1>1. \A i, j \in Nat : <<i, j>> \in less <=> i < j
  BY DEF OpToRel
<1>2. IsWellFoundedOn(less, Nat)
  BY NatLessThanWellFounded
<1> HIDE DEF less
<1>3. PICK i \in S : \A j \in S : ~(<<j, i>> \in less)
  BY <1>2, WFMin
<1>4. \A j \in S : ~ (j < i)
  BY <1>1, <1>3
<1>5. \A j \in S : i <= j
  BY <1>4
<1> QED
  BY <1>5

LEMMA GreatestNumber ==
  ASSUME NEW n \in Nat, NEW S \in SUBSET (0 .. n), S # {}
  PROVE  \E i \in S : \A j \in S : j <= i
<1> DEFINE bounds == {k \in Nat : \A j \in S : j <= k}
<1>1. n \in bounds /\ bounds \in SUBSET Nat
  OBVIOUS
<1>2. PICK b \in bounds : \A k \in bounds : b <= k
  BY <1>1, LeastNumber
<1>3. b \in S
  <2> SUFFICES ASSUME b \notin S PROVE FALSE
    OBVIOUS
  <2>1. \A j \in S : j \in Nat /\ j <= b /\ j # b
    OBVIOUS
  <2>2. \A j \in S : j <= b - 1
    BY <2>1
  <2>3. b > 0
    <3>1. PICK j \in S : TRUE
      OBVIOUS
    <3> QED
      BY <2>1, <3>1
  <2>4. b - 1 \in bounds
    BY <2>2, <2>3
  <2> QED
    BY <1>2, <2>4
<1> QED
  BY <1>3

Selected(v) == v \in H!View /\ (v.ms = {} <=> v.sel = 0)
Bounded ==
  /\ top \in [Threads -> 0 .. MaxTop]
  /\ \A t \in Threads : unread[t] \subseteq hRows[t] /\ hRows[t] \subseteq H!Ids
  /\ hSeq \in 0 .. MaxLoads["either"]
  /\ Selected(view) /\ hViews \in [Threads -> H!View] /\ \A t \in Threads : Selected(hViews[t])
  /\ \A l \in hLoads : l.ms \subseteq H!Ids
  /\ \A s \in searches : s.ms \subseteq H!Ids

LEMMA EndsIn ==
  ASSUME NEW S \in SUBSET H!Ids, S # {}
  PROVE  H!Latest(S) \in S /\ H!Earliest(S) \in S
<1>1. MaxTop \in Nat
  BY HistoryAssumption DEF HistoryAssumption
<1>2. S \in SUBSET (0 .. MaxTop) /\ S \in SUBSET Nat
  BY <1>1 DEF H!Ids
<1>3. \E i \in S : \A j \in S : j <= i
  BY <1>1, <1>2, GreatestNumber
<1>4. \E i \in S : \A j \in S : i <= j
  BY <1>2, LeastNumber
<1> QED
  BY <1>3, <1>4 DEF H!Latest, H!Earliest

\* A view that selects one of its messages, or has none.
LEMMA SelectedOne ==
  ASSUME NEW v \in H!View, v.ms = {} => v.sel = 0, v.ms # {} => v.sel \in v.ms
  PROVE  Selected(v)
<1>1. MaxTop \in Nat
  BY HistoryAssumption DEF HistoryAssumption
<1> QED
  BY <1>1 DEF Selected, H!View, H!Ids

LEMMA MessagesSet ==
  ASSUME NEW v, Selected(v), NEW ms \in SUBSET H!Ids, NEW new \in SUBSET ms
  PROVE  Selected(H!SetMessages(v, ms, new)) /\ H!SetMessages(v, ms, new).ms = ms
<1> DEFINE s == IF ms = {} THEN 0 ELSE IF ~v.follow /\ v.sel \in ms THEN v.sel ELSE H!Latest(ms)
           w == [v EXCEPT !.ms = ms, !.new = new, !.sel = s]
<1>1. MaxTop \in Nat
  BY HistoryAssumption DEF HistoryAssumption
<1>2. (ms = {} => s = 0) /\ (ms # {} => s \in ms)
  BY EndsIn
<1> HIDE DEF s
<1>3. s \in 0 .. MaxTop
  <2>1. CASE ms = {}
    BY <1>1, <1>2, <2>1
  <2>2. CASE ms # {}
    <3>1. s \in 1 .. MaxTop
      BY <1>2, <2>2 DEF H!Ids
    <3> QED
      BY <1>1, <3>1
  <2> QED
    BY <2>1, <2>2
<1>4. w \in H!View /\ w.ms = ms /\ w.sel = s
  BY <1>3 DEF Selected, H!View
<1>5. H!SetMessages(v, ms, new) = w
  BY DEF H!SetMessages, s
<1> HIDE DEF w
<1> QED
  BY <1>2, <1>4, <1>5, SelectedOne

\* A load that begins keeps to the bounds.
LEMMA LoadBounded ==
  ASSUME Bounded, NEW old \in SUBSET hLoads, NEW t, NEW n, H!Load(old, t, n)
  PROVE  hSeq' \in 0 .. MaxLoads["either"] /\ \A l \in hLoads' : l.ms \subseteq H!Ids
<1>1. MaxLoads["either"] \in Nat
  BY HistoryAssumption DEF HistoryAssumption
<1> QED
  BY <1>1 DEF Bounded, H!Load

LEMMA CommandsBounded ==
  ASSUME HistoryInv, Bounded, H!Commands
  PROVE  Bounded'
<1>1. MaxTop \in Nat
  BY HistoryAssumption DEF HistoryAssumption
<1>2. ASSUME NEW l \in hLoads, H!RunLoad(l) PROVE Bounded'
  <2>1. /\ UNCHANGED <<top, hRows, unread, hSeq, view, hViews, searches>>
        /\ hLoads' = (hLoads \ {l}) \cup
             {[l EXCEPT !.done = TRUE,
                  !.ms = IF l.thread = None THEN {} ELSE H!NewestOf(hRows[l.thread], l.limit),
                  !.new = IF l.thread = None THEN {} ELSE unread[l.thread]]}
    BY <1>2 DEF H!RunLoad, H!client, H!table
  <2>2. IsLoad(l)
    BY DEF HistoryInv, LoadsOK
  <2>3. l.thread # None => H!NewestOf(hRows[l.thread], l.limit) \subseteq H!Ids
    BY <2>2, NewestSubset DEF Bounded, IsLoad
  <2>4. \A k \in hLoads' : k.ms \subseteq H!Ids
    BY <2>1, <2>2, <2>3 DEF Bounded, IsLoad
  <2> QED
    BY <2>1, <2>4 DEF Bounded
<1>3. ASSUME NEW s \in searches, H!RunSearch(s) PROVE Bounded'
  <2>1. /\ UNCHANGED <<top, hRows, unread, hSeq, view, hViews, hLoads>>
        /\ searches' = (searches \ {s}) \cup
             {[s EXCEPT !.done = TRUE,
                  !.ms = IF s.query THEN hRows[s.thread] \cap Hits ELSE hRows[s.thread],
                  !.new = unread[s.thread]]}
    BY <1>3 DEF H!RunSearch, H!client, H!table
  <2>2. IsSearch(s)
    BY DEF HistoryInv, CommandsOK
  <2>3. hRows[s.thread] \subseteq H!Ids
    BY <2>2 DEF Bounded, IsSearch
  <2>4. ASSUME NEW k \in searches', k \notin searches PROVE k.ms \subseteq H!Ids
    <3>1. k.ms = IF s.query THEN hRows[s.thread] \cap Hits ELSE hRows[s.thread]
      BY <2>1, <2>2, <2>4 DEF IsSearch
    <3> QED
      BY <2>3, <3>1
  <2> QED
    BY <2>1, <2>4 DEF Bounded
<1>4. ASSUME NEW s \in saves, H!RunSave(s) PROVE Bounded'
  <2>1. /\ UNCHANGED <<top, hRows, hSeq, view, hViews, hLoads, searches>>
        /\ unread' = [unread EXCEPT ![s.thread] = @ \ s.ids]
    BY <1>4 DEF H!RunSave, H!MarkRead, H!client
  <2>2. \A t \in Threads : unread'[t] \subseteq hRows[t]
    BY <2>1 DEF Bounded, HistoryInv, TablesOK
  <2> QED
    BY <2>1, <2>2 DEF Bounded
<1>5. ASSUME H!RunOlder PROVE Bounded'
  <2>1. UNCHANGED <<top, unread, hSeq, view, hViews, hLoads, searches>>
    BY <1>5 DEF H!RunOlder, H!client
  <2>2. hRows' = hRows
        \/ \E page \in SUBSET (1 .. top[older.thread]) :
             hRows' = [hRows EXCEPT ![older.thread] = @ \cup page]
    BY <1>5 DEF H!RunOlder
  <2>3. older.thread \in Threads
    BY <1>5 DEF H!RunOlder, HistoryInv, CommandsOK
  <2>4. \A i \in 1 .. top[older.thread] : i \in H!Ids
    BY <1>1, <2>3 DEF Bounded, H!Ids
  <2>5. \A t \in Threads : unread[t] \subseteq hRows'[t] /\ hRows'[t] \subseteq H!Ids
    BY <2>2, <2>3, <2>4 DEF Bounded, HistoryInv, TablesOK
  <2> QED
    BY <2>1, <2>5 DEF Bounded
<1>6. ASSUME NEW t \in Threads, H!Announce(t) PROVE Bounded'
  <2>1. /\ UNCHANGED <<hSeq, view, hViews, hLoads, searches>>
        /\ top[t] < MaxTop /\ top' = [top EXCEPT ![t] = @ + 1]
        /\ hRows' = [hRows EXCEPT ![t] = @ \cup {top[t] + 1}]
        /\ unread' = [unread EXCEPT ![t] = @ \cup {top[t] + 1}]
    BY <1>6 DEF H!Announce, H!client
  <2>2. top' \in [Threads -> 0 .. MaxTop] /\ top[t] + 1 \in H!Ids
    BY <1>1, <2>1 DEF Bounded, H!Ids
  <2>3. \A x \in Threads : unread'[x] \subseteq hRows'[x] /\ hRows'[x] \subseteq H!Ids
    BY <2>1, <2>2 DEF Bounded, HistoryInv, TablesOK
  <2> QED
    BY <2>1, <2>2, <2>3 DEF Bounded
<1> QED
  BY <1>2, <1>3, <1>4, <1>5, <1>6 DEF H!Commands

LEMMA ResultsBounded ==
  ASSUME HistoryInv, Bounded, H!Results
  PROVE  Bounded'
<1>1. ASSUME NEW l \in hLoads, H!Dropped(l) \/ H!LoadFailed(l) \/ H!Listed(l) PROVE Bounded'
  <2>1. UNCHANGED <<top, hRows, unread, hSeq, view, hViews, searches>> /\ hLoads' \subseteq hLoads
    BY <1>1 DEF H!Dropped, H!LoadFailed, H!Listed, H!client, H!table
  <2> QED
    BY <2>1 DEF Bounded
<1>2. ASSUME NEW l \in hLoads, H!Shown(l) PROVE Bounded'
  <2> DEFINE v == H!SetMessages(view, l.ms, l.new \cap l.ms)
             found == jump # None /\ jump[1] = hActive /\ jump[2] \in l.ms
             w == IF found THEN [v EXCEPT !.follow = FALSE, !.sel = jump[2]] ELSE v
  <2>1. UNCHANGED <<top, hRows, unread, hViews, searches>> /\ view' = w
    BY <1>2 DEF H!Shown, H!table
  <2>2. \/ H!Load(hLoads \ {l}, hActive, limit')
        \/ hLoads' = hLoads \ {l} /\ hSeq' = hSeq
    BY <1>2 DEF H!Shown, H!Widened
  <2>3. l.ms \in SUBSET H!Ids /\ l.new \cap l.ms \in SUBSET l.ms
    BY DEF Bounded
  <2>4. Selected(v) /\ v.ms = l.ms
    BY <2>3, MessagesSet DEF Bounded
  <2> HIDE DEF v
  <2>5. Selected(w)
    <3>1. CASE ~ found
      BY <2>4, <3>1
    <3>2. CASE found
      <4>1. w = [v EXCEPT !.follow = FALSE, !.sel = jump[2]] /\ jump[2] \in v.ms
        BY <2>4, <3>2
      <4>2. jump[2] \in 0 .. MaxTop
        BY <2>3, <2>4, <4>1, HistoryAssumption DEF H!Ids, HistoryAssumption
      <4> HIDE DEF w, found
      <4>3. w \in H!View /\ w.ms = v.ms /\ w.sel = jump[2]
        BY <2>4, <4>1, <4>2 DEF Selected, H!View
      <4> QED
        BY <4>1, <4>3, SelectedOne
    <3> QED
      BY <3>1, <3>2
  <2>6. hLoads \ {l} \in SUBSET hLoads
    OBVIOUS
  <2>7. hSeq' \in 0 .. MaxLoads["either"] /\ \A k \in hLoads' : k.ms \subseteq H!Ids
    BY <2>2, <2>6, LoadBounded DEF Bounded
  <2> QED
    BY <2>1, <2>5, <2>7 DEF Bounded
<1>3. ASSUME \/ \E e \in news : H!Synced(e)
             \/ \E s \in saves : H!Saved(s)
             \/ H!OlderCame
      PROVE  Bounded'
  <2>1. UNCHANGED <<top, hRows, unread, view, hViews, searches>> /\ H!Load(hLoads, hActive, limit)
    BY <1>3 DEF H!Synced, H!Saved, H!OlderCame, H!client, H!table
  <2>2. hLoads \in SUBSET hLoads
    OBVIOUS
  <2> QED
    BY <2>1, <2>2, LoadBounded DEF Bounded
<1>4. ASSUME NEW s \in searches, H!Found(s) PROVE Bounded'
  <2>1. UNCHANGED <<top, hRows, unread, hSeq, hViews, hLoads>> /\ searches' = searches \ {s}
    BY <1>4 DEF H!Found, H!table
  <2>2. \/ view' = view
        \/ view' = [ms |-> s.ms, new |-> s.new \cap s.ms, follow |-> FALSE,
                    sel |-> IF s.ms = {} THEN 0 ELSE H!Earliest(s.ms)]
    BY <1>4 DEF H!Found
  <2>3. s.ms \in SUBSET H!Ids
    BY DEF Bounded
  <2>4. s.ms # {} => H!Earliest(s.ms) \in s.ms
    BY <2>3, EndsIn
  <2>5. Selected(view')
    <3>1. CASE view' = view
      BY <3>1 DEF Bounded
    <3>2. CASE view' = [ms |-> s.ms, new |-> s.new \cap s.ms, follow |-> FALSE,
                        sel |-> IF s.ms = {} THEN 0 ELSE H!Earliest(s.ms)]
      <4>1. view' \in H!View
        BY <2>3, <2>4, <3>2, HistoryAssumption DEF H!View, H!Ids, HistoryAssumption
      <4> QED
        BY <2>4, <3>2, <4>1, SelectedOne
    <3> QED
      BY <2>2, <3>1, <3>2
  <2> QED
    BY <2>1, <2>5 DEF Bounded
<1> QED
  BY <1>1, <1>2, <1>3, <1>4 DEF H!Results

LEMMA KeysBounded ==
  ASSUME HistoryInv, Bounded, H!Keys
  PROVE  Bounded'
<1> DEFINE selecting == UNCHANGED <<top, hRows, unread, hViews, searches>> /\ Selected(view')
           loading == \/ UNCHANGED <<hSeq, hLoads>>
                      \/ \E t, n : H!Load(hLoads, t, n)
<1>1. ASSUME UNCHANGED <<top, hRows, unread>>, UNCHANGED searches \/ \A s \in searches' : s.ms \subseteq H!Ids,
             Selected(view'), hViews' \in [Threads -> H!View],
             \A t \in Threads : Selected(hViews'[t]), loading
      PROVE  Bounded'
  <2>1. hSeq' \in 0 .. MaxLoads["either"] /\ \A k \in hLoads' : k.ms \subseteq H!Ids
    <3>1. hLoads \in SUBSET hLoads
      OBVIOUS
    <3> QED
      BY <1>1, <3>1, LoadBounded DEF Bounded
  <2> QED
    BY <1>1, <2>1 DEF Bounded
<1> HIDE DEF loading
<1>2. ASSUME NEW t \in Threads, H!Opened(t) PROVE Bounded'
  <2>1. UNCHANGED <<top, hRows, unread, searches>> /\ loading
    BY <1>2 DEF H!Opened, H!table, loading
  <2>2. /\ hViews' = (IF hActive = None THEN hViews ELSE [hViews EXCEPT ![hActive] = view])
        /\ view' = hViews'[t]
    BY <1>2 DEF H!Opened
  <2>3. hViews' \in [Threads -> H!View] /\ \A x \in Threads : Selected(hViews'[x])
    BY <2>2 DEF Bounded, Selected
  <2> QED
    BY <1>1, <2>1, <2>2, <2>3
<1>3. ASSUME H!LookAway \/ H!LookBack \/ H!Slash \/ H!EndSearch PROVE Bounded'
  <2>1. UNCHANGED <<top, hRows, unread, searches, view, hViews>> /\ loading
    BY <1>3 DEF H!LookAway, H!LookBack, H!Slash, H!EndSearch, H!SearchOver, H!table, loading
  <2> QED
    BY <1>1, <2>1 DEF Bounded
<1>4. ASSUME NEW q, H!Ask(q) PROVE Bounded'
  <2>1. UNCHANGED <<top, hRows, unread, view, hViews>> /\ loading
    BY <1>4 DEF H!Ask, H!table, loading
  <2>2. \A s \in searches' : s.ms \subseteq H!Ids
    BY <1>4 DEF H!Ask, Bounded
  <2> QED
    BY <1>1, <2>1, <2>2 DEF Bounded
<1>5. ASSUME NEW v, Selected(v), H!Move(v) PROVE Bounded'
  <2>1. UNCHANGED <<top, hRows, unread, searches, hViews>> /\ view' = v /\ loading
    BY <1>5 DEF H!Move, H!table, loading
  <2> QED
    BY <1>1, <1>5, <2>1 DEF Bounded
<1>6. \A i \in view.ms, f \in BOOLEAN : Selected([view EXCEPT !.sel = i, !.follow = f])
  <2> SUFFICES ASSUME NEW i \in view.ms, NEW f \in BOOLEAN
               PROVE  Selected([view EXCEPT !.sel = i, !.follow = f])
    OBVIOUS
  <2> DEFINE v == [view EXCEPT !.sel = i, !.follow = f]
  <2>1. view \in H!View /\ i \in 0 .. MaxTop
    BY HistoryAssumption DEF Bounded, Selected, H!View, H!Ids, HistoryAssumption
  <2>2. v \in H!View /\ v.ms = view.ms /\ v.sel = i
    BY <2>1 DEF H!View
  <2> HIDE DEF v
  <2>3. Selected(v)
    BY <2>2, SelectedOne
  <2> QED
    BY <2>3 DEF v
<1>7. view.ms # {} => H!Latest(view.ms) \in view.ms
  BY EndsIn DEF Bounded, Selected, H!View
<1>8. H!Step \/ H!Newest => Bounded'
  BY <1>5, <1>6, <1>7 DEF H!Step, H!Newest
<1>9. ASSUME H!JumpNewest PROVE Bounded'
  <2>1. UNCHANGED <<top, hRows, unread, searches, hViews>> /\ loading
    BY <1>9 DEF H!JumpNewest, H!SearchOver, H!table, loading
  <2>2. view' = [view EXCEPT !.follow = TRUE, !.sel = IF view.ms = {} THEN 0 ELSE H!Latest(view.ms)]
    BY <1>9 DEF H!JumpNewest
  <2>3. Selected(view')
    <3>1. CASE view.ms # {}
      <4>1. view' = [view EXCEPT !.sel = H!Latest(view.ms), !.follow = TRUE]
        BY <2>2, <3>1 DEF Bounded, Selected, H!View
      <4> QED
        BY <1>6, <1>7, <3>1, <4>1
    <3>2. CASE view.ms = {}
      <4>1. view' \in H!View /\ view'.ms = {} /\ view'.sel = 0
        BY <2>2, <3>2, HistoryAssumption DEF Bounded, Selected, H!View, HistoryAssumption
      <4> QED
        BY <4>1 DEF Selected
    <3> QED
      BY <3>1, <3>2
  <2> QED
    BY <1>1, <2>1, <2>3 DEF Bounded
<1> QED
  BY <1>2, <1>3, <1>4, <1>8, <1>9 DEF H!Keys, H!Open, H!JumpTo, H!TypeQuery, H!Enter

LEMMA BoundedStarts == H!Init => Bounded
<1> SUFFICES ASSUME H!Init PROVE Bounded
  OBVIOUS
<1>1. MaxTop \in Nat /\ Top \in [Threads -> 0 .. MaxTop] /\ MaxLoads["either"] \in Nat
  BY HistoryAssumption DEF HistoryAssumption
<1>2. Selected(H!New)
  BY <1>1 DEF Selected, H!New, H!View
<1>3. \A t \in Threads : unread[t] \subseteq hRows[t] /\ hRows[t] \subseteq H!Ids
  BY <1>1 DEF H!Init, H!Ids
<1>4. hViews \in [Threads -> H!View] /\ \A t \in Threads : Selected(hViews[t])
  BY <1>2 DEF H!Init, Selected
<1> QED
  BY <1>1, <1>2, <1>3, <1>4 DEF H!Init, Bounded

LEMMA BoundedStep == HistoryInv /\ Bounded /\ [Next]_vars => Bounded'
<1> SUFFICES ASSUME HistoryInv, Bounded, [Next]_vars PROVE Bounded'
  OBVIOUS
<1>1. H!Next \/ UNCHANGED historyVars
  BY DEF Next, vars, HistoryNext, AssistantNext, AttachNext, MediaNext, ContactsNext, ReplyNext, EchoNext
<1>2. CASE UNCHANGED historyVars
  BY <1>2 DEF historyVars, Bounded
<1> QED
  BY <1>1, <1>2, CommandsBounded, ResultsBounded, KeysBounded DEF H!Next

LEMMA HistoryTyped == Spec => []H!TypeOK
<1>1. Init => HistoryInv /\ Bounded
  BY HistoryStarts, BoundedStarts DEF Init
<1>2. HistoryInv /\ Bounded => H!TypeOK
  <2> SUFFICES ASSUME HistoryInv, Bounded PROVE H!TypeOK
    OBVIOUS
  <2>1. hApplied \in 0 .. hSeq
    BY DEF HistoryInv, LoadsOK
  <2> QED
    BY <2>1 DEF H!TypeOK, HistoryInv, ScreenOK, Bounded, Selected
<1> QED
  BY <1>1, <1>2, HistoryKept, BoundedStep, PTL DEF Spec
-----------------------------------------------------------------------------
(* Contacts and colours: where the user is, and no entry with an ID to come. *)

Panes == {"threads", "contacts", "conversation"}
Modals == {"", "themes", "bubble-themes", "edit", "delete", "details"}
PeopleBounded ==
  /\ pane \in Panes /\ cModal \in Modals
  /\ cBusy # None => cBusy.contact.id <= cKeys
  /\ unthreaded \in BOOLEAN /\ cLate \in BOOLEAN
  /\ cKeys \in 0 .. MaxKeys["contacts"] /\ cSeq \in 0 .. MaxLoads["contacts"]
  /\ cFaults \in 0 .. MaxFaults["contacts"]

LEMMA ContactBounds ==
  MaxKeys["contacts"] \in Nat /\ MaxLoads["contacts"] \in Nat /\ MaxFaults["contacts"] \in Nat
BY ContactsAssumption

LEMMA PeopleBoundedStarts == C!ContactsInit => PeopleBounded
<1> SUFFICES ASSUME C!ContactsInit PROVE PeopleBounded
  OBVIOUS
<1>1. pane \in Panes /\ cModal \in Modals /\ cBusy = None
  BY DEF C!ContactsInit, Panes, Modals
<1>2. unthreaded = FALSE /\ cLate = FALSE /\ cKeys = 0 /\ cSeq = 0 /\ cFaults = 0
  BY DEF C!ContactsInit
<1>3. cKeys \in 0 .. MaxKeys["contacts"]
  BY <1>2, ContactBounds
<1>4. cSeq \in 0 .. MaxLoads["contacts"]
  BY <1>2, ContactBounds
<1>5. cFaults \in 0 .. MaxFaults["contacts"]
  BY <1>2, ContactBounds
<1> QED
  BY <1>1, <1>2, <1>3, <1>4, <1>5 DEF PeopleBounded

\* A read of the list, or none.
LEMMA Rereads ==
  ASSUME PeopleBounded, cSeq' = cSeq \/ \E old : C!Load(old)
  PROVE  cSeq' \in 0 .. MaxLoads["contacts"]
BY ContactBounds DEF PeopleBounded, C!Load

LEMMA PeopleBoundedKeys ==
  ASSUME ContactsInv, PeopleInv', PeopleBounded, C!ContactKeys
  PROVE  PeopleBounded'
<1> USE DEF PeopleBounded
<1>1. cKeys' \in 0 .. MaxKeys["contacts"] /\ cKeys' = cKeys + 1
  <2>1. C!Pressed
    BY DEF C!ContactKeys, C!SetPane, C!Select, C!Esc, C!OpenPanel, C!Commit, C!PickThreadTheme,
       C!OpenDetails, C!Adjust, C!SaveDetails, C!Rename
  <2> QED
    BY <2>1, ContactBounds DEF C!Pressed
<1>2. cFaults' = cFaults /\ cLate' = cLate
  BY DEF C!ContactKeys, C!SetPane, C!Select, C!Esc, C!OpenPanel, C!Commit, C!PickThreadTheme,
     C!OpenDetails, C!Adjust, C!SaveDetails, C!Rename
<1>3. cSeq' \in 0 .. MaxLoads["contacts"] /\ pane' \in Panes
  <2>1. \/ pane' \in Panes /\ cSeq' = cSeq
        \/ \E t, c : C!OpenThread(t, c)
        \/ \E c : C!Choose(c)
    BY DEF C!ContactKeys, C!SetPane, C!Select, C!Esc, C!OpenPanel, C!Commit, C!PickThreadTheme,
       C!OpenDetails, C!Adjust, C!SaveDetails, C!Rename, C!PickRecipient, C!cached, Panes
  <2> QED
    BY <2>1, Rereads DEF C!OpenThread, C!Choose, C!cached, Panes
<1>4. cModal' \in Modals
  BY DEF C!ContactKeys, C!SetPane, C!Select, C!Esc, C!OpenPanel, C!OpenForm, C!Commit, C!Mutate, C!PickThreadTheme,
     C!OpenDetails, C!Adjust, C!SaveDetails, C!Rename, Modals
<1>5. cBusy' # None => cBusy'.contact.id <= cKeys'
  <2>1. CASE cBusy' = cBusy
    BY <1>1, <2>1 DEF ContactsInv, PeopleInv, ContactsTypes, Writing, ContactRows
  <2>2. CASE cBusy' # None /\ ~ cBusy'.deleted
    BY <1>1, <2>2 DEF PeopleInv, Minted
  <2>3. CASE C!Mutate(editing, TRUE, FALSE, cModal)
    <3>1. cBusy'.contact = editing
      BY <2>3 DEF C!Mutate
    <3> QED
      BY <1>1, <3>1 DEF ContactsInv, PeopleInv, ContactsTypes, Minted, ContactRows
  <2>4. \/ cBusy' = cBusy
        \/ \E c, r, m : C!Mutate(c, FALSE, r, m)
        \/ C!Mutate(editing, TRUE, FALSE, cModal)
    BY DEF C!ContactKeys, C!SetPane, C!Select, C!Esc, C!OpenPanel, C!Commit, C!PickThreadTheme,
       C!OpenDetails, C!Adjust, C!SaveDetails, C!Rename
  <2>5. (\E c, r, m : C!Mutate(c, FALSE, r, m)) => ~ cBusy'.deleted
    BY DEF C!Mutate
  <2> QED
    BY <2>1, <2>2, <2>3, <2>4, <2>5
<1>6. unthreaded' \in BOOLEAN
  <2>1. CASE C!Commit
    BY <2>1, Zenon DEF C!Commit
  <2>2. CASE C!SaveDetails
    BY <2>2, Zenon DEF C!SaveDetails
  <2>3. CASE unthreaded' = unthreaded
    BY <2>3
  <2> QED
    BY <2>1, <2>2, <2>3 DEF C!ContactKeys, C!SetPane, C!Select, C!Esc, C!OpenPanel, C!PickThreadTheme,
       C!OpenDetails, C!Adjust, C!Rename
<1> QED
  BY <1>1, <1>2, <1>3, <1>4, <1>5, <1>6

LEMMA PeopleBoundedResults ==
  ASSUME ContactsInv, PeopleBounded, C!ContactResults
  PROVE  PeopleBounded'
<1> USE DEF PeopleBounded
<1>1. cKeys' = cKeys /\ unthreaded' = unthreaded
  BY DEF C!ContactResults, C!MutationDone, C!MutationFails, C!Imported, C!RunWrite, C!ThreadSaved, C!RunLoad, C!Listed
<1>2. cFaults' \in 0 .. MaxFaults["contacts"]
  <2>1. C!Fault \/ UNCHANGED cFaults
    BY DEF C!ContactResults, C!MutationDone, C!MutationFails, C!Imported, C!RunWrite, C!ThreadSaved, C!RunLoad, C!Listed
  <2> QED
    BY <2>1, ContactBounds DEF C!Fault
<1>3. cLate' \in BOOLEAN
  BY DEF C!ContactResults, C!MutationDone, C!MutationFails, C!Imported, C!RunWrite, C!ThreadSaved, C!RunLoad, C!Listed
<1>4. cSeq' \in 0 .. MaxLoads["contacts"]
  <2>1. cSeq' = cSeq \/ \E old : C!Load(old)
    BY DEF C!ContactResults, C!MutationDone, C!Deleted, C!Saved, C!Choose, C!MutationFails, C!Imported, C!RunWrite,
       C!ThreadSaved, C!Reload, C!RunLoad, C!Listed, C!cached
  <2> QED
    BY <2>1, Rereads
<1>5. pane' \in Panes /\ cModal' \in Modals
  BY DEF C!ContactResults, C!MutationDone, C!Deleted, C!Saved, C!Choose, C!MutationFails, C!Imported, C!RunWrite,
     C!ThreadSaved, C!RunLoad, C!Listed, C!screen, Panes, Modals
<1>6. cBusy' = cBusy \/ cBusy' = None
  BY DEF C!ContactResults, C!MutationDone, C!MutationFails, C!Imported, C!RunWrite, C!ThreadSaved, C!RunLoad, C!Listed
<1> QED
  BY <1>1, <1>2, <1>3, <1>4, <1>5, <1>6

LEMMA PeopleBoundedStep == ContactsInv /\ ContactsInv' /\ PeopleBounded /\ [Next]_vars => PeopleBounded'
<1>1. [Next]_vars => C!ContactsNext \/ UNCHANGED contactsVars
  BY DEF Next, vars, HistoryNext, AssistantNext, AttachNext, MediaNext, ContactsNext, ReplyNext, EchoNext
<1>2. PeopleBounded /\ UNCHANGED contactsVars => PeopleBounded'
  BY DEF contactsVars, PeopleBounded
<1>3. ContactsInv' => PeopleInv'
  BY DEF ContactsInv
<1> QED
  BY <1>1, <1>2, <1>3, PeopleBoundedKeys, PeopleBoundedResults DEF C!ContactsNext

LEMMA ContactsTyped == Spec => []C!ContactsOK
<1>1. Init => ContactsInv /\ PeopleBounded
  BY ContactsStart, ColoursStart, PeopleBoundedStarts DEF Init, ContactsInv
<1>2. ContactsInv /\ PeopleBounded => C!ContactsOK
  <2> SUFFICES ASSUME ContactsInv, PeopleBounded PROVE C!ContactsOK
    OBVIOUS
  <2> USE DEF ContactsInv, PeopleInv
  <2>1. ASSUME NEW e \in ContactRows, e.id <= cKeys PROVE e \in C!Entry
    BY <2>1, ContactBounds DEF C!Entry, ContactRows, Paints, PeopleBounded
  <2>2. table \subseteq C!Entry
    BY <2>1 DEF ContactsTypes, Minted
  <2>3. recipient \in C!Entry /\ editing \in C!Entry
    BY <2>1 DEF ContactsTypes, Minted
  <2>4. cBusy = None \/ cBusy.contact \in C!Entry
    BY <2>1 DEF ContactsTypes, PeopleBounded, Writing
  <2>5. cActive \in {None} \cup [thread : Chats, colour : Colours \cup {None}]
    BY DEF ContactsTypes, Paints
  <2>6. /\ colour \in [Chats -> Colours \cup {None}] /\ list \in [Chats -> Colours \cup {None}]
        /\ cDraft \in [colour : Colours \cup {None}, saved : Colours \cup {None}]
    BY DEF ContactsTypes, ColourInv, ColourTypes, Paints
  <2>7. cApplied <= cSeq /\ cSeq <= MaxLoads["contacts"] /\ cKeys <= MaxKeys["contacts"]
        /\ cFaults <= MaxFaults["contacts"]
    BY ContactBounds DEF ColourInv, ColourTypes, PeopleBounded
  <2> QED
    BY <2>2, <2>3, <2>4, <2>5, <2>6, <2>7 DEF C!ContactsOK, ContactsTypes, PeopleBounded, Panes, Modals
<1> QED
  BY <1>1, <1>2, ContactsStep, PeopleBoundedStep, PTL DEF Spec
-----------------------------------------------------------------------------
(* The reply window: what each key may add to a revision and to the timer. *)

ReplyBounded ==
  /\ undo \in BOOLEAN /\ undone \subseteq R!Presses /\ rFaults \in 0 .. MaxFaults["reply"]
  /\ messages \in [R!Presses -> {None, "sending", "unknown", "submitted", "failed"}]
  /\ rDraft.rev <= 2 * rKeys + 1 /\ (rSending => rDraft.rev <= 2 * rKeys)
  /\ rRow.rev <= 2 * rKeys + 1 /\ app.rev <= rKeys + 1
  /\ holdSeq \in 0 .. 2 * rKeys /\ (hold => holdSeq + 1 <= 2 * rKeys)

LEMMA ReplyBoundedStarts == R!ReplyInit => ReplyBounded
BY ReplyAssumption DEF R!ReplyInit, ReplyBounded, R!Draft

\* A key adds one to the revision of the draft it saves.
LEMMA SavesBounded ==
  ASSUME ReplyTypes, ReplyBounded, NEW b, R!SaveDraft(b)
  PROVE  rDraft'.rev <= rDraft.rev + 1 /\ rRow'.rev <= 2 * rKeys + 2
BY DEF ReplyTypes, ReplyBounded, R!SaveDraft, R!SaveRow, R!Draft

LEMMA ReplyBoundedKeys ==
  ASSUME ReplyInv, ReplyInv', ReplyBounded,
         R!Edit \/ R!Leave \/ R!Send \/ R!TakeBack \/ R!SendNow \/ R!AppTypes
  PROVE  ReplyBounded'
<1>1. rKeys \in Nat /\ rKeys' = rKeys + 1 /\ rFaults' = rFaults /\ undo' = undo /\ messages' = messages
  BY DEF R!Edit, R!Leave, R!Send, R!TakeBack, R!SendNow, R!AppTypes, R!Pressed, R!outcome,
         ReplyInv, ReplyTypes
<1>2. press \in 0 .. rKeys /\ rDraft.rev \in Nat /\ rRow.rev \in Nat /\ app.rev \in Nat /\ (hold => rSending)
  BY DEF ReplyInv, ReplyTypes, OneReply
<1>3. undone' \subseteq R!Presses
  <2>1. hold => press \in R!Presses
    BY ReplyAssumption DEF ReplyInv, ReplyTypes, OneReply, R!Presses
  <2> QED
    BY <2>1, <1>1 DEF R!Edit, R!Leave, R!Send, R!TakeBack, R!SendNow, R!AppTypes, ReplyBounded, R!Presses
<1>4. rDraft'.rev <= 2 * rKeys' + 1 /\ (rSending' => rDraft'.rev <= 2 * rKeys') /\ rRow'.rev <= 2 * rKeys' + 1
  <2>1. CASE R!Edit \/ R!Leave \/ R!Send
    <3>1. /\ rDraft'.rev \in Nat /\ rDraft'.rev <= rDraft.rev + 1
          /\ rRow'.rev \in Nat /\ rRow'.rev <= 2 * rKeys + 2
      <4>1. \/ \E b : R!SaveDraft(b)
            \/ UNCHANGED <<rDraft, rRow>>
        BY <2>1 DEF R!Edit, R!Leave, R!Send
      <4> QED
        BY <4>1, <1>1, <1>2, SavesBounded DEF ReplyInv, ReplyTypes, ReplyBounded
    <3> QED
      BY <3>1, <1>1, <1>2 DEF ReplyBounded
  <2>2. CASE R!TakeBack \/ R!SendNow \/ R!AppTypes
    BY <2>2, <1>1, <1>2 DEF R!TakeBack, R!SendNow, R!AppTypes, R!draftVars, R!timer, ReplyBounded, ReplyInv,
       ReplyTypes
  <2> QED
    BY <2>1, <2>2
<1>5. app'.rev <= rKeys' + 1
  BY <1>1, <1>2 DEF R!Edit, R!Leave, R!Send, R!TakeBack, R!SendNow, R!AppTypes, R!draftVars, R!Draft, ReplyBounded
<1>6. holdSeq' \in 0 .. 2 * rKeys' /\ (hold' => holdSeq' + 1 <= 2 * rKeys')
  BY <1>1, <1>2 DEF R!Edit, R!Leave, R!Send, R!TakeBack, R!SendNow, R!AppTypes, R!timer, R!Deliver, ReplyBounded
<1> QED
  BY <1>1, <1>3, <1>4, <1>5, <1>6 DEF ReplyBounded, R!Presses

LEMMA ReplyBoundedResults ==
  ASSUME ReplyInv, ReplyInv', ReplyBounded,
         \/ R!Close \/ R!OpenStore \/ R!AppSaves
         \/ \E s \in ticks : R!Tick(s)
         \/ \E s \in rSends : R!Store(s) \/ R!Hand(s) \/ R!Record(s) \/ R!Answered(s)
  PROVE  ReplyBounded'
<1>1. rKeys' = rKeys /\ undo' = undo /\ undone' = undone /\ app' = app /\ rKeys \in Nat
  BY DEF R!Close, R!OpenStore, R!AppSaves, R!Tick, R!Store, R!Hand, R!Record, R!Answered, R!draftVars,
         ReplyInv, ReplyTypes
<1>2. rFaults' \in 0 .. MaxFaults["reply"]
  BY ReplyAssumption DEF R!Close, R!OpenStore, R!AppSaves, R!Tick, R!Store, R!Hand, R!Record, R!Answered,
     R!Fault, ReplyBounded
<1>3. messages' \in [R!Presses -> {None, "sending", "unknown", "submitted", "failed"}]
  <2>1. CASE R!OpenStore
    BY <2>1 DEF R!OpenStore, ReplyBounded
  <2>2. CASE \E s \in rSends : R!Store(s) \/ R!Record(s)
    BY <2>2 DEF R!Store, R!Record, ReplyBounded
  <2>3. CASE messages' = messages
    BY <2>3 DEF ReplyBounded
  <2> QED
    BY <2>1, <2>2, <2>3 DEF R!Close, R!AppSaves, R!Tick, R!Hand, R!Answered, R!outcome
<1>4. rDraft.rev \in Nat /\ rRow.rev \in Nat /\ app.rev \in Nat /\ rSends # {} => rSending
  BY DEF ReplyInv, ReplyTypes, OneReply
<1>5. rDraft'.rev <= 2 * rKeys' + 1 /\ (rSending' => rDraft'.rev <= 2 * rKeys') /\ rRow'.rev <= 2 * rKeys' + 1
  <2>1. CASE \E s \in rSends : R!Answered(s)
    <3>1. rSending /\ rSending' = FALSE
      BY <2>1, <1>4 DEF R!Answered, ReplyInv, OneReply
    <3>2. rDraft' = rDraft \/ rDraft'.rev = rDraft.rev + 1
      BY <2>1 DEF R!Answered, R!Draft
    <3>3. rRow' = rRow \/ rRow'.rev = rDraft'.rev
      BY <2>1 DEF R!Answered, R!SaveRow
    <3> QED
      BY <1>1, <1>4, <3>1, <3>2, <3>3 DEF ReplyBounded, ReplyInv, ReplyTypes
  <2>2. CASE R!AppSaves
    BY <2>2, <1>1, <1>4 DEF R!AppSaves, R!SaveRow, R!timer, ReplyBounded, ReplyInv, ReplyTypes
  <2>3. CASE UNCHANGED <<rDraft, rRow, rSending>>
    BY <2>3, <1>1 DEF ReplyBounded
  <2> QED
    BY <2>1, <2>2, <2>3 DEF R!Close, R!OpenStore, R!Tick, R!Store, R!Hand, R!Record, R!draftVars, R!timer
<1>6. holdSeq' \in 0 .. 2 * rKeys' /\ (hold' => holdSeq' + 1 <= 2 * rKeys')
  <2>1. CASE UNCHANGED <<hold, holdSeq>>
    BY <2>1, <1>1 DEF ReplyBounded
  <2>2. CASE hold /\ hold' = FALSE /\ holdSeq' = holdSeq + 1
    BY <2>2, <1>1 DEF ReplyBounded
  <2> QED
    BY <2>1, <2>2 DEF R!Close, R!OpenStore, R!AppSaves, R!Tick, R!Store, R!Hand, R!Record, R!Answered,
       R!timer, R!Deliver
<1> QED
  BY <1>1, <1>2, <1>3, <1>5, <1>6 DEF ReplyBounded, R!Presses

LEMMA ReplyBoundedStep == ReplyInv /\ ReplyInv' /\ ReplyBounded /\ [Next]_vars => ReplyBounded'
<1>1. [Next]_vars => R!ReplyNext \/ UNCHANGED replyVars
  BY DEF Next, vars, HistoryNext, AssistantNext, AttachNext, MediaNext, ContactsNext, ReplyNext, EchoNext
<1>2. ReplyBounded /\ UNCHANGED replyVars => ReplyBounded'
  BY DEF replyVars, ReplyBounded, R!Presses
<1> QED
  BY <1>1, <1>2, ReplyBoundedKeys, ReplyBoundedResults DEF R!ReplyNext

LEMMA RepliesTyped == Spec => []R!ReplyOK
<1>1. Init => ReplyInv /\ ReplyBounded
  BY ReplyStarts, ReplyBoundedStarts DEF Init
<1>2. ReplyInv /\ ReplyBounded => R!ReplyOK
  <2> SUFFICES ASSUME ReplyInv, ReplyBounded PROVE R!ReplyOK
    OBVIOUS
  <2>1. {rDraft.rev, rRow.rev, app.rev, holdSeq} \subseteq 0 .. 3 * MaxKeys["reply"] + 2
    BY ReplyAssumption DEF ReplyInv, ReplyTypes, ReplyBounded
  <2>2. {rDraft.body, rRow.body, app.body} \subseteq Texts \cup {Empty} /\ rEditor \in Texts \cup {Empty}
    BY DEF ReplyInv, ReplyTypes, ReplyTexts
  <2>3. press \in 0 .. MaxKeys["reply"] /\ rKeys <= MaxKeys["reply"] /\ rFaults <= MaxFaults["reply"]
    BY ReplyAssumption DEF ReplyInv, ReplyTypes, ReplyBounded
  <2>4. (hold => rSending) /\ (rSends # {} => rSending)
    BY DEF ReplyInv, OneReply
  <2> QED
    BY <2>1, <2>2, <2>3, <2>4 DEF R!ReplyOK, ReplyInv, ReplyTypes, ReplyBounded
<1> QED
  BY <1>1, <1>2, ReplyStep, ReplyBoundedStep, PTL DEF Spec
-----------------------------------------------------------------------------
(* A message and its echo: no row is of a time that has not come. *)

EchoBounded ==
  /\ \A r \in eRows : r.at <= MaxSpan /\ (r.echo <=> r.status = "sent")
  /\ \A p \in phone : p.at <= MaxSpan
  /\ odd \subseteq Bodies /\ span \in 0 .. MaxSpan
  /\ count.typed <= MaxTyped /\ eFaults \in 0 .. MaxFaults["echo"]

LEMMA EchoBoundedStarts == E!EchoInit => EchoBounded
BY EchoAssumption DEF E!EchoInit, EchoBounded

LEMMA EchoBoundedStep == EchoInv /\ EchoBounded /\ [Next]_vars => EchoBounded'
<1> SUFFICES ASSUME EchoInv, EchoBounded, [Next]_vars PROVE EchoBounded'
  OBVIOUS
<1> USE EchoAssumption DEF EchoInv, EchoBounded
<1>1. /\ \A r \in eRows : r \in EchoRow
      /\ \A s \in eSends : s.body \in Bodies
      /\ \A p \in phone : p.body \in Bodies
      /\ count \in [sent : Nat, typed : Nat]
  BY DEF EchoTypes
<1>2. ASSUME E!StoreLocal PROVE EchoBounded'
  <2>1. PICK b \in Bodies, t \in {"local", "phone"}, q \in BOOLEAN :
          /\ eRows' = eRows \cup {E!Local(count'.sent, b, t, IF q THEN "queued" ELSE "sending")}
          /\ odd' \subseteq odd \cup {b}
    BY <1>2 DEF E!StoreLocal
  <2>2. UNCHANGED <<phone, span, eFaults>> /\ count'.typed = count.typed
    BY <1>1, <1>2 DEF E!StoreLocal
  <2>3. LET r == E!Local(count'.sent, b, t, IF q THEN "queued" ELSE "sending")
        IN  r.at = span /\ ~ r.echo /\ r.status # "sent"
    BY DEF E!Local
  <2> QED
    BY <2>1, <2>2, <2>3
<1>3. ASSUME NEW s \in eSends, E!Hand(s) PROVE EchoBounded'
  <2>1. UNCHANGED <<eRows, span, count>> /\ odd' \subseteq odd \cup {s.body}
        /\ eFaults' \in 0 .. MaxFaults["echo"]
    BY <1>3 DEF E!Hand, E!Fault
  <2>2. phone' \subseteq phone \cup {[id |-> s.id, body |-> s.body, at |-> span]}
    BY <1>3 DEF E!Hand
  <2> QED
    BY <1>1, <2>1, <2>2
<1>4. ASSUME NEW s \in eSends, E!Record(s) PROVE EchoBounded'
  <2>1. /\ UNCHANGED <<phone, span, odd, count, eFaults>> /\ s.step \in {"submitted", "failed"}
        /\ eRows' = {IF r.id = s.id /\ ~r.echo THEN [r EXCEPT !.status = s.step] ELSE r : r \in eRows}
    BY <1>4 DEF E!Record
  <2> QED
    BY <1>1, <2>1 DEF EchoRow
<1>5. ASSUME NEW p \in phone, E!MergeEcho(p) PROVE EchoBounded'
  <2>1. eRows' \subseteq E!Promoted(eRows) \cup {E!Reported(p)}
    BY <1>5 DEF E!MergeEcho
  <2>2. UNCHANGED <<phone, span, count, eFaults>> /\ odd' \subseteq odd \cup {p.body}
    BY <1>5 DEF E!MergeEcho
  <2>3. \A r \in E!Promoted(eRows) : r.at <= MaxSpan /\ (r.echo <=> r.status = "sent")
    BY <1>1 DEF E!Promoted, EchoRow
  <2> QED
    BY <1>1, <2>1, <2>2, <2>3 DEF E!Reported
<1>6. ASSUME E!TypedThere PROVE EchoBounded'
  <2>1. PICK b \in Bodies :
          /\ phone' = phone \cup {[id |-> MaxSends + count'.typed, body |-> b, at |-> span]}
          /\ odd' \subseteq odd \cup {b}
    BY <1>6 DEF E!TypedThere
  <2>2. UNCHANGED <<eRows, span, eFaults>> /\ count'.typed <= MaxTyped
    BY <1>1, <1>6 DEF E!TypedThere
  <2> QED
    BY <2>1, <2>2
<1>7. ASSUME E!OpenStore PROVE EchoBounded'
  <2>1. /\ UNCHANGED <<phone, span, count>> /\ eFaults' \in 0 .. MaxFaults["echo"]
        /\ eRows' = {IF r.status = "sending" THEN [r EXCEPT !.status = "unknown"] ELSE r : r \in eRows}
        /\ odd' \subseteq odd \cup {r.body : r \in eRows}
    BY <1>7 DEF E!OpenStore, E!Fault
  <2> QED
    BY <1>1, <2>1 DEF EchoRow
<1>8. ASSUME E!Elapse PROVE EchoBounded'
  <2>1. /\ UNCHANGED <<eRows, phone, count, eFaults>> /\ span' \in 0 .. MaxSpan
        /\ odd' \subseteq odd \cup {s.body : s \in eSends}
    BY <1>8 DEF E!Elapse
  <2> QED
    BY <1>1, <2>1
<1>9. ASSUME UNCHANGED echoVars PROVE EchoBounded'
  BY <1>9 DEF echoVars
<1>10. E!EchoNext \/ UNCHANGED echoVars
  BY DEF Next, vars, HistoryNext, AssistantNext, AttachNext, MediaNext, ContactsNext, ReplyNext, EchoNext
<1> QED
  BY <1>2, <1>3, <1>4, <1>5, <1>6, <1>7, <1>8, <1>9, <1>10 DEF E!EchoNext

LEMMA EchoTyped == Spec => []E!EchoOK
<1>1. Init => EchoInv /\ EchoBounded
  BY EchoStarts, EchoBoundedStarts DEF Init
<1>2. EchoInv /\ EchoBounded => E!EchoOK
  <2> SUFFICES ASSUME EchoInv, EchoBounded PROVE E!EchoOK
    OBVIOUS
  <2>1. \A r \in eRows :
          /\ r.body \in Bodies /\ r.thread \in {"local", "phone"} /\ r.at \in 0..MaxSpan
          /\ r.status \in {"queued", "sending", "submitted", "failed", "unknown", "sent"}
          /\ r.echo <=> r.status = "sent"
    BY EchoAssumption DEF EchoInv, EchoTypes, EchoRow, EchoBounded
  <2>2. ASSUME NEW r \in eRows, NEW q \in eRows, r.id = q.id, r.echo = q.echo PROVE r = q
    <3>1. CASE ~ r.echo
      BY <2>2, <3>1 DEF EchoInv, Numbered, EchoTypes, EchoRow
    <3>2. CASE r.echo
      <4>1. q.echo
        BY <2>2, <3>2
      <4>2. PICK m \in merged : r = E!Reported(m)
        BY <3>2 DEF EchoInv, EchoTypes
      <4>3. PICK n \in merged : q = E!Reported(n)
        BY <4>1 DEF EchoInv, EchoTypes
      <4>4. m.id = n.id /\ m \in phone /\ n \in phone
        BY <2>2, <4>2, <4>3 DEF E!Reported, EchoInv, EchoTypes
      <4> QED
        BY <4>2, <4>3, <4>4 DEF EchoInv, Numbered
    <3> QED
      BY <3>1, <3>2
  <2>3. \A s \in eSends : s.id \in 1..MaxSends /\ s.step \in {"hand", "submitted", "failed"}
    BY EchoAssumption DEF EchoInv, EchoTypes
  <2> QED
    BY EchoAssumption, <2>1, <2>2, <2>3 DEF E!EchoOK, EchoInv, EchoTypes, EchoBounded
<1> QED
  BY <1>1, <1>2, EchoStep, EchoBoundedStep, PTL DEF Spec
-----------------------------------------------------------------------------
\* The variables of every panel and record keep to their values: what a view shows
\* is stored and one of it selected, a save or a review is of a configuration or a
\* request there is, what is drawn and downloaded are parts of messages, a contact's
\* row and m.contacts are the same, the reply window says so while a reply is under
\* way, and a message has at most one local row and one of the phone's (history.go,
\* settings.go, ai.go, attach.go, media.go, details.go, reply.go, conversations.go).
THEOREM PanelsTyped == Spec => []TypeOK
<1>1. H!TypeOK /\ A!AssistantOK /\ P!AttachOK /\ M!MediaOK /\ C!ContactsOK /\ R!ReplyOK /\ E!EchoOK => TypeOK
  BY DEF TypeOK
<1> QED
  BY <1>1, HistoryTyped, AssistantTyped, AttachTyped, MediaTyped, ContactsTyped, RepliesTyped, EchoTyped, PTL
=============================================================================
