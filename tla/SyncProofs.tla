------------------------------ MODULE SyncProofs ------------------------------
(***************************************************************************)
(* Proofs about Sync, for any conversations, page size, numbers of messages*)
(* and sessions, and however often a call fails.                           *)
(***************************************************************************)
EXTENDS Sync, FiniteSetTheorems, TLAPS

\* The places of a refresh that holds Engine.mu.
Working == {"threads", "check", "page", "save"}

\* A refresh is at work on a conversation.
Busy(g) == sess[g].ref \in {"page", "save"}

\* The engine's mutex keeps the refreshes apart, a session has one only from
\* Subscribe to the moment it joins it, and what was not started is idle.
OneRefresh ==
  /\ \A g \in Gens : sess[g].ref \in Working <=> lock = g
  /\ \A g \in Gens : sess[g].pc \in {"none", "dial", "wait", "over"} => sess[g].ref = "idle"
  /\ \A g \in Gens : g > gen => sess[g] = Idle

\* What a refresh has still to do lies between the watermarks and the phone:
\* each conversation is left once, and not the one it is at.
Work(s) ==
  /\ s.ref \in {"check", "page", "save"} =>
       /\ \A e \in s.todo : anchor[e[1]] <= e[2] /\ e[2] <= phone[e[1]]
       /\ \A e, f \in s.todo : e[1] = f[1] => e = f
  /\ s.ref \in {"page", "save"} =>
       /\ anchor[s.cur[1]] <= s.cur[2] /\ s.cur[2] <= phone[s.cur[1]]
       /\ \A e \in s.todo : e[1] # s.cur[1]
WorkList ==
  /\ \A t \in Threads : anchor[t] <= phone[t] /\ (anchor[t] = 0 => base[t] = 0)
  /\ \A g \in Gens : Work(sess[g])

\* The pages join: what the refresh stored of its conversation reaches without
\* a gap from low to the newest message, the next page begins no further down
\* than below low, and a conversation that has a watermark is only saved once
\* the pages met it.
Stored(s) ==
  LET t == s.cur[1]
  IN  /\ s.low = 0 => s.off = 0 /\ s.ref = "page"
      /\ s.low > 0 => s.low + s.off <= phone[t] + 1 /\ s.low .. s.cur[2] \subseteq rows[t]
      /\ s.ref = "save" /\ anchor[t] > 0 => s.low <= anchor[t]
PagesJoin == \A g \in Gens : Busy(g) => Stored(sess[g])

-----------------------------------------------------------------------------
(* Types. *)

SessType ==
  [pc : {"none", "dial", "run", "stop", "wait", "over"}, cancelled : BOOLEAN,
   stream : SUBSET Events, refused : SUBSET Events,
   ref : {"idle", "lock", "threads", "check", "page", "save", "done", "failed"},
   todo : SUBSET Events, cur : Events \cup {None}, off : 0 .. MaxPhone, low : 0 .. MaxPhone]

LEMMA IdleType == Idle \in SessType
BY SyncAssumption DEF Idle, SessType

\* A signal changes nothing of a session but its stream.
LEMMA SignalledStream ==
  ASSUME NEW ss \in [Gens -> SessType], NEW t \in Threads, NEW ids \in SUBSET Ids
  PROVE  /\ Signalled(t, ids, ss) \in [Gens -> SessType]
         /\ \A g \in Gens :
              LET a == ss[g]  b == Signalled(t, ids, ss)[g]
              IN  /\ b.pc = a.pc /\ b.cancelled = a.cancelled /\ b.ref = a.ref
                  /\ b.todo = a.todo /\ b.cur = a.cur /\ b.off = a.off /\ b.low = a.low
                  /\ a.pc # "run" => b = a
<1>1. {<<t, i>> : i \in ids \ rows[t]} \subseteq Events
  BY DEF Events
<1>2. PICK new \in SUBSET Events : new = {<<t, i>> : i \in ids \ rows[t]}
  BY <1>1
<1>3. Signalled(t, ids, ss) = [g \in Gens |-> IF Subscribed(ss[g])
                    THEN [ss[g] EXCEPT !.stream = @ \cup new] ELSE ss[g]]
  BY <1>2 DEF Signalled
<1> HIDE <1>2
<1>4. ASSUME NEW g \in Gens
      PROVE  LET a == ss[g]  b == Signalled(t, ids, ss)[g]
             IN  /\ b.pc = a.pc /\ b.cancelled = a.cancelled /\ b.ref = a.ref
                 /\ b.todo = a.todo /\ b.cur = a.cur /\ b.off = a.off /\ b.low = a.low
                 /\ a.pc # "run" => b = a
                 /\ b \in SessType
  BY <1>3 DEF SessType, Subscribed
<1> QED
  BY <1>3, <1>4

\* A page is an interval: everything from the last message of the answer up to
\* the offset, counted from the newest message.
LEMMA PageInterval ==
  ASSUME NEW t \in Threads, phone[t] \in Nat, NEW k \in 0 .. phone[t], NEW off \in Nat
  PROVE  /\ PageOf(t, k, off) = (phone[t] - k + 1) .. (phone[t] - off)
         /\ Cardinality(PageOf(t, k, off)) = IF k > off THEN k - off ELSE 0
         /\ PageOf(t, k, off) # {} <=> k > off
         /\ PageOf(t, k, off) \in SUBSET (1 .. phone[t])
         /\ Newest(t, k) \in SUBSET (1 .. phone[t])
<1>1. PICK n \in Nat : n = phone[t]
  OBVIOUS
<1> DEFINE a == n - k + 1
           b == n - off
<1>2. /\ a \in Int /\ b \in Int
      /\ a <= b <=> k > off
      /\ k > off => b - a + 1 = k - off
  BY <1>1
<1>3. PageOf(t, k, off) = a .. b
  BY <1>1 DEF PageOf, Newest
<1> HIDE DEF a, b
<1>4. Cardinality(a .. b) = IF a > b THEN 0 ELSE b - a + 1
  BY <1>2, FS_Interval
<1>5. Cardinality(PageOf(t, k, off)) = IF k > off THEN k - off ELSE 0
  BY <1>2, <1>3, <1>4
<1>6. a .. b # {} <=> a <= b
  BY <1>2
<1>7. PageOf(t, k, off) # {} <=> k > off
  BY <1>2, <1>3, <1>6
<1>8. /\ PageOf(t, k, off) \in SUBSET (1 .. phone[t])
      /\ Newest(t, k) \in SUBSET (1 .. phone[t])
  BY DEF PageOf, Newest
<1> QED
  BY <1>1, <1>3, <1>5, <1>7, <1>8 DEF a, b

\* An answer holds no more messages than the phone has, and all that were asked
\* for or all there are unless it was cut.
LEMMA AnswerSize ==
  ASSUME NEW g \in Gens, NEW t \in Threads, phone[t] \in Nat, NEW want \in Nat,
         NEW k \in Answers(g, t, want)
  PROVE  /\ k \in 0 .. phone[t]
         /\ ~Cut => k = want \/ k = phone[t]
BY DEF Answers

\* An answer of k messages to a page request of session g.
Answered(g, t, k) ==
  LET page == PageOf(t, k, sess[g].off)
      last == EndsAt(t, page)
      signalled == Signalled(t, Newest(t, k) \ page, sess)
  IN /\ rows' = Merged(t, page)
     /\ \/ /\ last \/ ~Stopped(sess[g])
           /\ sess' = [signalled EXCEPT
                ![g].off = @ + Cardinality(page),
                ![g].low = IF page = {} THEN @ ELSE phone[t] - k + 1,
                ![g].ref = IF last THEN "save" ELSE "page"]
           /\ UNCHANGED lock
        \/ /\ ~last /\ Stopped(sess[g])
           /\ GiveUp(g, signalled)

\* What it does to the session and to the others.
PageEffect(g, t, k) ==
  LET s == sess[g]
      page == (phone[t] - k + 1) .. (phone[t] - s.off)
      last == anchor[t] = 0 \/ anchor[t] \in page \/ k <= s.off
  IN  /\ s.ref = "page" /\ t = s.cur[1]
      /\ ~Cut => k = s.off + PageSize \/ k = phone[t]
      /\ rows' = [rows EXCEPT ![t] = @ \cup page]
      /\ page \in SUBSET (1 .. phone[t])
      /\ sess' \in [Gens -> SessType]
      /\ \A h \in Gens \ {g} :
           /\ sess'[h].pc = sess[h].pc /\ sess'[h].cancelled = sess[h].cancelled
           /\ sess'[h].ref = sess[h].ref /\ sess'[h].todo = sess[h].todo
           /\ sess'[h].cur = sess[h].cur
           /\ sess'[h].off = sess[h].off /\ sess'[h].low = sess[h].low
           /\ sess[h].pc # "run" => sess'[h] = sess[h]
      /\ sess'[g].pc = s.pc
      /\ \/ /\ lock' = lock
            /\ sess'[g].todo = s.todo /\ sess'[g].cur = s.cur
            /\ sess'[g].off = IF k > s.off THEN k ELSE s.off
            /\ sess'[g].low = IF k > s.off THEN phone[t] - k + 1 ELSE s.low
            /\ sess'[g].ref = IF last THEN "save" ELSE "page"
         \/ lock' = 0 /\ sess'[g].ref = "failed"

LEMMA PageDoes ==
  ASSUME TypeOK, NEW g \in Gens, Page(g)
  PROVE  \E t \in Threads : \E k \in 0 .. phone[t] : PageEffect(g, t, k)
<1> sess \in [Gens -> SessType] /\ phone \in [Threads -> 0 .. MaxPhone]
  BY DEF TypeOK, SessType
<1> DEFINE s == sess[g]
<1>1. s \in SessType /\ s.off \in Nat /\ s.off + PageSize \in Nat
  BY SyncAssumption DEF SessType
<1>2. PICK t \in Threads :
        t = s.cur[1] /\ \E k \in Answers(g, t, s.off + PageSize) : Answered(g, t, k)
  BY Zenon DEF Page, Answered
<1>3. PICK k \in Answers(g, t, s.off + PageSize) : Answered(g, t, k)
  BY <1>2
<1>4. s.ref = "page"
  BY DEF Page, Ref
<1>5. phone[t] \in 0 .. MaxPhone /\ phone[t] \in Nat
  BY SyncAssumption
<1>6. k \in 0 .. phone[t] /\ (~Cut => k = s.off + PageSize \/ k = phone[t])
  BY <1>1, <1>5, AnswerSize
<1> DEFINE page == PageOf(t, k, s.off)
           ids == Newest(t, k) \ page
           last == EndsAt(t, page)
           signalled == Signalled(t, ids, sess)
<1> HIDE DEF s
<1>7. /\ page = (phone[t] - k + 1) .. (phone[t] - s.off)
      /\ Cardinality(page) = IF k > s.off THEN k - s.off ELSE 0
      /\ page # {} <=> k > s.off
      /\ page \in SUBSET (1 .. phone[t])
      /\ Newest(t, k) \in SUBSET (1 .. phone[t])
  BY <1>1, <1>5, <1>6, PageInterval
<1>8. ids \in SUBSET Ids
  BY <1>5, <1>7, SyncAssumption DEF Ids
<1> HIDE DEF page
<1>9. last <=> anchor[t] = 0 \/ anchor[t] \in page \/ k <= s.off
  BY <1>1, <1>6, <1>7 DEF EndsAt
<1> HIDE DEF ids, last
<1>10. /\ signalled \in [Gens -> SessType]
       /\ \A h \in Gens :
            /\ signalled[h].pc = sess[h].pc /\ signalled[h].cancelled = sess[h].cancelled
            /\ signalled[h].ref = sess[h].ref /\ signalled[h].todo = sess[h].todo
            /\ signalled[h].cur = sess[h].cur
            /\ signalled[h].off = sess[h].off /\ signalled[h].low = sess[h].low
            /\ sess[h].pc # "run" => signalled[h] = sess[h]
  BY <1>8, SignalledStream
<1> HIDE DEF signalled
<1>11. PICK r \in SessType :
         /\ r = signalled[g]
         /\ r.pc = s.pc /\ r.todo = s.todo /\ r.cur = s.cur
         /\ r.off = s.off /\ r.low = s.low
  BY <1>10 DEF s
<1>12. /\ rows' = [rows EXCEPT ![t] = @ \cup page]
       /\ \/ /\ sess' = [signalled EXCEPT
                  ![g].off = @ + Cardinality(page),
                  ![g].low = IF page = {} THEN @ ELSE phone[t] - k + 1,
                  ![g].ref = IF last THEN "save" ELSE "page"]
             /\ lock' = lock
          \/ GiveUp(g, signalled)
  BY <1>3, Zenon DEF Answered, Merged, s, page, last, signalled, ids
<1>13. CASE sess' = [signalled EXCEPT
              ![g].off = @ + Cardinality(page),
              ![g].low = IF page = {} THEN @ ELSE phone[t] - k + 1,
              ![g].ref = IF last THEN "save" ELSE "page"] /\ lock' = lock
  <2>1. PICK off \in 0 .. MaxPhone :
          /\ off = IF k > s.off THEN k ELSE s.off
          /\ off = s.off + Cardinality(page)
    BY <1>1, <1>5, <1>6, <1>7, SyncAssumption DEF SessType
  <2>2. PICK low \in 0 .. MaxPhone :
          /\ low = IF k > s.off THEN phone[t] - k + 1 ELSE s.low
          /\ low = IF page = {} THEN s.low ELSE phone[t] - k + 1
    BY <1>1, <1>5, <1>6, <1>7, SyncAssumption DEF SessType
  <2>3. PICK ref \in {"save", "page"} : ref = IF last THEN "save" ELSE "page"
    OBVIOUS
  <2> DEFINE w == [r EXCEPT !.off = off, !.low = low, !.ref = ref]
  <2>4. sess' = [signalled EXCEPT ![g] = w]
    BY <1>10, <1>11, <1>13, <2>1, <2>2, <2>3
  <2>5. /\ w \in SessType
        /\ w.pc = s.pc /\ w.todo = s.todo /\ w.cur = s.cur
        /\ w.off = off /\ w.low = low /\ w.ref = ref
    BY <1>11 DEF SessType
  <2> HIDE DEF w
  <2>6. /\ sess' \in [Gens -> SessType] /\ sess'[g] = w
        /\ \A h \in Gens \ {g} : sess'[h] = signalled[h]
    BY <1>10, <2>4, <2>5
  <2>7. PageEffect(g, t, k)
    BY <1>2, <1>4, <1>6, <1>7, <1>9, <1>10, <1>12, <1>13, <2>1, <2>2, <2>3, <2>5, <2>6
       DEF PageEffect, s
  <2> QED
    BY <1>6, <2>7
<1>14. CASE GiveUp(g, signalled)
  <2>1. PICK w \in SessType : w = Failed(r) /\ w.ref = "failed" /\ w.pc = s.pc
    <3> DEFINE v == [r EXCEPT !.ref = "failed", !.todo = {}, !.cur = None,
                              !.off = 0, !.low = 0]
    <3>1. 0 \in 0 .. MaxPhone /\ {} \in SUBSET Events /\ None \in Events \cup {None}
      BY SyncAssumption
    <3>2. v \in SessType /\ v.ref = "failed" /\ v.pc = r.pc
      BY <1>11, <3>1 DEF SessType
    <3> QED
      BY <1>11, <3>2 DEF Failed
  <2>2. lock' = 0 /\ sess' = [signalled EXCEPT ![g] = w]
    BY <1>10, <1>11, <1>14, <2>1 DEF GiveUp
  <2>3. /\ sess' \in [Gens -> SessType] /\ sess'[g] = w
        /\ \A h \in Gens \ {g} : sess'[h] = signalled[h]
    BY <1>10, <2>1, <2>2
  <2>4. PageEffect(g, t, k)
    BY <1>2, <1>4, <1>6, <1>7, <1>10, <1>12, <2>1, <2>2, <2>3 DEF PageEffect, s
  <2> QED
    BY <1>6, <2>4
<1> QED
  BY <1>12, <1>13, <1>14

-----------------------------------------------------------------------------
(* What the steps of a session's goroutines do to it. *)

\* Session g, and no other, becomes w.
Becomes(g, w) == w \in SessType /\ sess' = [sess EXCEPT ![g] = w]

\* The refresh of the session is where it was.
SameRefresh(s, w) ==
  /\ w.ref = s.ref /\ w.todo = s.todo /\ w.cur = s.cur
  /\ w.off = s.off /\ w.low = s.low

\* The places of a session that has no refresh.
Away == {"none", "dial", "wait", "over"}

\* The session goroutine leaves a refresh alone that is at work: it starts one
\* where it had none and drops one that returned.
LEMMA SessionDoes ==
  ASSUME sess \in [Gens -> SessType], NEW g \in Gens, Session(g)
  PROVE  /\ sess[g].pc # "none"
         /\ \E w : /\ Becomes(g, w)
                   /\ \/ SameRefresh(sess[g], w) /\ (w.pc \in Away => sess[g].pc \in Away)
                      \/ w.ref = "idle" /\ Returned(sess[g])
                      \/ w.ref = "lock" /\ w.pc = "run" /\ sess[g].pc = "dial"
<1>1. PICK r \in SessType : r = sess[g]
  OBVIOUS
<1>2. CASE Dial(g)
  <2> DEFINE v == [Idle EXCEPT !.pc = "run", !.ref = "lock"]
             w == [r EXCEPT !.pc = "wait"]
  <2>1. v \in SessType /\ v.ref = "lock" /\ v.pc = "run"
    BY IdleType DEF SessType
  <2>2. w \in SessType /\ SameRefresh(r, w)
    BY <1>1 DEF SessType, SameRefresh
  <2>4. sess[g].pc = "dial" /\ (sess' = [sess EXCEPT ![g] = v] \/ sess' = [sess EXCEPT ![g] = w])
    BY <1>1, <1>2, Zenon DEF Dial
  <2> HIDE DEF v, w
  <2> QED
    BY <1>1, <2>1, <2>2, <2>4 DEF Becomes, Away
<1>3. ASSUME NEW e \in Events, Deliver(g, e)
      PROVE  /\ sess[g].pc = "run"
             /\ \E w : Becomes(g, w) /\ SameRefresh(sess[g], w) /\ w.pc \in {"run", "stop"}
  <2>1. PICK lost \in {{}, {e}} : sess[g].pc = "run" /\ Emitted(g, e, lost)
    BY <1>3 DEF Deliver
  <2> DEFINE v == [r EXCEPT !.stream = @ \ {e}, !.refused = @ \cup lost]
             u == [r EXCEPT !.stream = @ \ {e}]
             w == [r EXCEPT !.stream = {}, !.pc = "stop"]
  <2>2. /\ v \in SessType /\ SameRefresh(r, v) /\ v.pc = r.pc
        /\ u \in SessType /\ SameRefresh(r, u) /\ u.pc = r.pc
    BY <1>1 DEF SessType, SameRefresh
  <2>3. w \in SessType /\ SameRefresh(r, w) /\ w.pc = "stop"
    BY <1>1 DEF SessType, SameRefresh
  <2>4. \/ sess' = [sess EXCEPT ![g] = v] \/ sess' = [sess EXCEPT ![g] = u]
        \/ sess' = [sess EXCEPT ![g] = w]
    BY <1>1, <2>1 DEF Emitted
  <2> HIDE DEF v, u, w
  <2> QED
    BY <1>1, <2>1, <2>2, <2>3, <2>4 DEF Becomes
<1>4. CASE Leave(g)
  <2> DEFINE w == [r EXCEPT !.pc = "stop", !.stream = {}, !.refused = {}]
  <2>1. w \in SessType /\ SameRefresh(r, w) /\ w.pc = "stop"
    BY <1>1 DEF SessType, SameRefresh
  <2>2. sess[g].pc = "run" /\ sess' = [sess EXCEPT ![g] = w]
    BY <1>1, <1>4 DEF Leave
  <2> HIDE DEF w
  <2> QED
    BY <1>1, <2>1, <2>2 DEF Becomes, Away
<1>5. CASE Joined(g)
  <2> DEFINE pc == IF r.cancelled THEN "over" ELSE "wait"
             w == [r EXCEPT !.pc = pc, !.ref = "idle"]
  <2>1. w \in SessType /\ w.ref = "idle"
    BY <1>1 DEF SessType
  <2>2. sess[g].pc = "stop" /\ Returned(sess[g]) /\ sess' = [sess EXCEPT ![g] = w]
    BY <1>1, <1>5 DEF Joined
  <2> HIDE DEF w
  <2> QED
    BY <2>1, <2>2 DEF Becomes
<1>6. CASE Wake(g)
  <2> DEFINE pc == IF r.cancelled THEN "over" ELSE "dial"
             w == [r EXCEPT !.pc = pc]
  <2>1. w \in SessType /\ SameRefresh(r, w)
    BY <1>1 DEF SessType, SameRefresh
  <2>2. sess[g].pc \in {"wait", "dial"} /\ sess' = [sess EXCEPT ![g] = w]
    BY <1>1, <1>6 DEF Wake
  <2> HIDE DEF w
  <2> QED
    BY <1>1, <2>1, <2>2 DEF Becomes, Away
<1> QED
  BY <1>2, <1>3, <1>4, <1>5, <1>6 DEF Session, Away

\* A refresh that gives up unlocks the engine.
LEMMA GiveUpDoes ==
  ASSUME NEW g \in Gens, sess \in [Gens -> SessType], GiveUp(g, sess)
  PROVE  /\ lock' = 0
         /\ \E w : Becomes(g, w) /\ w.ref = "failed" /\ w.pc = sess[g].pc
<1>1. PICK r \in SessType : r = sess[g]
  OBVIOUS
<1> DEFINE w == [r EXCEPT !.ref = "failed", !.todo = {}, !.cur = None, !.off = 0, !.low = 0]
<1>2. 0 \in 0 .. MaxPhone /\ {} \in SUBSET Events /\ None \in Events \cup {None}
  BY SyncAssumption
<1>3. w \in SessType /\ w.ref = "failed" /\ w.pc = r.pc
  BY <1>1, <1>2 DEF SessType
<1>4. lock' = 0 /\ sess' = [sess EXCEPT ![g] = w]
  BY <1>1 DEF GiveUp, Failed
<1> QED
  BY <1>1, <1>3, <1>4 DEF Becomes

\* The engine's mutex is taken before the first call and released after the last.
LEMMA LockDoes ==
  ASSUME sess \in [Gens -> SessType], NEW g \in Gens
  PROVE  /\ Acquire(g) =>
              \E w : Becomes(g, w) /\ w.ref = "threads" /\ w.pc = sess[g].pc
         /\ RefreshDone(g) =>
              \E w : Becomes(g, w) /\ w.ref = "done" /\ w.pc = sess[g].pc
<1>1. PICK r \in SessType : r = sess[g]
  OBVIOUS
<1> DEFINE v == [r EXCEPT !.ref = "threads"]
           w == [r EXCEPT !.ref = "done"]
<1>2. v \in SessType /\ v.ref = "threads" /\ v.pc = r.pc
  BY <1>1 DEF SessType
<1>3. w \in SessType /\ w.ref = "done" /\ w.pc = r.pc
  BY <1>1 DEF SessType
<1>4. /\ Acquire(g) => sess' = [sess EXCEPT ![g] = v]
      /\ RefreshDone(g) => sess' = [sess EXCEPT ![g] = w]
  BY <1>1 DEF Acquire, RefreshDone
<1> HIDE DEF v, w
<1> QED
  BY <1>1, <1>2, <1>3, <1>4 DEF Becomes

LEMMA ReadThreadsDoes ==
  ASSUME TypeOK, NEW g \in Gens, ReadThreads(g)
  PROVE  \E w : Becomes(g, w) /\ w.ref = "check" /\ w.todo = Reported /\ w.pc = sess[g].pc
<1>0. sess \in [Gens -> SessType] /\ phone \in [Threads -> 0 .. MaxPhone]
  BY DEF TypeOK, SessType
<1>1. PICK r \in SessType : r = sess[g]
  BY <1>0
<1>2. Reported \in SUBSET Events
  BY <1>0, SyncAssumption DEF Reported, Events, Ids
<1> DEFINE w == [r EXCEPT !.ref = "check", !.todo = Reported]
<1>3. w \in SessType /\ w.ref = "check" /\ w.todo = Reported /\ w.pc = r.pc
  BY <1>1, <1>2 DEF SessType
<1>4. sess' = [sess EXCEPT ![g] = w]
  BY <1>1 DEF ReadThreads
<1> HIDE DEF w
<1> QED
  BY <1>1, <1>3, <1>4 DEF Becomes

\* The head of the loop takes one conversation off the list, and pages through
\* it unless its watermark is the newest message the phone reported.
LEMMA NextThreadDoes ==
  ASSUME sess \in [Gens -> SessType], NEW g \in Gens, NextThread(g)
  PROVE  \E e \in sess[g].todo : \E w :
           /\ Becomes(g, w) /\ w.pc = sess[g].pc /\ w.todo = sess[g].todo \ {e}
           /\ \/ w.ref = "check"
              \/ w.ref = "page" /\ w.cur = e /\ w.off = 0 /\ w.low = 0
<1>1. PICK r \in SessType : r = sess[g]
  OBVIOUS
<1>2. PICK e \in r.todo :
        \/ sess' = [sess EXCEPT ![g] = [r EXCEPT !.todo = @ \ {e}]]
        \/ sess' = [sess EXCEPT ![g] =
             [[r EXCEPT !.todo = @ \ {e}] EXCEPT !.ref = "page", !.cur = e, !.off = 0, !.low = 0]]
  BY <1>1, Zenon DEF NextThread
<1>3. e \in Events /\ r.ref = "check" /\ 0 \in 0 .. MaxPhone
  BY <1>1, SyncAssumption DEF NextThread, Ref, SessType
<1> DEFINE v == [r EXCEPT !.todo = @ \ {e}]
           w == [v EXCEPT !.ref = "page", !.cur = e, !.off = 0, !.low = 0]
<1>4. v \in SessType /\ v.pc = r.pc /\ v.todo = r.todo \ {e} /\ v.ref = "check"
  BY <1>1, <1>3 DEF SessType
<1>5. /\ w \in SessType /\ w.pc = r.pc /\ w.todo = r.todo \ {e}
      /\ w.ref = "page" /\ w.cur = e /\ w.off = 0 /\ w.low = 0
  <2> HIDE DEF v
  <2> QED
    BY <1>3, <1>4 DEF SessType
<1>6. sess' = [sess EXCEPT ![g] = v] \/ sess' = [sess EXCEPT ![g] = w]
  BY <1>2
<1> HIDE DEF v, w
<1>7. Becomes(g, v) \/ Becomes(g, w)
  BY <1>4, <1>5, <1>6 DEF Becomes
<1> QED
  BY <1>1, <1>4, <1>5, <1>7

\* Saving moves one watermark to the newest message Threads() reported.
LEMMA SaveDoes ==
  ASSUME sess \in [Gens -> SessType], NEW g \in Gens, Save(g)
  PROVE  /\ \E w : Becomes(g, w) /\ w.ref = "check" /\ w.pc = sess[g].pc
                   /\ w.todo = sess[g].todo
         /\ sess[g].ref = "save"
         /\ sess[g].cur[1] \in Threads
         /\ anchor' = [anchor EXCEPT ![sess[g].cur[1]] = sess[g].cur[2]]
         /\ base' = [base EXCEPT ![sess[g].cur[1]] = IF @ = 0 THEN sess[g].low ELSE @]
<1>1. PICK r \in SessType : r = sess[g]
  OBVIOUS
<1> DEFINE w == [r EXCEPT !.ref = "check", !.cur = None, !.off = 0, !.low = 0]
<1>2. 0 \in 0 .. MaxPhone /\ None \in Events \cup {None}
  BY SyncAssumption
<1>3. w \in SessType /\ w.ref = "check" /\ w.pc = r.pc /\ w.todo = r.todo
  BY <1>1, <1>2 DEF SessType
<1>4. sess' = [sess EXCEPT ![g] = w]
  BY <1>1 DEF Save
<1> HIDE DEF w
<1>5. \E x : Becomes(g, x) /\ x.ref = "check" /\ x.pc = sess[g].pc /\ x.todo = sess[g].todo
  BY <1>1, <1>3, <1>4 DEF Becomes
<1> QED
  BY <1>5 DEF Save, Ref

LEMMA StartDoes ==
  ASSUME sess \in [Gens -> SessType], gen \in Nat, StartSession
  PROVE  /\ sess' \in [Gens -> SessType]
         /\ \A g \in Gens :
              /\ g = gen + 1 => sess'[g].pc = "dial" /\ SameRefresh(Idle, sess'[g])
              /\ g # gen + 1 => sess'[g].pc = sess[g].pc /\ SameRefresh(sess[g], sess'[g])
              /\ g > gen + 1 => sess'[g] = sess[g]
<1> DEFINE v == [Idle EXCEPT !.pc = "dial"]
           w(g) == [sess[g] EXCEPT !.cancelled = TRUE, !.refused = {}]
<1>1. v \in SessType /\ v.pc = "dial" /\ SameRefresh(Idle, v)
  BY IdleType DEF SessType, SameRefresh
<1>2. ASSUME NEW g \in Gens
      PROVE  w(g) \in SessType /\ w(g).pc = sess[g].pc /\ SameRefresh(sess[g], w(g))
  <2>1. PICK r \in SessType : r = sess[g]
    OBVIOUS
  <2>2. /\ [r EXCEPT !.cancelled = TRUE, !.refused = {}] \in SessType
        /\ [r EXCEPT !.cancelled = TRUE, !.refused = {}].pc = r.pc
        /\ SameRefresh(r, [r EXCEPT !.cancelled = TRUE, !.refused = {}])
    BY DEF SessType, SameRefresh
  <2> QED
    BY <2>1, <2>2
<1>3. sess' = [g \in Gens |-> IF g = gen + 1 THEN v ELSE IF g = gen THEN w(g) ELSE sess[g]]
  BY DEF StartSession
<1>4. \A g \in Gens : SameRefresh(sess[g], sess[g])
  BY DEF SameRefresh
<1> HIDE DEF v, w
<1> QED
  BY <1>1, <1>2, <1>3, <1>4 DEF Gens

-----------------------------------------------------------------------------
(* Types are kept. *)

\* A refresh that works on a conversation has one.
TInv == TypeOK /\ \A g \in Gens : Busy(g) => sess[g].cur \in Events

LEMMA TypeInit == Init => TInv
<1> SUFFICES ASSUME Init PROVE TInv
  OBVIOUS
<1>1. TypeOK
  BY SyncAssumption, IdleType DEF Init, TypeOK, SessType
<1>2. \A g \in Gens : ~Busy(g)
  BY DEF Init, Idle, Busy
<1> QED
  BY <1>1, <1>2 DEF TInv

LEMMA TypeStep == TInv /\ [Next]_vars => TInv'
<1> SUFFICES ASSUME TInv, [Next]_vars PROVE TInv'
  OBVIOUS
<1> DEFINE SessOK == /\ sess' \in [Gens -> SessType]
                     /\ \A g \in Gens : sess'[g].ref \in {"page", "save"} =>
                          sess'[g].cur \in Events
           RestOK == /\ phone' \in [Threads -> 0 .. MaxPhone]
                     /\ rows' \in [Threads -> SUBSET Ids]
                     /\ anchor' \in [Threads -> 0 .. MaxPhone]
                     /\ base' \in [Threads -> 0 .. MaxPhone]
                     /\ gen' \in 0 .. MaxGen /\ lock' \in 0 .. MaxGen
                     /\ faults' \in 0 .. MaxFaults
<1>1. /\ sess \in [Gens -> SessType]
      /\ phone \in [Threads -> 0 .. MaxPhone] /\ rows \in [Threads -> SUBSET Ids]
      /\ anchor \in [Threads -> 0 .. MaxPhone] /\ base \in [Threads -> 0 .. MaxPhone]
      /\ gen \in 0 .. MaxGen /\ lock \in 0 .. MaxGen /\ faults \in 0 .. MaxFaults
      /\ \A g \in Gens : sess[g].ref \in {"page", "save"} => sess[g].cur \in Events
      /\ TypeOK
  BY DEF TInv, TypeOK, SessType, Busy
<1>2. ASSUME NEW g \in Gens, NEW w, Becomes(g, w),
             w.ref \in {"page", "save"} => w.cur \in Events
      PROVE  SessOK
  BY <1>1, <1>2 DEF Becomes
<1>3. Fault => faults' \in 0 .. MaxFaults
  BY <1>1, SyncAssumption DEF Fault
<1>4. ASSUME NEW t \in Threads, Arrive(t) PROVE SessOK /\ RestOK
  <2>1. {phone[t] + 1} \in SUBSET Ids
    BY <1>1, <1>4, SyncAssumption DEF Arrive, Ids
  <2>2. SessOK
    BY <1>1, <1>4, <2>1, SignalledStream DEF Arrive
  <2>3. phone' \in [Threads -> 0 .. MaxPhone]
    BY <1>1, <1>4, SyncAssumption DEF Arrive
  <2> QED
    BY <1>1, <1>4, <2>2, <2>3 DEF Arrive
<1>5. ASSUME StartSession PROVE SessOK /\ RestOK
  <2>1. SessOK
    BY <1>1, <1>5, StartDoes, SyncAssumption DEF SameRefresh, Idle
  <2>2. /\ gen < MaxGen /\ gen' = gen + 1
        /\ UNCHANGED <<phone, rows, anchor, base, lock, faults>>
    BY <1>5, Zenon DEF StartSession
  <2> QED
    BY <1>1, <2>1, <2>2, SyncAssumption
<1>6. ASSUME NEW g \in Gens, Session(g) PROVE SessOK /\ RestOK
  <2>1. PICK w : /\ Becomes(g, w)
                 /\ SameRefresh(sess[g], w) \/ w.ref \in {"idle", "lock"}
    BY <1>1, <1>6, SessionDoes
  <2>2. SessOK
    BY <1>1, <1>2, <2>1 DEF SameRefresh
  <2>3. rows' \in [Threads -> SUBSET Ids]
    <3>1. CASE UNCHANGED rows
      BY <1>1, <3>1
    <3>2. ASSUME NEW e \in Events, Deliver(g, e) PROVE rows' \in [Threads -> SUBSET Ids]
      BY <1>1, <3>2 DEF Deliver, Merged, Events
    <3> QED
      BY <1>6, <3>1, <3>2 DEF Session, Dial, Leave, Joined, Wake
  <2>4. faults' \in 0 .. MaxFaults
    BY <1>1, <1>3, <1>6 DEF Session, Dial, Leave, Joined, Wake, Deliver
  <2> QED
    BY <1>1, <1>6, <2>2, <2>3, <2>4 DEF Session, Dial, Leave, Joined, Wake, Deliver
<1>7. ASSUME NEW g \in Gens, Acquire(g) \/ RefreshDone(g) PROVE SessOK /\ RestOK
  <2>1. SessOK
    BY <1>1, <1>2, <1>7, LockDoes
  <2> QED
    BY <1>1, <1>7, <2>1, SyncAssumption DEF Acquire, RefreshDone, Quiet, Gens
<1>8. ASSUME NEW g \in Gens, ReadThreads(g) PROVE SessOK /\ RestOK
  <2>1. SessOK
    BY <1>1, <1>2, <1>8, ReadThreadsDoes
  <2> QED
    BY <1>1, <1>8, <2>1 DEF ReadThreads, Quiet
<1>9. ASSUME NEW g \in Gens, NextThread(g) PROVE SessOK /\ RestOK
  <2>1. PICK e \in sess[g].todo : \E w :
          Becomes(g, w) /\ (w.ref = "check" \/ (w.ref = "page" /\ w.cur = e))
    BY <1>1, <1>9, NextThreadDoes
  <2>2. e \in Events
    BY <1>1 DEF SessType
  <2>3. SessOK
    BY <1>2, <2>1, <2>2
  <2> QED
    BY <1>1, <1>9, <2>3 DEF NextThread, Quiet
<1>10. ASSUME NEW g \in Gens, Page(g) PROVE SessOK /\ RestOK
  <2>1. PICK t \in Threads : \E k \in 0 .. phone[t] : PageEffect(g, t, k)
    BY <1>1, <1>10, PageDoes
  <2>2. PICK k \in 0 .. phone[t] : PageEffect(g, t, k)
    BY <2>1
  <2>3. rows' \in [Threads -> SUBSET Ids]
    BY <1>1, <2>2, SyncAssumption DEF PageEffect, Ids
  <2>4. SessOK /\ (lock' = 0 \/ lock' = lock)
    BY <1>1, <2>2 DEF PageEffect
  <2>5. faults' = faults \/ Fault
    BY <1>10 DEF Page
  <2>6. lock' \in 0 .. MaxGen /\ faults' \in 0 .. MaxFaults
    BY <1>1, <1>3, <2>4, <2>5, SyncAssumption
  <2> QED
    BY <1>1, <1>10, <2>3, <2>4, <2>6 DEF Page, Quiet
<1>11. ASSUME NEW g \in Gens, Save(g) PROVE SessOK /\ RestOK
  <2>1. SessOK
    BY <1>1, <1>2, <1>11, SaveDoes
  <2>2. sess[g].cur \in Events /\ sess[g].low \in 0 .. MaxPhone
    BY <1>1, <1>11, SaveDoes DEF SessType
  <2>3. sess[g].cur[2] \in 0 .. MaxPhone
    BY <2>2, SyncAssumption DEF Events, Ids
  <2>4. anchor' \in [Threads -> 0 .. MaxPhone] /\ base' \in [Threads -> 0 .. MaxPhone]
    BY <1>1, <1>11, <2>2, <2>3, SaveDoes
  <2> QED
    BY <1>1, <1>11, <2>1, <2>4 DEF Save, Quiet
<1>12. ASSUME NEW g \in Gens, CallFails(g) PROVE SessOK /\ RestOK
  <2>1. SessOK /\ lock' = 0
    BY <1>1, <1>2, <1>12, GiveUpDoes DEF CallFails
  <2> QED
    BY <1>1, <1>3, <1>12, <2>1, SyncAssumption DEF CallFails, Quiet
<1>13. ASSUME UNCHANGED vars PROVE SessOK /\ RestOK
  BY <1>1, <1>13 DEF vars
<1>14. SessOK /\ RestOK
  BY <1>4, <1>5, <1>6, <1>7, <1>8, <1>9, <1>10, <1>11, <1>12, <1>13 DEF Next, Refresh
<1> QED
  BY <1>14 DEF TInv, TypeOK, SessType, Busy

-----------------------------------------------------------------------------
(* The mutex keeps the refreshes apart. *)

LEMMA OneRefreshInit == Init => OneRefresh
BY SyncAssumption DEF Init, OneRefresh, Idle, Working, Gens

\* A step of one session: it was started, it has no refresh while it is away,
\* and no session gets the mutex or loses it but the one whose refresh says so.
LEMMA OneRefreshKept ==
  ASSUME sess \in [Gens -> SessType], OneRefresh, NEW g \in Gens, NEW w, Becomes(g, w),
         gen' = gen, sess[g] # Idle,
         w.pc \in Away => w.ref = "idle",
         w.ref \in Working <=> lock' = g,
         \A h \in Gens \ {g} : lock' = h <=> lock = h
  PROVE  OneRefresh'
<1>1. sess'[g] = w /\ \A h \in Gens \ {g} : sess'[h] = sess[h]
  BY DEF Becomes
<1>2. (\A h \in Gens : sess[h].ref \in Working <=> lock = h)'
  BY <1>1 DEF OneRefresh
<1>3. (\A h \in Gens : sess[h].pc \in {"none", "dial", "wait", "over"} => sess[h].ref = "idle")'
  BY <1>1 DEF OneRefresh, Away
<1>4. (\A h \in Gens : h > gen => sess[h] = Idle)'
  BY <1>1 DEF OneRefresh
<1> QED
  BY <1>2, <1>3, <1>4 DEF OneRefresh

LEMMA OneRefreshStep == TInv /\ OneRefresh /\ [Next]_vars => OneRefresh'
<1> SUFFICES ASSUME TInv, OneRefresh, [Next]_vars PROVE OneRefresh'
  OBVIOUS
<1>1. /\ sess \in [Gens -> SessType] /\ gen \in Nat /\ TypeOK
      /\ phone \in [Threads -> 0 .. MaxPhone]
  BY SyncAssumption DEF TInv, TypeOK, SessType
<1>2. Idle.pc = "none" /\ Idle.ref = "idle" /\ 0 \notin Gens
  BY DEF Idle, Gens
<1>3. \A g \in Gens : sess[g].ref \in Working <=> lock = g
  BY DEF OneRefresh
<1>4. ASSUME NEW t \in Threads, Arrive(t) PROVE OneRefresh'
  <2>1. {phone[t] + 1} \in SUBSET Ids
    BY <1>1, <1>4, SyncAssumption DEF Arrive, Ids
  <2>2. \A g \in Gens : /\ sess'[g].pc = sess[g].pc /\ sess'[g].ref = sess[g].ref
                        /\ sess[g].pc # "run" => sess'[g] = sess[g]
    BY <1>1, <1>4, <2>1, SignalledStream DEF Arrive
  <2> QED
    BY <1>2, <1>4, <2>2 DEF Arrive, OneRefresh
<1>5. ASSUME StartSession PROVE OneRefresh'
  <2>1. gen' = gen + 1 /\ lock' = lock
    BY <1>5 DEF StartSession
  <2>2. \A g \in Gens : /\ g = gen + 1 => sess'[g].pc = "dial" /\ SameRefresh(Idle, sess'[g])
                        /\ g # gen + 1 => sess'[g].pc = sess[g].pc /\ SameRefresh(sess[g], sess'[g])
                        /\ g > gen + 1 => sess'[g] = sess[g]
    BY <1>1, <1>5, StartDoes
  <2>3. \A g \in Gens : sess'[g].ref = sess[g].ref
    BY <1>1, <1>2, <2>2 DEF OneRefresh, SameRefresh, Gens
  <2>4. (\A g \in Gens : sess[g].ref \in Working <=> lock = g)'
    BY <2>1, <2>3 DEF OneRefresh
  <2>5. (\A g \in Gens : sess[g].pc \in {"none", "dial", "wait", "over"} => sess[g].ref = "idle")'
    BY <1>2, <2>2, <2>3 DEF OneRefresh, SameRefresh
  <2>6. (\A g \in Gens : g > gen => sess[g] = Idle)'
    BY <1>1, <2>1, <2>2 DEF OneRefresh, Gens
  <2> QED
    BY <2>4, <2>5, <2>6 DEF OneRefresh
<1>6. ASSUME NEW g \in Gens, Session(g) PROVE OneRefresh'
  <2>1. gen' = gen /\ lock' = lock
    BY <1>6 DEF Session, Dial, Leave, Joined, Wake, Deliver
  <2>2. sess[g].pc # "none"
    BY <1>1, <1>6, SessionDoes
  <2>3. PICK w : /\ Becomes(g, w)
                 /\ \/ SameRefresh(sess[g], w) /\ (w.pc \in Away => sess[g].pc \in Away)
                    \/ w.ref = "idle" /\ Returned(sess[g])
                    \/ w.ref = "lock" /\ w.pc = "run" /\ sess[g].pc = "dial"
    BY <1>1, <1>6, SessionDoes
  <2>4. w.pc \in Away => w.ref = "idle"
    BY <2>3 DEF OneRefresh, SameRefresh, Away
  <2>5. w.ref \in Working <=> sess[g].ref \in Working
    BY <2>3 DEF OneRefresh, SameRefresh, Returned, Working
  <2> QED
    BY <1>1, <1>2, <1>3, <2>1, <2>2, <2>3, <2>4, <2>5, OneRefreshKept
<1>7. ASSUME NEW g \in Gens, Acquire(g) PROVE OneRefresh'
  <2>1. PICK w : Becomes(g, w) /\ w.ref = "threads" /\ w.pc = sess[g].pc
    BY <1>1, <1>7, LockDoes
  <2>2. gen' = gen /\ lock = 0 /\ lock' = g /\ sess[g].ref = "lock"
    BY <1>7 DEF Acquire, Quiet, Ref
  <2>3. w.pc \notin Away
    BY <2>1, <2>2 DEF OneRefresh, Away
  <2> QED
    BY <1>1, <1>2, <2>1, <2>2, <2>3, OneRefreshKept DEF Working
<1>8. ASSUME NEW g \in Gens, sess[g].ref \in Working, gen' = gen, NEW w, Becomes(g, w),
             w.pc = sess[g].pc, w.ref \in Working, lock' = lock
      PROVE  OneRefresh'
  <2>1. w.pc \notin Away /\ sess[g] # Idle
    BY <1>2, <1>8 DEF OneRefresh, Away, Working
  <2> QED
    BY <1>1, <1>3, <1>8, <2>1, OneRefreshKept
<1>9. ASSUME NEW g \in Gens, sess[g].ref \in Working, gen' = gen, NEW w, Becomes(g, w),
             w.pc = sess[g].pc, w.ref \in {"done", "failed"}, lock' = 0
      PROVE  OneRefresh'
  <2>1. w.pc \notin Away /\ sess[g] # Idle /\ lock = g
    BY <1>2, <1>9 DEF OneRefresh, Away, Working
  <2>2. w.ref \notin Working /\ lock' # g /\ \A h \in Gens \ {g} : lock' # h /\ lock # h
    BY <1>2, <1>9, <2>1 DEF Working
  <2> QED
    BY <1>1, <1>9, <2>1, <2>2, OneRefreshKept
<1>10. ASSUME NEW g \in Gens, ReadThreads(g) PROVE OneRefresh'
  <2>1. sess[g].ref \in Working /\ gen' = gen /\ lock' = lock
    BY <1>10 DEF ReadThreads, Ref, Quiet, Working
  <2>2. PICK w : Becomes(g, w) /\ w.ref \in Working /\ w.pc = sess[g].pc
    BY <1>1, <1>10, ReadThreadsDoes DEF Working
  <2> QED
    BY <1>8, <2>1, <2>2
<1>11. ASSUME NEW g \in Gens, NextThread(g) PROVE OneRefresh'
  <2>1. sess[g].ref \in Working /\ gen' = gen /\ lock' = lock
    BY <1>11 DEF NextThread, Ref, Quiet, Working
  <2>2. PICK w : Becomes(g, w) /\ w.ref \in Working /\ w.pc = sess[g].pc
    BY <1>1, <1>11, NextThreadDoes DEF Working
  <2> QED
    BY <1>8, <2>1, <2>2
<1>12. ASSUME NEW g \in Gens, Save(g) PROVE OneRefresh'
  <2>1. sess[g].ref \in Working /\ gen' = gen /\ lock' = lock
    BY <1>12 DEF Save, Ref, Quiet, Working
  <2>2. PICK w : Becomes(g, w) /\ w.ref \in Working /\ w.pc = sess[g].pc
    BY <1>1, <1>12, SaveDoes DEF Working
  <2> QED
    BY <1>8, <2>1, <2>2
<1>13. ASSUME NEW g \in Gens, RefreshDone(g) PROVE OneRefresh'
  <2>1. sess[g].ref \in Working /\ gen' = gen /\ lock' = 0
    BY <1>13 DEF RefreshDone, Ref, Quiet, Working
  <2>2. PICK w : Becomes(g, w) /\ w.ref = "done" /\ w.pc = sess[g].pc
    BY <1>1, <1>13, LockDoes
  <2> QED
    BY <1>9, <2>1, <2>2
<1>14. ASSUME NEW g \in Gens, CallFails(g) PROVE OneRefresh'
  <2>1. sess[g].ref \in Working /\ gen' = gen
    BY <1>14 DEF CallFails, Quiet, Working
  <2>2. lock' = 0 /\ \E w : Becomes(g, w) /\ w.ref = "failed" /\ w.pc = sess[g].pc
    BY <1>1, <1>14, GiveUpDoes DEF CallFails
  <2> QED
    BY <1>9, <2>1, <2>2
<1>15. ASSUME NEW g \in Gens, Page(g) PROVE OneRefresh'
  <2>1. PICK t \in Threads : \E k \in 0 .. phone[t] : PageEffect(g, t, k)
    BY <1>1, <1>15, PageDoes
  <2>2. PICK k \in 0 .. phone[t] : PageEffect(g, t, k)
    BY <2>1
  <2>3. /\ sess[g].ref = "page" /\ gen' = gen /\ sess'[g].pc = sess[g].pc
        /\ \A h \in Gens \ {g} : /\ sess'[h].pc = sess[h].pc /\ sess'[h].ref = sess[h].ref
                                 /\ sess[h].pc # "run" => sess'[h] = sess[h]
        /\ \/ lock' = lock /\ sess'[g].ref \in {"save", "page"}
           \/ lock' = 0 /\ sess'[g].ref = "failed"
    BY <1>15, <2>2 DEF PageEffect, Page, Quiet
  <2>4. lock = g /\ sess[g].pc \notin {"none", "dial", "wait", "over"} /\ ~(g > gen)
    BY <1>2, <2>3 DEF OneRefresh, Working
  <2>5. (\A h \in Gens : sess[h].ref \in Working <=> lock = h)'
    BY <1>2, <1>3, <2>3, <2>4 DEF Working
  <2>6. (\A h \in Gens : sess[h].pc \in {"none", "dial", "wait", "over"} => sess[h].ref = "idle")'
    BY <2>3, <2>4 DEF OneRefresh
  <2>7. (\A h \in Gens : h > gen => sess[h] = Idle)'
    BY <1>2, <2>3, <2>4 DEF OneRefresh
  <2> QED
    BY <2>5, <2>6, <2>7 DEF OneRefresh
<1>16. ASSUME UNCHANGED vars PROVE OneRefresh'
  BY <1>16 DEF vars, OneRefresh
<1> QED
  BY <1>4, <1>5, <1>6, <1>7, <1>10, <1>11, <1>12, <1>13, <1>14, <1>15, <1>16
     DEF Next, Refresh

-----------------------------------------------------------------------------
(* What is left to do lies between the watermarks and the phone. *)

LEMMA WorkListInit == Init => WorkList
<1> SUFFICES ASSUME Init PROVE WorkList
  OBVIOUS
<1>1. \A g \in Gens : Work(sess[g])
  BY DEF Init, Idle, Work
<1>2. \A t \in Threads : anchor[t] <= phone[t] /\ (anchor[t] = 0 => base[t] = 0)
  BY SyncAssumption DEF Init
<1> QED
  BY <1>1, <1>2 DEF WorkList

\* A step of one session while the phone and the watermarks stay.
LEMMA WorkListKept ==
  ASSUME sess \in [Gens -> SessType], WorkList, NEW g \in Gens, NEW w, Becomes(g, w), Work(w),
         UNCHANGED <<phone, anchor, base>>
  PROVE  WorkList'
<1>1. \A h \in Gens : sess'[h] = IF h = g THEN w ELSE sess[h]
  BY DEF Becomes
<1> QED
  BY <1>1 DEF WorkList, Work

\* The refresh of a session that is the same as another's has the same work.
LEMMA WorkSame ==
  ASSUME NEW s, NEW w, SameRefresh(s, w), Work(s)
  PROVE  Work(w)
BY Zenon DEF SameRefresh, Work

LEMMA WorkListStep == TInv /\ OneRefresh /\ WorkList /\ [Next]_vars => WorkList'
<1> SUFFICES ASSUME TInv, OneRefresh, WorkList, [Next]_vars PROVE WorkList'
  OBVIOUS
<1>1. /\ sess \in [Gens -> SessType] /\ gen \in Nat /\ TypeOK
      /\ phone \in [Threads -> 0 .. MaxPhone] /\ phone \in [Threads -> Nat]
      /\ anchor \in [Threads -> Nat] /\ base \in [Threads -> Nat]
      /\ \A g \in Gens : Busy(g) => sess[g].cur \in Events
      /\ \A g \in Gens : sess[g].todo \in SUBSET Events
  <2>1. \A n \in 0 .. MaxPhone : n \in Nat
    BY SyncAssumption
  <2> QED
    BY <2>1, SyncAssumption DEF TInv, TypeOK, SessType
<1>2. /\ \A t \in Threads : anchor[t] <= phone[t] /\ (anchor[t] = 0 => base[t] = 0)
      /\ \A g \in Gens : Work(sess[g])
  BY DEF WorkList
<1>3. \A w : w.ref \notin {"check", "page", "save"} => Work(w)
  BY DEF Work
<1>4. \A e \in Events : e[1] \in Threads /\ e[2] \in Nat /\ e[2] > 0
  BY SyncAssumption DEF Events, Ids
<1>5. ASSUME NEW t \in Threads, Arrive(t) PROVE WorkList'
  <2>1. {phone[t] + 1} \in SUBSET Ids
    BY <1>1, <1>5, SyncAssumption DEF Arrive, Ids
  <2>2. \A g \in Gens : SameRefresh(sess[g], sess'[g])
    BY <1>1, <1>5, <2>1, SignalledStream DEF Arrive, SameRefresh
  <2>3. /\ \A u \in Threads : phone'[u] \in Nat /\ phone[u] <= phone'[u]
        /\ anchor' = anchor /\ base' = base
    BY <1>1, <1>5 DEF Arrive
  <2>4. ASSUME NEW g \in Gens PROVE Work(sess[g])'
    <3> DEFINE s == sess[g]
               w == sess'[g]
    <3>1. w.ref = s.ref /\ w.todo = s.todo /\ w.cur = s.cur
      BY <2>2 DEF SameRefresh
    <3>2. w.ref \in {"check", "page", "save"} =>
            /\ \A e \in w.todo : anchor'[e[1]] <= e[2] /\ e[2] <= phone'[e[1]]
            /\ \A e, f \in w.todo : e[1] = f[1] => e = f
      <4>1. ASSUME w.ref \in {"check", "page", "save"}, NEW e \in w.todo
            PROVE  anchor'[e[1]] <= e[2] /\ e[2] <= phone'[e[1]]
        <5>1. e \in Events /\ anchor[e[1]] <= e[2] /\ e[2] <= phone[e[1]]
          BY <1>1, <1>2, <3>1, <4>1 DEF Work
        <5> QED
          BY <1>1, <1>4, <2>3, <5>1
      <4> QED
        BY <1>2, <3>1, <4>1 DEF Work
    <3>3. ASSUME w.ref \in {"page", "save"}
          PROVE  /\ anchor'[w.cur[1]] <= w.cur[2] /\ w.cur[2] <= phone'[w.cur[1]]
                 /\ \A e \in w.todo : e[1] # w.cur[1]
      <4>1. /\ s.cur \in Events
            /\ anchor[s.cur[1]] <= s.cur[2] /\ s.cur[2] <= phone[s.cur[1]]
            /\ \A e \in s.todo : e[1] # s.cur[1]
        BY <1>1, <1>2, <3>1, <3>3 DEF Work, Busy
      <4> QED
        BY <1>1, <1>4, <2>3, <3>1, <4>1
    <3> QED
      BY <3>2, <3>3 DEF Work
  <2>5. \A u \in Threads : anchor'[u] <= phone'[u] /\ (anchor'[u] = 0 => base'[u] = 0)
    BY <1>1, <1>2, <2>3
  <2> QED
    BY <2>4, <2>5 DEF WorkList
<1>6. ASSUME StartSession PROVE WorkList'
  <2>1. \A g \in Gens : SameRefresh(Idle, sess'[g]) \/ SameRefresh(sess[g], sess'[g])
    BY <1>1, <1>6, StartDoes
  <2>2. Work(Idle)
    BY <1>3 DEF Idle
  <2>3. \A g \in Gens : Work(sess'[g])
    BY <1>2, <2>1, <2>2, WorkSame
  <2> QED
    BY <1>2, <1>6, <2>3 DEF StartSession, WorkList, Work
<1>7. ASSUME NEW g \in Gens, Session(g) PROVE WorkList'
  <2>1. UNCHANGED <<phone, anchor, base>>
    BY <1>7 DEF Session, Dial, Leave, Joined, Wake, Deliver
  <2>2. PICK w : Becomes(g, w) /\ (SameRefresh(sess[g], w) \/ w.ref \in {"idle", "lock"})
    BY <1>1, <1>7, SessionDoes
  <2>3. Work(w)
    BY <1>2, <1>3, <2>2, WorkSame
  <2> QED
    BY <1>1, <2>1, <2>2, <2>3, WorkListKept
<1>8. ASSUME NEW g \in Gens, Acquire(g) \/ RefreshDone(g) \/ CallFails(g) PROVE WorkList'
  <2>1. PICK w : Becomes(g, w) /\ w.ref \in {"threads", "done", "failed"}
    BY <1>1, <1>8, LockDoes, GiveUpDoes DEF CallFails
  <2>2. UNCHANGED <<phone, anchor, base>>
    BY <1>8 DEF Acquire, RefreshDone, CallFails, Quiet
  <2> QED
    BY <1>1, <1>3, <2>1, <2>2, WorkListKept
<1>9. ASSUME NEW g \in Gens, ReadThreads(g) PROVE WorkList'
  <2>1. PICK w : Becomes(g, w) /\ w.ref = "check" /\ w.todo = Reported
    BY <1>1, <1>9, ReadThreadsDoes
  <2>2. \A e \in Reported : e[1] \in Threads /\ e[2] = phone[e[1]] /\ e = <<e[1], e[2]>>
    BY DEF Reported
  <2>3. Work(w)
    <3>1. \A e \in w.todo : anchor[e[1]] <= e[2] /\ e[2] <= phone[e[1]]
      BY <1>1, <1>2, <2>1, <2>2
    <3>2. \A e, f \in w.todo : e[1] = f[1] => e = f
      BY <2>1 DEF Reported
    <3> QED
      BY <2>1, <3>1, <3>2 DEF Work
  <2>4. UNCHANGED <<phone, anchor, base>>
    BY <1>9 DEF ReadThreads, Quiet
  <2> QED
    BY <1>1, <2>1, <2>3, <2>4, WorkListKept
<1>10. ASSUME NEW g \in Gens, NextThread(g) PROVE WorkList'
  <2>1. PICK e \in sess[g].todo : \E w :
          /\ Becomes(g, w) /\ w.todo = sess[g].todo \ {e}
          /\ \/ w.ref = "check"
             \/ w.ref = "page" /\ w.cur = e
    BY <1>1, <1>10, NextThreadDoes
  <2>2. PICK w :
          /\ Becomes(g, w) /\ w.todo = sess[g].todo \ {e}
          /\ \/ w.ref = "check"
             \/ w.ref = "page" /\ w.cur = e
    BY <2>1
  <2>3. /\ \A f \in sess[g].todo : anchor[f[1]] <= f[2] /\ f[2] <= phone[f[1]]
        /\ \A f, h \in sess[g].todo : f[1] = h[1] => f = h
    BY <1>2, <1>10 DEF NextThread, Ref, Work
  <2>4. Work(w)
    BY <2>2, <2>3 DEF Work
  <2>5. UNCHANGED <<phone, anchor, base>>
    BY <1>10 DEF NextThread, Quiet
  <2> QED
    BY <1>1, <2>2, <2>4, <2>5, WorkListKept
<1>11. ASSUME NEW g \in Gens, Page(g) PROVE WorkList'
  <2>1. PICK t \in Threads : \E k \in 0 .. phone[t] : PageEffect(g, t, k)
    BY <1>1, <1>11, PageDoes
  <2>2. PICK k \in 0 .. phone[t] : PageEffect(g, t, k)
    BY <2>1
  <2>3. ASSUME NEW h \in Gens PROVE Work(sess'[h])
    <3>1. CASE h = g
      <4>1. \/ /\ sess'[g].todo = sess[g].todo /\ sess'[g].cur = sess[g].cur
               /\ sess[g].ref = "page"
            \/ sess'[g].ref = "failed"
        BY <2>2 DEF PageEffect
      <4> QED
        BY <1>2, <1>3, <3>1, <4>1 DEF Work
    <3>2. CASE h # g
      <4>1. /\ sess'[h].ref = sess[h].ref /\ sess'[h].todo = sess[h].todo
            /\ sess'[h].cur = sess[h].cur
        BY <2>2, <3>2 DEF PageEffect
      <4> QED
        BY <1>2, <4>1 DEF Work
    <3> QED
      BY <3>1, <3>2
  <2>4. UNCHANGED <<phone, anchor, base>>
    BY <1>11 DEF Page, Quiet
  <2> QED
    BY <1>2, <2>3, <2>4 DEF WorkList, Work
<1>12. ASSUME NEW g \in Gens, Save(g) PROVE WorkList'
  <2>1. PICK w : Becomes(g, w) /\ w.ref = "check" /\ w.todo = sess[g].todo
    BY <1>1, <1>12, SaveDoes
  <2> DEFINE c == sess[g].cur
  <2>2. /\ sess[g].ref = "save" /\ c \in Events /\ c[1] \in Threads /\ c[2] \in Nat /\ c[2] > 0
        /\ c[2] <= phone[c[1]]
        /\ \A e \in w.todo : e[1] # c[1]
        /\ \A e \in w.todo : e \in Events /\ anchor[e[1]] <= e[2] /\ e[2] <= phone[e[1]]
        /\ \A e, f \in w.todo : e[1] = f[1] => e = f
    BY <1>1, <1>2, <1>4, <1>12, <2>1, SaveDoes DEF Work, Busy
  <2>3. /\ phone' = phone
        /\ anchor' = [anchor EXCEPT ![c[1]] = c[2]]
        /\ base' = [base EXCEPT ![c[1]] = IF @ = 0 THEN sess[g].low ELSE @]
    BY <1>1, <1>12, SaveDoes DEF Save, Quiet
  <2> HIDE DEF c
  <2>4. /\ \A t \in Threads : anchor'[t] = IF t = c[1] THEN c[2] ELSE anchor[t]
        /\ \A t \in Threads : t # c[1] => base'[t] = base[t]
    BY <1>1, <2>2, <2>3
  <2>5. ASSUME NEW h \in Gens PROVE Work(sess[h])'
    <3>1. CASE h = g
      <4>1. sess'[h] = w
        BY <1>1, <2>1, <3>1 DEF Becomes
      <4>2. \A e \in w.todo : anchor'[e[1]] <= e[2] /\ e[2] <= phone'[e[1]]
        BY <1>4, <2>2, <2>3, <2>4
      <4> QED
        BY <2>1, <2>2, <4>1, <4>2 DEF Work
    <3>2. CASE h # g
      <4>1. sess'[h] = sess[h]
        BY <1>1, <2>1, <3>2 DEF Becomes
      <4>2. sess[h].ref \notin Working
        BY <2>2, <3>2 DEF OneRefresh, Working
      <4> QED
        BY <4>1, <4>2 DEF Work, Working
    <3> QED
      BY <3>1, <3>2
  <2>6. \A t \in Threads : anchor'[t] <= phone'[t] /\ (anchor'[t] = 0 => base'[t] = 0)
    BY <1>2, <2>2, <2>3, <2>4
  <2> QED
    BY <2>5, <2>6 DEF WorkList
<1>13. ASSUME UNCHANGED vars PROVE WorkList'
  BY <1>13 DEF vars, WorkList, Work
<1> QED
  BY <1>5, <1>6, <1>7, <1>8, <1>9, <1>10, <1>11, <1>12, <1>13 DEF Next, Refresh

-----------------------------------------------------------------------------

\* The sessions share one engine: whichever refreshes were started and however
\* they ended, one of them at a time is past the mutex, and what it has left to
\* do lies between the watermarks and the phone.
Core == TInv /\ OneRefresh /\ WorkList

LEMMA CoreInvariant == Spec => []Core
<1>1. Init => Core
  BY TypeInit, OneRefreshInit, WorkListInit DEF Core
<1>2. Core /\ [Next]_vars => Core'
  BY TypeStep, OneRefreshStep, WorkListStep DEF Core
<1> QED
  BY <1>1, <1>2, PTL DEF Spec

\* The variables of the sync engine and of its sessions keep their types.
THEOREM SyncTypesKept == Spec => []TypeOK
BY CoreInvariant, PTL DEF Core, TInv

\* A watermark never goes back, for any number of sessions that are replaced
\* while their refresh still runs (SaveSync, engine.go).
THEOREM AnchorsAdvance == Spec => AnchorForward
<1>1. Core /\ [Next]_vars => [\A t \in Threads : anchor'[t] >= anchor[t]]_vars
  <2> SUFFICES ASSUME Core, Next PROVE \A t \in Threads : anchor'[t] >= anchor[t]
    OBVIOUS
  <2>1. anchor \in [Threads -> 0 .. MaxPhone] /\ sess \in [Gens -> SessType]
    BY DEF Core, TInv, TypeOK, SessType
  <2>2. \A n \in 0 .. MaxPhone : n >= n
    BY SyncAssumption
  <2>3. anchor' = anchor \/ \E g \in Gens : Save(g)
    BY DEF Next, Session, Refresh, Arrive, StartSession, Dial, Leave, Joined, Wake, Deliver,
           Acquire, ReadThreads, NextThread, RefreshDone, Page, CallFails, Quiet
  <2>4. ASSUME NEW g \in Gens, Save(g) PROVE \A t \in Threads : anchor'[t] >= anchor[t]
    <3> DEFINE c == sess[g].cur
    <3>1. c \in Events /\ anchor[c[1]] <= c[2]
      BY <2>1, <2>4, SaveDoes DEF Core, WorkList, Work, TInv, Busy
    <3>2. anchor' = [anchor EXCEPT ![c[1]] = c[2]]
      BY <2>1, <2>4, SaveDoes
    <3>3. c[1] \in Threads /\ c[2] \in Nat /\ anchor[c[1]] \in Nat
      BY <2>1, <3>1, SyncAssumption DEF Events, Ids
    <3> HIDE DEF c
    <3> QED
      BY <2>1, <2>2, <3>1, <3>2, <3>3
  <2> QED
    BY <2>1, <2>2, <2>3, <2>4
<1> QED
  BY <1>1, CoreInvariant, PTL DEF Spec, AnchorForward

-----------------------------------------------------------------------------
(* The pages join, unless answers are cut. *)

LEMMA CoreTypes ==
  ASSUME Core
  PROVE  /\ TypeOK /\ sess \in [Gens -> SessType] /\ gen \in Nat
         /\ phone \in [Threads -> Nat] /\ phone \in [Threads -> 0 .. MaxPhone]
         /\ anchor \in [Threads -> Nat] /\ base \in [Threads -> Nat]
         /\ rows \in [Threads -> SUBSET Ids]
         /\ \A g \in Gens : sess[g].low \in Nat /\ sess[g].off \in Nat
         /\ \A g \in Gens : Busy(g) =>
              /\ sess[g].cur \in Events /\ sess[g].cur[1] \in Threads
              /\ sess[g].cur[2] \in Nat /\ sess[g].cur[2] > 0
<1>1. \A n \in 0 .. MaxPhone : n \in Nat
  BY SyncAssumption
<1>2. /\ TypeOK /\ sess \in [Gens -> SessType] /\ gen \in Nat
      /\ phone \in [Threads -> Nat] /\ phone \in [Threads -> 0 .. MaxPhone]
      /\ anchor \in [Threads -> Nat] /\ base \in [Threads -> Nat]
      /\ rows \in [Threads -> SUBSET Ids]
  BY <1>1, SyncAssumption DEF Core, TInv, TypeOK, SessType
<1>3. \A g \in Gens : sess[g].low \in Nat /\ sess[g].off \in Nat
  BY <1>1, <1>2 DEF SessType
<1>4. \A e \in Events : e[1] \in Threads /\ e[2] \in Nat /\ e[2] > 0
  BY SyncAssumption DEF Events, Ids
<1> QED
  BY <1>2, <1>3, <1>4 DEF Core, TInv

\* A step that asks for no page and saves no watermark: messages only come in,
\* and a refresh at work was at work or begins with a conversation.
LEMMA OtherSteps ==
  ASSUME Core, [Next]_vars, \A g \in Gens : ~Page(g) /\ ~Save(g)
  PROVE  /\ anchor' = anchor /\ base' = base
         /\ \A t \in Threads : phone[t] <= phone'[t] /\ rows[t] \subseteq rows'[t]
         /\ \A h \in Gens : Busy(h)' =>
              \/ Busy(h) /\ SameRefresh(sess[h], sess'[h])
              \/ sess'[h].ref = "page" /\ sess'[h].off = 0 /\ sess'[h].low = 0
<1>1. /\ TypeOK /\ sess \in [Gens -> SessType] /\ gen \in Nat
      /\ phone \in [Threads -> Nat] /\ phone \in [Threads -> 0 .. MaxPhone]
      /\ rows \in [Threads -> SUBSET Ids]
  BY CoreTypes
<1>2. anchor' = anchor /\ base' = base
  BY DEF vars, Next, Session, Refresh, Arrive, StartSession, Dial, Leave, Joined, Wake, Deliver,
         Acquire, ReadThreads, NextThread, RefreshDone, CallFails, Quiet
<1>3. phone' = phone \/ \E t \in Threads : phone' = [phone EXCEPT ![t] = @ + 1]
  BY DEF vars, Next, Session, Refresh, Arrive, StartSession, Dial, Leave, Joined, Wake, Deliver,
         Acquire, ReadThreads, NextThread, RefreshDone, CallFails, Quiet
<1>4. \A t \in Threads : phone[t] <= phone'[t]
  BY <1>1, <1>3
<1>5. rows' = rows \/ \E e \in Events : rows' = [rows EXCEPT ![e[1]] = @ \cup {e[2]}]
  BY DEF vars, Next, Session, Refresh, Arrive, StartSession, Dial, Leave, Joined, Wake, Deliver,
         Acquire, ReadThreads, NextThread, RefreshDone, CallFails, Quiet, Merged
<1>6. \A t \in Threads : rows[t] \subseteq rows'[t]
  BY <1>1, <1>5 DEF Events
<1> DEFINE Same(h) == Busy(h) /\ SameRefresh(sess[h], sess'[h])
           Fresh(h) == sess'[h].ref = "page" /\ sess'[h].off = 0 /\ sess'[h].low = 0
           Kept == \A h \in Gens : Busy(h)' => Same(h) \/ Fresh(h)
<1>7. ASSUME NEW g \in Gens, NEW w, Becomes(g, w),
             \/ SameRefresh(sess[g], w)
             \/ w.ref \notin {"page", "save"}
             \/ w.ref = "page" /\ w.off = 0 /\ w.low = 0
      PROVE  Kept
  <2> SUFFICES ASSUME NEW h \in Gens, Busy(h)' PROVE Same(h) \/ Fresh(h)
    OBVIOUS
  <2>1. CASE h = g
    BY <1>1, <1>7, <2>1 DEF Becomes, Busy, SameRefresh
  <2>2. CASE h # g
    BY <1>1, <1>7, <2>2 DEF Becomes, Busy, SameRefresh
  <2> QED
    BY <2>1, <2>2
<1>8. ASSUME NEW t \in Threads, Arrive(t) PROVE Kept
  <2>1. {phone[t] + 1} \in SUBSET Ids
    BY <1>1, <1>8, SyncAssumption DEF Arrive, Ids
  <2> QED
    BY <1>1, <1>8, <2>1, SignalledStream DEF Arrive, SameRefresh, Busy
<1>9. ASSUME StartSession PROVE Kept
  <2>1. \A h \in Gens : SameRefresh(Idle, sess'[h]) \/ SameRefresh(sess[h], sess'[h])
    BY <1>1, <1>9, StartDoes
  <2> QED
    BY <2>1 DEF SameRefresh, Busy, Idle
<1>10. ASSUME NEW g \in Gens, Session(g) PROVE Kept
  <2>1. PICK w : Becomes(g, w) /\ (SameRefresh(sess[g], w) \/ w.ref \in {"idle", "lock"})
    BY <1>1, <1>10, SessionDoes
  <2> QED
    BY <1>7, <2>1
<1>11. ASSUME NEW g \in Gens, Acquire(g) \/ RefreshDone(g) \/ CallFails(g) PROVE Kept
  <2>1. PICK w : Becomes(g, w) /\ w.ref \in {"threads", "done", "failed"}
    BY <1>1, <1>11, LockDoes, GiveUpDoes DEF CallFails
  <2> QED
    BY <1>7, <2>1
<1>12. ASSUME NEW g \in Gens, ReadThreads(g) PROVE Kept
  <2>1. PICK w : Becomes(g, w) /\ w.ref = "check"
    BY <1>1, <1>12, ReadThreadsDoes
  <2> QED
    BY <1>7, <2>1
<1>13. ASSUME NEW g \in Gens, NextThread(g) PROVE Kept
  <2>1. PICK w : /\ Becomes(g, w)
                 /\ \/ w.ref = "check"
                    \/ w.ref = "page" /\ w.off = 0 /\ w.low = 0
    BY <1>1, <1>13, NextThreadDoes
  <2> QED
    BY <1>7, <2>1
<1>14. ASSUME UNCHANGED vars PROVE Kept
  BY <1>14 DEF vars, Busy, SameRefresh
<1>15. Kept
  BY <1>8, <1>9, <1>10, <1>11, <1>12, <1>13, <1>14 DEF Next, Refresh
<1> QED
  BY <1>2, <1>4, <1>6, <1>15

LEMMA PagesInit == Init => PagesJoin /\ NoGap
BY DEF Init, Idle, Busy, PagesJoin, NoGap

LEMMA PagesOther ==
  ASSUME Core, PagesJoin, NoGap, [Next]_vars, \A g \in Gens : ~Page(g) /\ ~Save(g)
  PROVE  PagesJoin' /\ NoGap'
<1>0. \A t \in Threads : phone'[t] \in Nat
  <2>1. TypeOK'
    BY TypeStep DEF Core, TInv
  <2> QED
    BY <2>1, SyncAssumption DEF TypeOK
<1>1. /\ anchor' = anchor /\ base' = base
      /\ \A t \in Threads : phone[t] <= phone'[t] /\ rows[t] \subseteq rows'[t]
      /\ \A h \in Gens : Busy(h)' =>
           \/ Busy(h) /\ SameRefresh(sess[h], sess'[h])
           \/ sess'[h].ref = "page" /\ sess'[h].off = 0 /\ sess'[h].low = 0
  BY OtherSteps
<1>2. ASSUME NEW h \in Gens, Busy(h)' PROVE Stored(sess[h])'
  <2>1. CASE sess'[h].ref = "page" /\ sess'[h].off = 0 /\ sess'[h].low = 0
    BY <2>1 DEF Stored
  <2>2. CASE Busy(h) /\ SameRefresh(sess[h], sess'[h])
    <3> DEFINE s == sess[h]
               t == s.cur[1]
               w == sess'[h]
    <3>1. /\ t \in Threads /\ s.low \in Nat /\ s.off \in Nat
          /\ phone[t] \in Nat
      BY <2>2, CoreTypes
    <3>2. /\ s.low = 0 => s.off = 0 /\ s.ref = "page"
          /\ s.low > 0 => s.low + s.off <= phone[t] + 1 /\ s.low .. s.cur[2] \subseteq rows[t]
          /\ s.ref = "save" /\ anchor[t] > 0 => s.low <= anchor[t]
      BY <2>2 DEF PagesJoin, Stored
    <3>3. w.ref = s.ref /\ w.cur = s.cur /\ w.off = s.off /\ w.low = s.low
      BY <2>2 DEF SameRefresh
    <3>4. phone'[t] \in Nat
      BY <3>1, <1>0
    <3>5. s.low > 0 => s.low + s.off <= phone'[t] + 1 /\ s.low .. s.cur[2] \subseteq rows'[t]
      BY <1>1, <3>1, <3>2, <3>4
    <3> QED
      BY <1>1, <3>2, <3>3, <3>5 DEF Stored
  <2> QED
    BY <1>1, <1>2, <2>1, <2>2
<1>3. NoGap'
  BY <1>1 DEF NoGap
<1> QED
  BY <1>2, <1>3 DEF PagesJoin

\* One answer: it continues where the page before it ended, so what is stored
\* still reaches the newest message; the last page met the watermark, or came
\* after everything the phone has.
LEMMA PagesPage ==
  ASSUME ~Cut, Core, PagesJoin, NoGap, NEW g \in Gens, Page(g)
  PROVE  PagesJoin' /\ NoGap'
<1>1. PICK t \in Threads : \E k \in 0 .. phone[t] : PageEffect(g, t, k)
  BY CoreTypes, PageDoes
<1>2. PICK k \in 0 .. phone[t] : PageEffect(g, t, k)
  BY <1>1
<1> DEFINE s == sess[g]
           w == sess'[g]
           n == phone[t]
           c == s.cur[2]
           page == (n - k + 1) .. (n - s.off)
<1>3. /\ s.ref = "page" /\ t = s.cur[1]
      /\ k = s.off + PageSize \/ k = n
      /\ rows' = [rows EXCEPT ![t] = @ \cup page]
      /\ \A h \in Gens \ {g} : sess'[h].ref = sess[h].ref
      /\ \/ /\ w.cur = s.cur
            /\ w.off = IF k > s.off THEN k ELSE s.off
            /\ w.low = IF k > s.off THEN n - k + 1 ELSE s.low
            /\ w.ref = IF anchor[t] = 0 \/ anchor[t] \in page \/ k <= s.off THEN "save" ELSE "page"
         \/ w.ref = "failed"
  BY <1>2 DEF PageEffect
<1>4. /\ n \in Nat /\ k \in Nat /\ k <= n /\ c \in Nat /\ c > 0 /\ c <= n
      /\ s.low \in Nat /\ s.off \in Nat /\ anchor[t] \in Nat /\ PageSize \in Nat /\ PageSize > 0
  <2>1. Busy(g) /\ c <= n
    BY <1>3 DEF Core, WorkList, Work, Busy
  <2> QED
    BY <2>1, CoreTypes, SyncAssumption
<1>5. /\ s.low = 0 => s.off = 0
      /\ s.low > 0 => s.low + s.off <= n + 1 /\ s.low .. c \subseteq rows[t]
  BY <1>3 DEF PagesJoin, Stored, Busy
<1>6. /\ phone' = phone /\ anchor' = anchor /\ base' = base
      /\ \A u \in Threads : rows[u] \subseteq rows'[u]
      /\ rows'[t] = rows[t] \cup page
  BY <1>1, <1>3, CoreTypes DEF Page, Quiet
<1>7. ASSUME NEW h \in Gens \ {g}, Busy(h)' PROVE FALSE
  BY <1>3, <1>7 DEF Core, OneRefresh, Busy, Working
<1>8. ASSUME Busy(g)' PROVE Stored(sess[g])'
  <2>1. /\ w.cur = s.cur
        /\ w.off = IF k > s.off THEN k ELSE s.off
        /\ w.low = IF k > s.off THEN n - k + 1 ELSE s.low
        /\ w.ref = IF anchor[t] = 0 \/ anchor[t] \in page \/ k <= s.off THEN "save" ELSE "page"
    BY <1>3, <1>8 DEF Busy
  <2> HIDE DEF w
  <2>2. CASE k > s.off
    <3>1. w.low = n - k + 1 /\ w.off = k /\ w.low > 0 /\ w.low + w.off <= n + 1
      BY <1>4, <2>1, <2>2
    <3>2. w.low .. c \subseteq rows'[t]
      <4> SUFFICES ASSUME NEW i \in w.low .. c PROVE i \in rows[t] \cup page
        BY <1>6
      <4>1. CASE i <= n - s.off
        BY <1>4, <3>1, <4>1
      <4>2. CASE ~(i <= n - s.off)
        <5>1. s.low > 0
          BY <1>4, <1>5, <4>2
        <5>2. i \in s.low .. c
          BY <1>4, <1>5, <3>1, <4>2, <5>1
        <5> QED
          BY <1>5, <5>1, <5>2
      <4> QED
        BY <4>1, <4>2
    <3>3. w.ref = "save" /\ anchor[t] > 0 => w.low <= anchor[t]
      BY <1>4, <2>1, <2>2, <3>1
    <3> QED
      BY <1>3, <1>4, <1>6, <2>1, <3>1, <3>2, <3>3 DEF Stored, w
  <2>3. CASE ~(k > s.off)
    <3>1. k = n /\ n <= s.off /\ k <= s.off
      BY <1>3, <1>4, <2>3
    <3>2. s.low > 0 /\ s.low <= 1
      BY <1>4, <1>5, <3>1
    <3>3. w.low = s.low /\ w.off = s.off /\ w.ref = "save"
      BY <2>1, <2>3, <3>1
    <3>4. anchor[t] > 0 => w.low <= anchor[t]
      BY <1>4, <3>2, <3>3
    <3> QED
      BY <1>3, <1>5, <1>6, <2>1, <3>2, <3>3, <3>4 DEF Stored, w
  <2> QED
    BY <2>2, <2>3
<1>9. NoGap'
  BY <1>6 DEF NoGap
<1> QED
  BY <1>7, <1>8, <1>9 DEF PagesJoin

\* The watermark that is saved stands on the pages that were stored, and those
\* on what was stored before the last watermark.
LEMMA PagesSave ==
  ASSUME Core, PagesJoin, NoGap, NEW g \in Gens, Save(g)
  PROVE  PagesJoin' /\ NoGap'
<1> DEFINE s == sess[g]
           t == s.cur[1]
           c == s.cur[2]
<1>1. /\ sess \in [Gens -> SessType]
      /\ anchor \in [Threads -> Nat] /\ base \in [Threads -> Nat]
  BY CoreTypes
<1>2. PICK w : Becomes(g, w) /\ w.ref = "check"
  BY <1>1, SaveDoes
<1>3. /\ s.ref = "save" /\ t \in Threads
      /\ anchor' = [anchor EXCEPT ![t] = c]
      /\ base' = [base EXCEPT ![t] = IF @ = 0 THEN s.low ELSE @]
      /\ rows' = rows /\ phone' = phone
  BY <1>1, SaveDoes DEF Save, Quiet
<1>4. /\ c \in Nat /\ s.low \in Nat /\ s.low > 0
      /\ s.low .. c \subseteq rows[t]
      /\ anchor[t] > 0 => s.low <= anchor[t]
      /\ anchor[t] = 0 => base[t] = 0
  <2>1. Busy(g)
    BY <1>3 DEF Busy
  <2>2. c \in Nat /\ s.low \in Nat
    BY <2>1, CoreTypes
  <2>3. Stored(s)
    BY <2>1 DEF PagesJoin
  <2>4. s.low > 0
    BY <1>3, <2>2, <2>3 DEF Stored
  <2> QED
    BY <1>3, <2>2, <2>3, <2>4 DEF Stored, Core, WorkList
<1> HIDE DEF s, t, c
<1>5. \A h \in Gens : ~Busy(h)'
  <2> SUFFICES ASSUME NEW h \in Gens PROVE sess'[h].ref \notin {"page", "save"}
    BY DEF Busy
  <2>1. CASE h = g
    BY <1>1, <1>2, <2>1 DEF Becomes
  <2>2. CASE h # g
    <3>1. sess'[h] = sess[h]
      BY <1>1, <1>2, <2>2 DEF Becomes
    <3> QED
      BY <1>3, <2>2, <3>1 DEF Core, OneRefresh, Working, s
  <2> QED
    BY <2>1, <2>2
<1>6. ASSUME NEW u \in Threads, base'[u] > 0 PROVE base'[u] .. anchor'[u] \subseteq rows'[u]
  <2>1. CASE u # t
    BY <1>1, <1>3, <1>6, <2>1 DEF NoGap
  <2>2. CASE u = t
    <3>1. anchor'[t] = c /\ base'[t] = IF base[t] = 0 THEN s.low ELSE base[t]
      BY <1>1, <1>3
    <3>2. CASE base[t] = 0
      BY <1>3, <1>4, <2>2, <3>1, <3>2
    <3>3. CASE base[t] # 0
      <4>1. /\ base[t] \in Nat /\ anchor[t] \in Nat /\ base[t] > 0 /\ anchor[t] > 0
            /\ base[t] .. anchor[t] \subseteq rows[t]
        BY <1>1, <1>3, <1>4, <3>3 DEF NoGap
      <4>2. base[t] .. c \subseteq rows[t]
        BY <1>4, <4>1
      <4> QED
        BY <1>3, <2>2, <3>1, <3>3, <4>2
    <3> QED
      BY <3>2, <3>3
  <2> QED
    BY <2>1, <2>2
<1> QED
  BY <1>5, <1>6 DEF PagesJoin, NoGap

LEMMA PagesStep ==
  ~Cut /\ Core /\ PagesJoin /\ NoGap /\ [Next]_vars => PagesJoin' /\ NoGap'
BY PagesOther, PagesPage, PagesSave

\* Behind a watermark there is no gap, for any conversations, page size and
\* number of messages, whichever sessions were replaced, dropped or failed on
\* the way and whatever arrived between two pages, as long as a page request is
\* answered in full (Refresh and requestConversation).
THEOREM GapFree == ASSUME ~Cut PROVE Spec => []NoGap
<1>1. Init => PagesJoin /\ NoGap
  BY PagesInit
<1>2. Core /\ PagesJoin /\ NoGap /\ [Next]_vars => (PagesJoin /\ NoGap)'
  BY PagesStep
<1> QED
  BY <1>1, <1>2, CoreInvariant, PTL DEF Spec
=============================================================================
