---------------------------- MODULE PictureProofs ----------------------------
(***************************************************************************)
(* Pictures of a draft stay with whom they were chosen for, and received   *)
(* ones stay downloaded and are shown on request only.                     *)
(***************************************************************************)
EXTENDS Panels, SequenceTheorems, FiniteSetTheorems, TLAPS

-----------------------------------------------------------------------------
(* Pictures to send. *)

Persons == Others \cup {"person"}
Gallery == Seq(P!Picture)

\* A ps of pictures as a draft for k may hold it.
Placed(ps, k) ==
  /\ ps \in Gallery /\ Len(ps) <= MaxPics
  /\ \A i, j \in DOMAIN ps : ps[i].path = ps[j].path => i = j
  /\ \A i \in DOMAIN ps : ps[i].for = P!To(k) /\ k # Group

\* Every ps is well placed: that of a draft, of the message under way, and of
\* a message that failed.
ListsPlaced ==
  /\ at \in P!Keys /\ DOMAIN attached = P!Keys
  /\ \A k \in P!Keys : Placed(attached[k], k)
  /\ pSending # None => pSending \in P!Message /\ Placed(pSending.pics, pSending.key)
  /\ \A f \in pFailed : f \in P!Message /\ Placed(f.pics, f.key)

\* What is being prepared will be well placed: a picture knows the draft it was
\* chosen for, and a look at the clipboard counts for the editor it began in.
WorkPlaced ==
  \A j \in preparing :
    j \in [key : P!Keys, path : P!Path, for : Persons] /\ j.for = P!To(j.key) /\ j.key # Group
LooksPlaced ==
  /\ pEpoch \in Nat
  /\ \A c \in pastes : c.epoch \in 0 .. pEpoch /\ (c.epoch = pEpoch => c.for = P!To(at))

AttachInv == ListsPlaced /\ WorkPlaced /\ LooksPlaced

LEMMA KeyTypes == P!Keys = {"number", "local"} \cup Others /\ Group \in P!Keys
BY AttachAssumption DEF P!Keys

LEMMA FrontPlaced ==
  ASSUME NEW k \in P!Keys, NEW ps, Placed(ps, k), ps # <<>>
  PROVE  Placed(P!Front(ps), k)
<1>1. ps \in Gallery /\ Len(ps) \in Nat /\ Len(ps) > 0
  BY DEF Placed, Gallery
<1>2. /\ P!Front(ps) \in Gallery /\ Len(P!Front(ps)) = Len(ps) - 1
      /\ \A i \in 1 .. Len(ps) - 1 : P!Front(ps)[i] = ps[i]
  <2>1. \A i \in 1 .. Len(ps) - 1 : ps[i] \in P!Picture
    BY <1>1 DEF Gallery
  <2>2. 1 \in Int /\ Len(ps) - 1 \in Int /\ (Len(ps) - 1) - 1 + 1 = Len(ps) - 1
    BY <1>1
  <2> QED
    BY <1>1, <2>1, <2>2, SubSeqProperties DEF P!Front, Gallery
<1>3. DOMAIN P!Front(ps) = 1 .. Len(ps) - 1 /\ DOMAIN ps = 1 .. Len(ps)
  BY <1>1, <1>2 DEF Gallery
<1> QED
  BY <1>1, <1>2, <1>3, AttachAssumption DEF Placed

LEMMA AppendPlaced ==
  ASSUME NEW k \in P!Keys, NEW ps, Placed(ps, k), Len(ps) < MaxPics,
         NEW x \in P!Picture, x.path \notin P!Paths(ps), x.for = P!To(k), k # Group
  PROVE  Placed(Append(ps, x), k)
BY AttachAssumption DEF Placed, Gallery, P!Paths

LEMMA AttachStarts == P!AttachInit => AttachInv
<1> SUFFICES ASSUME P!AttachInit PROVE AttachInv
  OBVIOUS
<1>1. \A k \in P!Keys : Placed(<<>>, k)
  BY AttachAssumption DEF Placed, Gallery
<1>2. ListsPlaced
  BY <1>1 DEF ListsPlaced, P!AttachInit
<1>3. WorkPlaced /\ LooksPlaced
  BY DEF WorkPlaced, LooksPlaced, P!AttachInit
<1> QED
  BY <1>2, <1>3 DEF AttachInv

\* Capturing a message: the pictures stay with the person when a number becomes
\* a conversation.
LEMMA CapturedPlaced ==
  ASSUME at \in P!Keys, NEW ps, Placed(ps, at), P!Captured(ps)
  PROVE  /\ at' \in P!Keys /\ P!To(at') = P!To(at) /\ (at' = Group => at = Group)
         /\ pSending' = pSending \/ (pSending' \in P!Message /\ Placed(pSending'.pics, pSending'.key))
<1>1. P!Local(at) \in P!Keys /\ P!To(P!Local(at)) = P!To(at) /\ (P!Local(at) = Group => at = Group)
  BY AttachAssumption DEF P!Local, P!Keys, P!To
<1>2. CASE at' \in {at, P!Local(at)} /\ UNCHANGED <<pSending, known>>
  BY <1>1, <1>2
<1>3. CASE /\ at # Group /\ at' = P!Local(at) /\ pSending' = [key |-> at', pics |-> ps]
  <2>1. pSending' \in P!Message
    BY <1>1, <1>3 DEF P!Message, Placed, Gallery
  <2>2. Placed(ps, at')
    BY <1>1, <1>3 DEF Placed
  <2> QED
    BY <1>1, <1>3, <2>1, <2>2
<1> QED
  BY <1>2, <1>3 DEF P!Captured

\* A picture starts out for the person whose draft is open.
LEMMA ChosenPlaced ==
  ASSUME AttachInv, P!CanAttach, NEW p \in P!Path
  PROVE  \A j : j = [key |-> at, path |-> p, for |-> P!To(at)] =>
           j \in [key : P!Keys, path : P!Path, for : Persons] /\ j.for = P!To(j.key) /\ j.key # Group
BY DEF AttachInv, ListsPlaced, P!CanAttach, P!To, Persons

LEMMA PickStep ==
  ASSUME AttachInv,
         P!OpenPicker \/ P!ClosePicker \/ P!AttachFile \/ P!CheckPaste \/ P!AttachClipboard
           \/ (\E c \in pastes : P!PasteChecked(c)) \/ P!Able
  PROVE  AttachInv'
<1> USE DEF AttachInv
<1>1. ASSUME P!OpenPicker \/ P!ClosePicker \/ P!Able PROVE AttachInv'
  BY <1>1 DEF P!OpenPicker, P!ClosePicker, P!Able, ListsPlaced, WorkPlaced, LooksPlaced
<1>2. ASSUME P!AttachFile PROVE AttachInv'
  <2>1. PICK p \in Pics : preparing' = IF P!CanAttach
          THEN preparing \cup {[key |-> at, path |-> [pic |-> p, pasted |-> FALSE], for |-> P!To(at)]}
          ELSE preparing
    BY <1>2 DEF P!AttachFile
  <2>2. [pic |-> p, pasted |-> FALSE] \in P!Path
    BY DEF P!Path
  <2>3. WorkPlaced' /\ LooksPlaced'
    BY <1>2, <2>1, <2>2, ChosenPlaced DEF P!AttachFile, WorkPlaced, LooksPlaced
  <2>4. ListsPlaced'
    BY <1>2 DEF P!AttachFile, ListsPlaced
  <2> QED
    BY <2>3, <2>4
<1>3. ASSUME P!CheckPaste PROVE AttachInv'
  <2>1. ListsPlaced'
    BY <1>3 DEF P!CheckPaste, ListsPlaced
  <2>2. WorkPlaced'
    BY <1>3 DEF P!CheckPaste, WorkPlaced
  <2> DEFINE new == [epoch |-> pEpoch, for |-> P!To(at)]
  <2>4. pastes' = pastes \cup {new} /\ UNCHANGED <<pEpoch, at>>
    BY <1>3 DEF P!CheckPaste
  <2>5. new.epoch = pEpoch /\ new.for = P!To(at)
    OBVIOUS
  <2>6. P!To(at)' = P!To(at)
    BY <2>4 DEF P!To
  <2> HIDE DEF new
  <2>3. LooksPlaced'
    BY <2>4, <2>5, <2>6 DEF LooksPlaced
  <2> QED
    BY <2>1, <2>2, <2>3
<1>4. ASSUME NEW who, who = P!To(at), P!CanAttach, P!ClipboardPicture(who) PROVE
        \A j \in preparing' :
          j \in [key : P!Keys, path : P!Path, for : Persons] /\ j.for = P!To(j.key) /\ j.key # Group
  <2>1. PICK p \in Pics : preparing' =
          preparing \cup {[key |-> at, path |-> [pic |-> p, pasted |-> TRUE], for |-> who]}
    BY <1>4 DEF P!ClipboardPicture
  <2>2. [pic |-> p, pasted |-> TRUE] \in P!Path
    BY DEF P!Path
  <2> QED
    BY <1>4, <2>1, <2>2, ChosenPlaced DEF WorkPlaced, LooksPlaced
<1>5. ASSUME P!AttachClipboard PROVE AttachInv'
  <2>1. ListsPlaced'
    BY <1>5 DEF P!AttachClipboard, ListsPlaced
  <2>2. WorkPlaced' /\ LooksPlaced'
    BY <1>4, <1>5 DEF P!AttachClipboard, WorkPlaced, LooksPlaced
  <2> QED
    BY <2>1, <2>2
<1>6. ASSUME NEW c \in pastes, P!PasteChecked(c) PROVE AttachInv'
  <2>1. ListsPlaced'
    BY <1>6 DEF P!PasteChecked, ListsPlaced
  <2>2. \A d \in pastes' : d \in pastes
    BY <1>6 DEF P!PasteChecked
  <2>3. CASE UNCHANGED preparing
    BY <1>6, <2>1, <2>2, <2>3 DEF P!PasteChecked, WorkPlaced, LooksPlaced
  <2>4. CASE ~P!PasteStale(c) /\ P!CanAttach /\ P!ClipboardPicture(c.for)
    <3>1. c.for = P!To(at)
      BY <2>4 DEF P!PasteStale, WorkPlaced, LooksPlaced
    <3> QED
      BY <1>4, <1>6, <2>2, <2>4, <3>1 DEF P!PasteChecked, WorkPlaced, LooksPlaced, ListsPlaced
  <2> QED
    BY <1>6, <2>1, <2>3, <2>4 DEF P!PasteChecked
<1> QED
  BY <1>1, <1>2, <1>3, <1>5, <1>6

LEMMA DraftStep ==
  ASSUME AttachInv,
         (\E j \in preparing : P!HandleAttached(j)) \/ P!RemoveAttachment \/ P!OpenThread
  PROVE  AttachInv'
<1> USE DEF AttachInv
<1>1. ASSUME NEW j \in preparing, P!HandleAttached(j) PROVE AttachInv'
  <2>1. WorkPlaced' /\ LooksPlaced'
    BY <1>1 DEF P!HandleAttached, WorkPlaced, LooksPlaced
  <2>2. j \in [key : P!Keys, path : P!Path, for : Persons] /\ j.for = P!To(j.key) /\ j.key # Group
    BY DEF WorkPlaced, LooksPlaced
  <2> DEFINE x == [path |-> j.path, for |-> j.for]
  <2>3. x \in P!Picture /\ x.path = j.path /\ x.for = P!To(j.key)
    BY <2>2 DEF P!Picture, Persons
  <2>4. \/ UNCHANGED attached
        \/ /\ j.path \notin P!Paths(attached[j.key]) /\ ~(Len(attached[j.key]) >= MaxPics)
           /\ attached' = [attached EXCEPT ![j.key] = Append(@, x)]
    BY <1>1 DEF P!HandleAttached
  <2>5. Placed(attached[j.key], j.key)
    BY <2>2 DEF ListsPlaced
  <2>6. ASSUME j.path \notin P!Paths(attached[j.key]), ~(Len(attached[j.key]) >= MaxPics)
        PROVE  Placed(Append(attached[j.key], x), j.key)
    <3>1. Len(attached[j.key]) < MaxPics
      BY <2>5, <2>6, AttachAssumption DEF Placed, Gallery
    <3> HIDE DEF x
    <3> QED
      BY <2>2, <2>3, <2>5, <2>6, <3>1, AppendPlaced
  <2> HIDE DEF x
  <2>7. ListsPlaced'
    BY <1>1, <2>2, <2>4, <2>6 DEF P!HandleAttached, ListsPlaced
  <2> QED
    BY <2>1, <2>7
<1>2. ASSUME P!RemoveAttachment PROVE AttachInv'
  <2>1. Placed(P!Front(attached[at]), at)
    BY <1>2, FrontPlaced DEF P!RemoveAttachment, ListsPlaced
  <2>2. ListsPlaced'
    BY <1>2, <2>1 DEF P!RemoveAttachment, ListsPlaced
  <2>3. WorkPlaced' /\ LooksPlaced'
    BY <1>2 DEF P!RemoveAttachment, WorkPlaced, LooksPlaced
  <2> QED
    BY <2>2, <2>3
<1>3. ASSUME P!OpenThread PROVE AttachInv'
  <2>1. ListsPlaced'
    BY <1>3 DEF P!OpenThread, ListsPlaced
  <2>2. WorkPlaced'
    BY <1>3 DEF P!OpenThread, WorkPlaced
  <2>5. pEpoch' = pEpoch + 1 /\ pastes' = pastes
    BY <1>3 DEF P!OpenThread
  <2>3. pEpoch' \in Nat /\ \A c \in pastes' : c.epoch \in 0 .. pEpoch' /\ c.epoch # pEpoch'
    BY <2>5 DEF LooksPlaced
  <2>4. LooksPlaced'
    BY <2>3 DEF LooksPlaced
  <2> QED
    BY <2>1, <2>2, <2>4
<1> QED
  BY <1>1, <1>2, <1>3

LEMMA MessageStep ==
  ASSUME AttachInv, P!Send \/ P!Sent \/ \E f \in pFailed : P!Retry(f)
  PROVE  AttachInv'
<1> USE DEF AttachInv
<1>1. ASSUME P!Send PROVE AttachInv'
  <2>1. /\ at' \in P!Keys /\ P!To(at') = P!To(at)
        /\ pSending' = pSending \/ (pSending' \in P!Message /\ Placed(pSending'.pics, pSending'.key))
    BY <1>1, CapturedPlaced DEF P!Send, ListsPlaced
  <2>2. ListsPlaced'
    BY <1>1, <2>1 DEF P!Send, ListsPlaced
  <2>3. WorkPlaced' /\ LooksPlaced'
    BY <1>1, <2>1 DEF P!Send, WorkPlaced, LooksPlaced
  <2> QED
    BY <2>2, <2>3
<1>2. ASSUME NEW f \in pFailed, P!Retry(f) PROVE AttachInv'
  <2>1. Placed(f.pics, at) /\ at \in P!Keys
    BY <1>2 DEF P!Retry, ListsPlaced
  <2>2. /\ at' \in P!Keys /\ P!To(at') = P!To(at)
        /\ pSending' = pSending \/ (pSending' \in P!Message /\ Placed(pSending'.pics, pSending'.key))
    BY <1>2, <2>1, CapturedPlaced DEF P!Retry, ListsPlaced
  <2>3. attached' = attached \/ attached' = [attached EXCEPT ![at] = f.pics]
    BY <1>2 DEF P!Retry
  <2>4. \A g \in pFailed' : g \in pFailed
    BY <1>2 DEF P!Retry
  <2>5. ListsPlaced'
    BY <2>1, <2>2, <2>3, <2>4 DEF ListsPlaced
  <2>6. WorkPlaced' /\ LooksPlaced'
    BY <1>2, <2>2 DEF P!Retry, WorkPlaced, LooksPlaced
  <2> QED
    BY <2>5, <2>6
<1>3. ASSUME P!Sent PROVE AttachInv'
  <2>1. pSending \in P!Message /\ Placed(pSending.pics, pSending.key) /\ pSending' = None
    BY <1>3 DEF P!Sent, ListsPlaced
  <2>2. pFailed' \subseteq pFailed \cup {pSending}
    BY <1>3 DEF P!Sent
  <2>3. attached' = attached \/ attached' = [attached EXCEPT ![pSending.key] = <<>>]
    BY <1>3 DEF P!Sent
  <2>4. \A k \in P!Keys : Placed(<<>>, k)
    BY AttachAssumption DEF Placed, Gallery
  <2>5. ListsPlaced'
    BY <1>3, <2>1, <2>2, <2>3, <2>4 DEF ListsPlaced, P!Sent
  <2>6. WorkPlaced' /\ LooksPlaced'
    BY <1>3 DEF P!Sent, WorkPlaced, LooksPlaced
  <2> QED
    BY <2>5, <2>6
<1> QED
  BY <1>1, <1>2, <1>3

LEMMA AttachMoves == [Next]_vars => P!AttachNext \/ UNCHANGED attachVars
BY DEF Next, vars, HistoryNext, AssistantNext, AttachNext, MediaNext, ContactsNext, ReplyNext, EchoNext

LEMMA AttachStep == AttachInv /\ [Next]_vars => AttachInv'
<1>1. ASSUME AttachInv, P!AttachNext PROVE AttachInv'
  BY <1>1, PickStep, DraftStep, MessageStep DEF P!AttachNext
<1>2. ASSUME AttachInv, UNCHANGED attachVars PROVE AttachInv'
  BY <1>2 DEF attachVars, AttachInv, ListsPlaced, WorkPlaced, LooksPlaced
<1> QED
  BY <1>1, <1>2, AttachMoves

LEMMA AttachHolds == Spec => []AttachInv
<1>1. Init => AttachInv
  BY AttachStarts DEF Init
<1> QED
  BY <1>1, AttachStep, PTL DEF Spec

\* A picture ends up with the person it was chosen for, whatever conversation is
\* opened while the file is read or the clipboard looked at, and whether a number
\* becomes a conversation or a failed message is retried meanwhile: never in a
\* group, never twice, never one too many (attach.go).
THEOREM PicturesStayPlaced == Spec => []PicturesPlaced
<1>1. AttachInv => PicturesPlaced
  <2> SUFFICES ASSUME AttachInv, NEW k \in P!Keys
               PROVE  /\ Len(attached[k]) <= MaxPics
                      /\ P!IsInjective([i \in DOMAIN attached[k] |-> attached[k][i].path])
                      /\ \A i \in DOMAIN attached[k] : attached[k][i].for = P!To(k) /\ k # Group
    BY DEF PicturesPlaced, P!PicturesPlaced
  <2>1. Placed(attached[k], k)
    BY DEF AttachInv, ListsPlaced
  <2> QED
    BY <2>1 DEF Placed, P!IsInjective
<1> QED
  BY <1>1, AttachHolds, PTL

-----------------------------------------------------------------------------
(* Pictures stay in their draft. *)

KeptInv == kept \subseteq P!Keys \X P!Path /\ P!PicturesKept

LEMMA FrontKeeps ==
  ASSUME NEW k \in P!Keys, NEW ps, Placed(ps, k), ps # <<>>,
         NEW p \in P!Paths(ps), p # P!Last(ps).path
  PROVE  p \in P!Paths(P!Front(ps))
<1>1. ps \in Gallery /\ Len(ps) \in Nat /\ Len(ps) > 0 /\ DOMAIN ps = 1 .. Len(ps)
  BY DEF Placed, Gallery
<1>2. PICK i \in 1 .. Len(ps) : p = ps[i].path
  BY <1>1 DEF P!Paths
<1>3. i \in 1 .. Len(ps) - 1
  BY <1>1, <1>2 DEF P!Last
<1>4. /\ DOMAIN P!Front(ps) = 1 .. Len(ps) - 1
      /\ \A j \in 1 .. Len(ps) - 1 : P!Front(ps)[j] = ps[j]
  <2>1. \A j \in 1 .. Len(ps) - 1 : ps[j] \in P!Picture
    BY <1>1 DEF Gallery
  <2>2. 1 \in Int /\ Len(ps) - 1 \in Int /\ (Len(ps) - 1) - 1 + 1 = Len(ps) - 1
    BY <1>1
  <2>3. /\ P!Front(ps) \in Seq(P!Picture) /\ Len(P!Front(ps)) = Len(ps) - 1
        /\ \A j \in 1 .. Len(ps) - 1 : P!Front(ps)[j] = ps[j]
    BY <1>1, <2>1, <2>2, SubSeqProperties DEF P!Front
  <2> QED
    BY <2>3
<1> QED
  BY <1>2, <1>3, <1>4 DEF P!Paths

LEMMA AppendKeeps ==
  ASSUME NEW ps \in Gallery, NEW x
  PROVE  P!Paths(Append(ps, x)) = P!Paths(ps) \cup {x.path}
<1> DEFINE qs == Append(ps, x)
<1>1. /\ Len(ps) \in Nat /\ DOMAIN ps = 1 .. Len(ps) /\ DOMAIN qs = 1 .. Len(ps) + 1
      /\ qs[Len(ps) + 1] = x /\ \A i \in 1 .. Len(ps) : qs[i] = ps[i]
  BY DEF Gallery
<1> HIDE DEF qs
<1>2. 1 .. Len(ps) + 1 = (1 .. Len(ps)) \cup {Len(ps) + 1}
  BY <1>1
<1>3. P!Paths(qs) = {qs[i].path : i \in (1 .. Len(ps)) \cup {Len(ps) + 1}}
  BY <1>1, <1>2 DEF P!Paths
<1>4. P!Paths(ps) = {ps[i].path : i \in 1 .. Len(ps)}
  BY <1>1 DEF P!Paths
<1> QED
  BY <1>1, <1>3, <1>4 DEF qs

LEMMA SameKeeps ==
  ASSUME NEW ps \in Gallery, NEW qs \in Gallery, P!SameAttachments(ps, qs)
  PROVE  P!Paths(ps) = P!Paths(qs)
BY DEF Gallery, P!Paths, P!SameAttachments

LEMMA KeptStep == AttachInv /\ KeptInv /\ [Next]_vars => KeptInv'
<1> SUFFICES ASSUME AttachInv, KeptInv, P!AttachNext \/ UNCHANGED attachVars PROVE KeptInv'
  BY AttachMoves
<1>0. /\ at \in P!Keys /\ DOMAIN attached = P!Keys
      /\ \A k \in P!Keys : Placed(attached[k], k) /\ attached[k] \in Gallery
  BY DEF AttachInv, ListsPlaced, Placed
<1>1. CASE UNCHANGED <<attached, kept>>
  BY <1>1 DEF KeptInv, P!PicturesKept, P!Paths
<1>2. ASSUME NEW j \in preparing, P!HandleAttached(j), ~ UNCHANGED <<attached, kept>> PROVE KeptInv'
  <2>1. j.key \in P!Keys /\ j.path \in P!Path
    BY DEF AttachInv, WorkPlaced
  <2> DEFINE x == [path |-> j.path, for |-> j.for]
  <2>2. /\ attached' = [attached EXCEPT ![j.key] = Append(@, x)]
        /\ kept' = kept \cup {<<j.key, j.path>>}
    BY <1>2 DEF P!HandleAttached
  <2>3. x.path = j.path
    OBVIOUS
  <2> HIDE DEF x
  <2>4. P!Paths(attached'[j.key]) = P!Paths(attached[j.key]) \cup {j.path}
    BY <1>0, <2>1, <2>2, <2>3, AppendKeeps
  <2>5. \A k \in P!Keys : k # j.key => attached'[k] = attached[k]
    BY <1>0, <2>2
  <2> QED
    BY <2>1, <2>2, <2>4, <2>5 DEF KeptInv, P!PicturesKept
<1>3. ASSUME P!RemoveAttachment PROVE KeptInv'
  <2>1. /\ attached[at] # <<>> /\ kept' = kept \ {<<at, P!Last(attached[at]).path>>}
        /\ attached' = [attached EXCEPT ![at] = P!Front(@)]
    BY <1>3 DEF P!RemoveAttachment
  <2>2. ASSUME NEW e \in kept' PROVE e[2] \in P!Paths(attached'[e[1]])
    <3>1. e \in kept /\ e[2] \in P!Paths(attached[e[1]]) /\ e \in P!Keys \X P!Path
      BY <2>1, <2>2 DEF KeptInv, P!PicturesKept
    <3>2. CASE e[1] = at
      <4>1. e[2] # P!Last(attached[at]).path
        BY <2>1, <2>2, <3>1, <3>2
      <4> QED
        BY <1>0, <2>1, <3>1, <3>2, <4>1, FrontKeeps
    <3>3. CASE e[1] # at
      BY <1>0, <2>1, <3>1, <3>3
    <3> QED
      BY <3>2, <3>3
  <2> QED
    BY <2>1, <2>2 DEF KeptInv, P!PicturesKept
<1>4. ASSUME NEW f \in pFailed, P!Retry(f), ~ UNCHANGED <<attached, kept>> PROVE KeptInv'
  <2>1. /\ attached' = [attached EXCEPT ![at] = f.pics]
        /\ kept' = {e \in kept : e[1] # at} \cup {<<at, p>> : p \in P!Paths(f.pics)}
    BY <1>4 DEF P!Retry
  <2>2. f.pics \in Gallery
    BY DEF AttachInv, ListsPlaced, Placed
  <2>3. P!Paths(f.pics) \subseteq P!Path
    <3>1. \A i \in DOMAIN f.pics : f.pics[i] \in P!Picture
      BY <2>2 DEF Gallery
    <3>2. \A x \in P!Picture : x.path \in P!Path
      BY DEF P!Picture
    <3> QED
      BY <3>1, <3>2 DEF P!Paths
  <2> QED
    BY <1>0, <2>1, <2>3 DEF KeptInv, P!PicturesKept
<1>5. ASSUME P!Sent PROVE KeptInv'
  <2>1. pSending.key \in P!Keys /\ pSending.pics \in Gallery
    BY <1>5 DEF P!Sent, AttachInv, ListsPlaced, Placed, P!Message
  <2>2. CASE UNCHANGED <<attached, kept>>
    BY <2>2, <1>1
  <2>3. CASE /\ attached' = attached
             /\ kept' = kept \ {<<pSending.key, p>> : p \in P!Paths(pSending.pics)}
    BY <2>3 DEF KeptInv, P!PicturesKept
  <2>4. CASE /\ P!SameAttachments(attached[pSending.key], pSending.pics)
             /\ attached' = [attached EXCEPT ![pSending.key] = <<>>]
             /\ kept' = kept \ {<<pSending.key, p>> : p \in P!Paths(pSending.pics)}
    <3>1. P!Paths(attached[pSending.key]) = P!Paths(pSending.pics)
      BY <1>0, <2>1, <2>4, SameKeeps
    <3>2. ASSUME NEW e \in kept' PROVE e[1] # pSending.key /\ e \in kept
      <4>1. e \in kept /\ e = <<e[1], e[2]>> /\ e[2] \in P!Paths(attached[e[1]])
        BY <2>4 DEF KeptInv, P!PicturesKept
      <4> QED
        BY <2>4, <3>1, <3>2, <4>1
    <3> QED
      BY <1>0, <2>4, <3>2 DEF KeptInv, P!PicturesKept
  <2> QED
    BY <1>5, <2>2, <2>3, <2>4 DEF P!Sent
<1>6. P!AttachNext => UNCHANGED <<attached, kept>> \/ P!RemoveAttachment \/ P!Sent
        \/ (\E j \in preparing : P!HandleAttached(j)) \/ (\E f \in pFailed : P!Retry(f))
  BY DEF P!AttachNext, P!OpenPicker, P!ClosePicker, P!AttachFile, P!AttachClipboard, P!CheckPaste,
         P!OpenThread, P!Send, P!Able, P!PasteChecked
<1> QED
  BY <1>1, <1>2, <1>3, <1>4, <1>5, <1>6 DEF attachVars

\* A picture in a draft leaves it only by being taken back, sent, or replaced by a
\* retry; what is added while a message is under way stays (outgoingMsg in
\* history.go).
THEOREM PicturesStay == Spec => []PicturesKept
<1>1. Init => KeptInv
  BY DEF Init, P!AttachInit, KeptInv, P!PicturesKept
<1>2. KeptInv => PicturesKept
  BY DEF KeptInv, PicturesKept
<1> QED
  BY <1>1, <1>2, AttachHolds, KeptStep, PTL DEF Spec
-----------------------------------------------------------------------------
(* Received pictures. *)

\* The conversions that will draw part p when they end.
Waiting(p) == {c \in conversions : c.file = p /\ c.view # 0}
\* Every press of v has at most one of: the picture it drew, the conversion it
\* waits for, the download it waits for.
Pending(p) == Cardinality(Waiting(p)) + (IF want = p THEN 1 ELSE 0)

\* Whatever will be drawn comes from a viewer that was opened on a message.
MediaTypes ==
  /\ asked \in [M!Parts -> Nat] /\ vViews \in [M!Parts -> Nat]
  /\ \A f \in fetches : f.part \in M!Parts
  /\ \A c \in conversions : c.file \in M!Parts
  /\ want \in M!Parts \cup {None} /\ vRow \subseteq M!Parts /\ records \subseteq M!Parts
  /\ \A files \in vLoads : files \subseteq M!Parts
  /\ vModal # "" \/ fetches # {} \/ (\E c \in conversions : c.view # 0) =>
       viewing \in Messages /\ index \in DOMAIN viewing
Counted ==
  \A p \in M!Parts : IsFiniteSet(Waiting(p)) /\ vViews[p] + Pending(p) <= asked[p]
MediaInv == MediaTypes /\ Counted

LEMMA MediaMoves == [Next]_vars => M!MediaNext \/ UNCHANGED mediaVars
BY DEF Next, vars, HistoryNext, AssistantNext, AttachNext, MediaNext, ContactsNext, ReplyNext,
       EchoNext, mediaVars

\* FetchedKept: a recorded download stays recorded, a row is merged and never
\* replaced (attachments.go).
THEOREM DownloadsStay == Spec => []FetchedKept
<1>1. Init => M!FetchedKept
  BY DEF Init, M!MediaInit, M!FetchedKept
<1>2. M!FetchedKept /\ [Next]_vars => M!FetchedKept'
  <2> SUFFICES ASSUME M!FetchedKept, M!MediaNext \/ UNCHANGED mediaVars PROVE M!FetchedKept'
    BY MediaMoves
  <2>1. ASSUME NEW p \in records, M!Record(p) PROVE M!FetchedKept'
    BY <2>1 DEF M!Record, M!FetchedKept
  <2>2. ASSUME M!Merge PROVE M!FetchedKept'
    BY <2>2 DEF M!Merge, M!UpsertAttachment, M!FetchedKept
  <2>3. ASSUME UNCHANGED <<got, vRow>> PROVE M!FetchedKept'
    BY <2>3 DEF M!FetchedKept
  <2>4. ASSUME NEW f \in fetches, M!Fetched(f) PROVE UNCHANGED <<got, vRow>>
    BY <2>4 DEF M!Fetched
  <2>5. ASSUME NEW c \in conversions, M!Converted(c) PROVE UNCHANGED <<got, vRow>>
    BY <2>5 DEF M!Converted
  <2>6. M!OpenMediaViewer \/ M!Turn \/ M!PreviewAttachment \/ M!Download \/ M!OpenAttachment
          \/ M!Load \/ M!Loaded \/ M!Vanish => UNCHANGED <<got, vRow>>
    BY DEF M!OpenMediaViewer, M!Turn, M!PreviewAttachment, M!Download, M!OpenAttachment, M!Load,
           M!Loaded, M!Vanish
  <2>7. CASE UNCHANGED mediaVars
    BY <2>7, <2>3 DEF mediaVars
  <2> QED
    BY <2>1, <2>2, <2>3, <2>4, <2>5, <2>6, <2>7 DEF M!MediaNext
<1> QED
  BY <1>1, <1>2, PTL DEF Spec, FetchedKept

LEMMA PartTypes ==
  ASSUME NEW m \in Messages, NEW i \in DOMAIN m
  PROVE  m[i] \in M!Parts
BY DEF M!Parts

\* One part is drawn, or a conversion takes up waiting for it, or neither.
Drawn(p) ==
  \/ vViews' = [vViews EXCEPT ![p] = @ + 1] /\ conversions' = conversions
  \/ vViews' = vViews /\ conversions' = conversions
  \/ vViews' = vViews /\ \E q, n : conversions' = conversions \cup {M!ConvertOne(q, p, n)}

\* Drawing p accounts for one press, and changes the account of no other part.
LEMMA DrawnOnce ==
  ASSUME MediaInv, NEW p \in M!Parts, Drawn(p), NEW q \in M!Parts
  PROVE  /\ vViews' \in [M!Parts -> Nat] /\ IsFiniteSet(Waiting(q)')
         /\ vViews'[q] + Cardinality(Waiting(q)')
              <= vViews[q] + Cardinality(Waiting(q)) + (IF p = q THEN 1 ELSE 0)
<1>1. /\ vViews \in [M!Parts -> Nat] /\ IsFiniteSet(Waiting(q)) /\ Cardinality(Waiting(q)) \in Nat
  BY FS_CardinalityType DEF MediaInv, MediaTypes, Counted
<1>2. CASE vViews' = [vViews EXCEPT ![p] = @ + 1] /\ conversions' = conversions
  <2>1. Waiting(q)' = Waiting(q)
    BY <1>2 DEF Waiting
  <2>2. vViews'[q] = vViews[q] + (IF p = q THEN 1 ELSE 0) /\ vViews' \in [M!Parts -> Nat]
    BY <1>1, <1>2
  <2>3. vViews[q] \in Nat
    BY <1>1
  <2> QED
    BY <1>1, <2>1, <2>2, <2>3
<1>3. CASE vViews' = vViews /\ conversions' = conversions
  <2>1. Waiting(q)' = Waiting(q)
    BY <1>3 DEF Waiting
  <2>2. vViews[q] \in Nat
    BY <1>1
  <2> QED
    BY <1>1, <1>3, <2>1, <2>2
<1>4. ASSUME vViews' = vViews, NEW r, NEW n,
             conversions' = conversions \cup {M!ConvertOne(r, p, n)}
      PROVE  /\ vViews' \in [M!Parts -> Nat] /\ IsFiniteSet(Waiting(q)')
             /\ vViews'[q] + Cardinality(Waiting(q)')
                  <= vViews[q] + Cardinality(Waiting(q)) + (IF p = q THEN 1 ELSE 0)
  <2> DEFINE c == M!ConvertOne(r, p, n)
  <2>1. c.file = p
    BY DEF M!ConvertOne
  <2>2. conversions' = conversions \cup {c}
    BY <1>4
  <2> HIDE DEF c
  <2>3. Waiting(q)' = Waiting(q) \/ (p = q /\ Waiting(q)' = Waiting(q) \cup {c})
    BY <2>1, <2>2 DEF Waiting
  <2>4. /\ IsFiniteSet(Waiting(q) \cup {c})
        /\ Cardinality(Waiting(q) \cup {c}) \in {Cardinality(Waiting(q)), Cardinality(Waiting(q)) + 1}
    BY <1>1, FS_AddElement
  <2>5. vViews[q] \in Nat
    BY <1>1
  <2> QED
    BY <1>1, <1>4, <2>3, <2>4, <2>5
<1> QED
  BY <1>2, <1>3, <1>4 DEF Drawn

\* What leaves the account of every part alone.
LEMMA SameCount ==
  ASSUME MediaInv, UNCHANGED <<conversions, asked, vViews>>,
         want' = want \/ want' = None
  PROVE  Counted'
<1>1. \A p \in M!Parts : Waiting(p)' = Waiting(p)
  BY DEF Waiting
<1>2. SUFFICES ASSUME NEW p \in M!Parts
               PROVE  IsFiniteSet(Waiting(p)') /\ vViews'[p] + Pending(p)' <= asked'[p]
  BY DEF Counted
<1>3. /\ IsFiniteSet(Waiting(p)) /\ vViews[p] + Pending(p) <= asked[p]
      /\ vViews[p] \in Nat /\ asked[p] \in Nat /\ Cardinality(Waiting(p)) \in Nat
  BY FS_CardinalityType DEF MediaInv, MediaTypes, Counted
<1>4. want' = p => want = p
  BY MediaAssumption
<1> QED
  BY <1>1, <1>3, <1>4 DEF Pending

LEMMA MediaStarts == M!MediaInit => MediaInv
<1> SUFFICES ASSUME M!MediaInit PROVE MediaInv
  OBVIOUS
<1>1. MediaTypes
  BY DEF M!MediaInit, MediaTypes
<1>2. ASSUME NEW p \in M!Parts PROVE IsFiniteSet(Waiting(p)) /\ vViews[p] + Pending(p) <= asked[p]
  <2>1. Waiting(p) = {} /\ want # p /\ vViews[p] = 0 /\ asked[p] = 0
    BY MediaAssumption DEF M!MediaInit, Waiting
  <2>2. IsFiniteSet({}) /\ Cardinality({}) = 0
    BY FS_EmptySet
  <2> QED
    BY <2>1, <2>2 DEF Pending
<1> QED
  BY <1>1, <1>2 DEF MediaInv, Counted

LEMMA MediaPlain ==
  ASSUME MediaInv, M!OpenMediaViewer \/ M!Turn \/ M!Download \/ M!OpenAttachment
                     \/ (\E p \in records : M!Record(p)) \/ M!Merge \/ M!Load \/ M!Vanish
  PROVE  MediaInv'
<1>1. UNCHANGED <<conversions, asked, vViews>> /\ (want' = want \/ want' = None)
  BY DEF M!OpenMediaViewer, M!Turn, M!Download, M!OpenAttachment, M!Record, M!Merge, M!Load,
         M!Vanish
<1>2. ASSUME M!OpenMediaViewer PROVE MediaTypes'
  BY <1>2, MediaAssumption DEF M!OpenMediaViewer, MediaInv, MediaTypes
<1>3. ASSUME M!Turn PROVE MediaTypes'
  BY <1>3 DEF M!Turn, MediaInv, MediaTypes
<1>4. ASSUME M!Download PROVE MediaTypes'
  <2>1. viewing \in Messages /\ index \in DOMAIN viewing /\ M!Current \in M!Parts
    BY <1>4, PartTypes DEF M!Download, M!Current, MediaInv, MediaTypes
  <2> QED
    BY <1>4, <2>1 DEF M!Download, M!FetchAttachment, MediaInv, MediaTypes
<1>5. ASSUME M!OpenAttachment PROVE MediaTypes'
  BY <1>5 DEF M!OpenAttachment, MediaInv, MediaTypes
<1>6. ASSUME (\E p \in records : M!Record(p)) \/ M!Merge \/ M!Load \/ M!Vanish PROVE MediaTypes'
  <2>1. /\ UNCHANGED <<asked, vViews, fetches, conversions, want, vModal, viewing, index>>
        /\ records' \subseteq records /\ vRow' \subseteq M!Parts
        /\ \A fs \in vLoads' : fs \in vLoads \/ fs = vRow
    BY <1>6 DEF M!Record, M!Merge, M!UpsertAttachment, M!Load, M!Vanish, MediaInv, MediaTypes
  <2> QED
    BY <2>1 DEF MediaInv, MediaTypes
<1>7. MediaTypes'
  BY <1>2, <1>3, <1>4, <1>5, <1>6 DEF MediaInv
<1> QED
  BY <1>1, <1>7, SameCount DEF MediaInv

\* A file that is at hand is drawn, or its thumbnail is, or it is converted for v.
LEMMA LocalView ==
  ASSUME NEW q, NEW f, NEW files, NEW copies, NEW n, M!ViewLocal(q, f, files, copies, n)
  PROVE  Drawn(f) /\ \A c \in conversions' : c \in conversions \/ c.file = f
<1>1. \/ M!Drawn(f) /\ conversions' = conversions
      \/ vViews' = vViews /\ conversions' = conversions
      \/ vViews' = vViews /\ conversions' = conversions \cup {M!ConvertOne(q, f, n)}
  BY DEF M!ViewLocal, M!ViewFallback
<1>2. Drawn(f)
  BY <1>1 DEF M!Drawn, Drawn
<1>3. M!ConvertOne(q, f, n).file = f
  BY DEF M!ConvertOne
<1> QED
  BY <1>1, <1>2, <1>3

\* v: the press accounts for the picture, its conversion or its download.
LEMMA PreviewStep == MediaInv /\ M!PreviewAttachment => MediaInv'
<1> SUFFICES ASSUME MediaInv, M!PreviewAttachment PROVE MediaInv'
  OBVIOUS
<1> DEFINE p == M!Current
<1>1. vModal = "media" /\ viewing \in Messages /\ index \in DOMAIN viewing /\ p \in M!Parts
  BY PartTypes DEF M!PreviewAttachment, M!Current, MediaInv, MediaTypes
<1>2. /\ asked' = [asked EXCEPT ![p] = @ + 1]
      /\ UNCHANGED <<viewing, index, vRow, records, vLoads>>
      /\ \/ /\ Drawn(p) /\ UNCHANGED <<want, fetches>>
            /\ \A c \in conversions' : c \in conversions \/ c.file = p
         \/ /\ want' = p /\ UNCHANGED <<vModal, conversions, vViews>>
            /\ \A f \in fetches' : f \in fetches \/ f.part = p
  <2>1. ASSUME M!ViewLocal(M!Current, p, disk, converted, vKeys')
        PROVE  Drawn(p) /\ \A c \in conversions' : c \in conversions \/ c.file = p
    BY <2>1, LocalView
  <2>2. /\ asked' = [asked EXCEPT ![p] = @ + 1]
        /\ UNCHANGED <<viewing, index, vRow, records, vLoads>>
    BY DEF M!PreviewAttachment
  <2>3. \/ M!ViewLocal(M!Current, p, disk, converted, vKeys') /\ UNCHANGED <<want, fetches>>
        \/ /\ want' = p /\ UNCHANGED <<vModal, conversions, vViews>>
           /\ \A f \in fetches' : f \in fetches \/ f.part = p
    BY DEF M!PreviewAttachment, M!FetchAttachment
  <2> QED
    BY <2>1, <2>2, <2>3
<1> HIDE DEF p
<1>3. /\ asked' \in [M!Parts -> Nat] /\ \A q \in M!Parts : asked[q] \in Nat
      /\ \A q \in M!Parts : asked'[q] = asked[q] + (IF p = q THEN 1 ELSE 0)
  BY <1>1, <1>2 DEF MediaInv, MediaTypes
<1>4. ASSUME Drawn(p), UNCHANGED <<want, fetches>>,
             \A c \in conversions' : c \in conversions \/ c.file = p
      PROVE  MediaInv'
  <2>1. vViews' \in [M!Parts -> Nat]
    BY <1>1, <1>4, DrawnOnce
  <2>2. MediaTypes'
    BY <1>1, <1>2, <1>3, <1>4, <2>1 DEF MediaInv, MediaTypes
  <2>3. ASSUME NEW q \in M!Parts
        PROVE  IsFiniteSet(Waiting(q)') /\ vViews'[q] + Pending(q)' <= asked'[q]
    <3>1. /\ IsFiniteSet(Waiting(q)') /\ Cardinality(Waiting(q)') \in Nat /\ vViews'[q] \in Nat
          /\ vViews'[q] + Cardinality(Waiting(q)')
               <= vViews[q] + Cardinality(Waiting(q)) + (IF p = q THEN 1 ELSE 0)
      BY <1>1, <1>4, <2>1, DrawnOnce, FS_CardinalityType
    <3>2. /\ vViews[q] + Pending(q) <= asked[q] /\ vViews[q] \in Nat /\ asked[q] \in Nat
          /\ Cardinality(Waiting(q)) \in Nat
      BY FS_CardinalityType DEF MediaInv, MediaTypes, Counted
    <3> QED
      BY <1>3, <1>4, <3>1, <3>2 DEF Pending
  <2> QED
    BY <2>2, <2>3 DEF MediaInv, Counted
<1>5. ASSUME want' = p, UNCHANGED <<vModal, conversions, vViews>>,
             \A f \in fetches' : f \in fetches \/ f.part = p
      PROVE  MediaInv'
  <2>1. MediaTypes'
    BY <1>1, <1>2, <1>3, <1>5 DEF MediaInv, MediaTypes
  <2>2. ASSUME NEW q \in M!Parts
        PROVE  IsFiniteSet(Waiting(q)') /\ vViews'[q] + Pending(q)' <= asked'[q]
    <3>1. Waiting(q)' = Waiting(q)
      BY <1>5 DEF Waiting
    <3>2. /\ IsFiniteSet(Waiting(q)) /\ Cardinality(Waiting(q)) \in Nat
          /\ vViews[q] + Pending(q) <= asked[q] /\ vViews[q] \in Nat /\ asked[q] \in Nat
      BY FS_CardinalityType DEF MediaInv, MediaTypes, Counted
    <3> QED
      BY <1>3, <1>5, <3>1, <3>2 DEF Pending
  <2> QED
    BY <2>1, <2>2 DEF MediaInv, Counted
<1> QED
  BY <1>2, <1>4, <1>5

\* The download v waited for hands its account on; any other ends the wait.
LEMMA FetchedStep ==
  ASSUME MediaInv, NEW f \in fetches, M!Fetched(f)
  PROVE  MediaInv'
<1> DEFINE p == f.part
<1>1. viewing \in Messages /\ index \in DOMAIN viewing /\ p \in M!Parts
  BY DEF MediaInv, MediaTypes
<1>2. /\ want' = None /\ UNCHANGED <<viewing, index, asked, vRow, vLoads>>
      /\ fetches' \subseteq fetches /\ records' \subseteq records \cup {p}
      /\ \/ UNCHANGED <<vViews, conversions>>
         \/ want = p /\ Drawn(p) /\ \A c \in conversions' : c \in conversions \/ c.file = p
  <2>1. ASSUME M!ViewLocal(M!Current, p, disk', converted', f.n)
        PROVE  Drawn(p) /\ \A c \in conversions' : c \in conversions \/ c.file = p
    BY <2>1, LocalView
  <2>2. \/ UNCHANGED <<vViews, conversions>>
        \/ want = p /\ M!ViewLocal(M!Current, p, disk', converted', f.n)
    BY DEF M!Fetched, M!Wanted
  <2>3. /\ want' = None /\ UNCHANGED <<viewing, index, asked, vRow, vLoads>>
        /\ fetches' \subseteq fetches /\ records' \subseteq records \cup {p}
    BY DEF M!Fetched
  <2> QED
    BY <2>1, <2>2, <2>3
<1> HIDE DEF p
<1>3. ASSUME UNCHANGED <<vViews, conversions>> PROVE MediaInv'
  <2>1. MediaTypes'
    BY <1>1, <1>2, <1>3 DEF MediaInv, MediaTypes
  <2> QED
    BY <1>2, <1>3, <2>1, SameCount DEF MediaInv
<1>4. ASSUME want = p, Drawn(p), \A c \in conversions' : c \in conversions \/ c.file = p
      PROVE  MediaInv'
  <2>1. vViews' \in [M!Parts -> Nat]
    BY <1>1, <1>4, DrawnOnce
  <2>2. MediaTypes'
    BY <1>1, <1>2, <1>4, <2>1 DEF MediaInv, MediaTypes
  <2>3. ASSUME NEW q \in M!Parts
        PROVE  IsFiniteSet(Waiting(q)') /\ vViews'[q] + Pending(q)' <= asked'[q]
    <3>1. /\ IsFiniteSet(Waiting(q)') /\ Cardinality(Waiting(q)') \in Nat /\ vViews'[q] \in Nat
          /\ vViews'[q] + Cardinality(Waiting(q)')
               <= vViews[q] + Cardinality(Waiting(q)) + (IF p = q THEN 1 ELSE 0)
      BY <1>1, <1>4, <2>1, DrawnOnce, FS_CardinalityType
    <3>2. /\ vViews[q] + Pending(q) <= asked[q] /\ vViews[q] \in Nat /\ asked[q] \in Nat
          /\ Cardinality(Waiting(q)) \in Nat
      BY FS_CardinalityType DEF MediaInv, MediaTypes, Counted
    <3>3. want' # q /\ asked' = asked
      BY <1>2, MediaAssumption
    <3> QED
      BY <1>4, <3>1, <3>2, <3>3 DEF Pending
  <2> QED
    BY <2>2, <2>3 DEF MediaInv, Counted
<1> QED
  BY <1>2, <1>3, <1>4

\* A conversion that ends is drawn once, or not at all.
LEMMA ConvertedStep ==
  ASSUME MediaInv, NEW c \in conversions, M!Converted(c)
  PROVE  MediaInv'
<1> DEFINE p == c.file
<1>1. /\ conversions' = conversions \ {c} /\ p \in M!Parts
      /\ UNCHANGED <<viewing, index, want, asked, fetches, vRow, records, vLoads>>
      /\ \/ c.view = 0 /\ UNCHANGED <<vModal, vViews>>
         \/ c.view # 0 /\ (vViews' = vViews \/ vViews' = [vViews EXCEPT ![p] = @ + 1])
  BY DEF M!Converted, M!ViewFallback, M!Drawn, MediaInv, MediaTypes
<1>2. vViews' \in [M!Parts -> Nat]
  <2>1. vViews \in [M!Parts -> Nat]
    BY DEF MediaInv, MediaTypes
  <2>2. vViews[p] + 1 \in Nat
    BY <1>1, <2>1
  <2> HIDE DEF p
  <2> QED
    BY <1>1, <2>1, <2>2
<1>3. MediaTypes'
  BY <1>1, <1>2 DEF MediaInv, MediaTypes
<1>4. ASSUME NEW q \in M!Parts
      PROVE  IsFiniteSet(Waiting(q)') /\ vViews'[q] + Pending(q)' <= asked'[q]
  <2>1. /\ IsFiniteSet(Waiting(q)) /\ Cardinality(Waiting(q)) \in Nat
        /\ vViews[q] + Pending(q) <= asked[q] /\ vViews[q] \in Nat /\ asked[q] \in Nat
    BY FS_CardinalityType DEF MediaInv, MediaTypes, Counted
  <2>2. CASE c \in Waiting(q)
    <3>1. Waiting(q)' = Waiting(q) \ {c}
      BY <1>1 DEF Waiting
    <3>2. /\ IsFiniteSet(Waiting(q)') /\ Cardinality(Waiting(q)') = Cardinality(Waiting(q)) - 1
      BY <2>1, <2>2, <3>1, FS_RemoveElement
    <3>3. vViews'[q] \in {vViews[q], vViews[q] + 1}
      BY <1>1 DEF MediaInv, MediaTypes
    <3> QED
      BY <1>1, <2>1, <3>2, <3>3 DEF Pending
  <2>3. CASE c \notin Waiting(q)
    <3>1. Waiting(q)' = Waiting(q)
      BY <1>1, <2>3 DEF Waiting
    <3>2. vViews'[q] = vViews[q]
      BY <1>1, <2>3 DEF Waiting, MediaInv, MediaTypes
    <3> QED
      BY <1>1, <2>1, <3>1, <3>2 DEF Pending
  <2> QED
    BY <2>2, <2>3
<1> QED
  BY <1>3, <1>4 DEF MediaInv, Counted

\* What a load converts, nobody waits for.
LEMMA LoadedStep == MediaInv /\ M!Loaded => MediaInv'
<1> SUFFICES ASSUME MediaInv, M!Loaded PROVE MediaInv'
  OBVIOUS
<1>1. /\ UNCHANGED <<viewing, index, want, asked, fetches, vModal, vViews>>
      /\ conversions \subseteq conversions' /\ vLoads' = {} /\ UNCHANGED <<vRow, records>>
      /\ \A c \in conversions' : c \in conversions \/ (c.view = 0 /\ c.file \in M!Parts)
  <2>1. PICK files \in vLoads : M!ConvertAttachments(files)
    BY DEF M!Loaded
  <2>2. files \subseteq M!Parts
    BY DEF MediaInv, MediaTypes
  <2>3. ASSUME NEW c \in conversions', c \notin conversions PROVE c.view = 0 /\ c.file \in M!Parts
    <3>1. PICK p \in files : c = M!ConvertOne(p, p, 0)
      BY <2>1, <2>3 DEF M!ConvertAttachments
    <3> QED
      BY <2>2, <3>1 DEF M!ConvertOne
  <2>4. conversions \subseteq conversions'
    BY <2>1 DEF M!ConvertAttachments
  <2>5. UNCHANGED <<viewing, index, want, asked, fetches, vModal, vViews, vRow, records>>
        /\ vLoads' = {}
    BY DEF M!Loaded
  <2> QED
    BY <2>3, <2>4, <2>5
<1>2. MediaTypes'
  BY <1>1 DEF MediaInv, MediaTypes
<1>3. ASSUME NEW q \in M!Parts PROVE Waiting(q)' = Waiting(q)
  BY <1>1 DEF Waiting
<1> QED
  BY <1>1, <1>2, <1>3 DEF MediaInv, Counted, Pending

LEMMA MediaStep == MediaInv /\ [Next]_vars => MediaInv'
<1> SUFFICES ASSUME MediaInv, M!MediaNext \/ UNCHANGED mediaVars PROVE MediaInv'
  BY MediaMoves
<1>1. CASE UNCHANGED mediaVars
  <2>1. MediaTypes'
    BY <1>1 DEF mediaVars, MediaInv, MediaTypes
  <2> QED
    BY <1>1, <2>1, SameCount DEF mediaVars, MediaInv
<1> QED
  BY <1>1, MediaPlain, PreviewStep, FetchedStep, ConvertedStep, LoadedStep DEF M!MediaNext

\* ShownOnRequest: the terminal is taken for a part, by its picture or by a
\* thumbnail in its place, at most as often as v was pressed on it (media.go).
THEOREM DrawnOnRequest == Spec => []ShownOnRequest
<1>1. Init => MediaInv
  BY MediaStarts DEF Init
<1>2. MediaInv => M!ShownOnRequest
  <2> SUFFICES ASSUME MediaInv, NEW p \in M!Parts PROVE vViews[p] <= asked[p]
    BY DEF M!ShownOnRequest
  <2>1. /\ vViews[p] + Pending(p) <= asked[p] /\ vViews[p] \in Nat /\ asked[p] \in Nat
        /\ Cardinality(Waiting(p)) \in Nat
    BY FS_CardinalityType DEF MediaInv, MediaTypes, Counted
  <2> QED
    BY <2>1 DEF Pending
<1> QED
  BY <1>1, <1>2, MediaStep, PTL DEF Spec, ShownOnRequest
-----------------------------------------------------------------------------
(* What of TypeOK is left open by where pictures go and when they are drawn. *)

\* Pictures to send: what of TypeOK is left open by where they are placed.
Composing == pModal \in {"", "attach"} /\ attached \in [P!Keys -> Gallery]

LEMMA ComposingStep == AttachInv /\ AttachInv' /\ Composing /\ [Next]_vars => Composing'
<1> SUFFICES ASSUME AttachInv, AttachInv', Composing, [Next]_vars PROVE Composing'
  OBVIOUS
<1>1. P!AttachNext \/ UNCHANGED attachVars
  BY AttachMoves
<1>2. pModal' \in {"", "attach"}
  BY <1>1 DEF P!AttachNext, P!OpenPicker, P!ClosePicker, P!AttachFile, P!AttachClipboard, P!CheckPaste,
     P!RemoveAttachment, P!OpenThread, P!Send, P!Sent, P!Able, P!PasteChecked, P!HandleAttached, P!Retry,
     attachVars, Composing
<1>3. attached' = attached \/ \E k, ps : attached' = [attached EXCEPT ![k] = ps]
  BY <1>1 DEF P!AttachNext, P!OpenPicker, P!ClosePicker, P!AttachFile, P!AttachClipboard, P!CheckPaste,
     P!RemoveAttachment, P!OpenThread, P!Send, P!Sent, P!Able, P!PasteChecked, P!HandleAttached, P!Retry,
     attachVars
<1>4. attached' = [k \in P!Keys |-> attached'[k]]
  BY <1>3 DEF Composing
<1>5. \A k \in P!Keys : attached'[k] \in Gallery
  BY DEF AttachInv, ListsPlaced, Placed
<1>6. attached' \in [P!Keys -> Gallery]
  BY <1>4, <1>5
<1> QED
  BY <1>2, <1>6 DEF Composing

LEMMA AttachTyped == Spec => []P!AttachOK
<1>1. Init => AttachInv /\ Composing
  <2> SUFFICES ASSUME Init PROVE AttachInv /\ Composing
    OBVIOUS
  <2>1. <<>> \in Gallery
    BY DEF Gallery
  <2> QED
    BY <2>1, AttachStarts DEF Init, P!AttachInit, Composing
<1>2. AttachInv /\ Composing => P!AttachOK
  BY DEF AttachInv, ListsPlaced, WorkPlaced, LooksPlaced, Composing, Gallery, Persons, P!AttachOK
<1> QED
  BY <1>1, <1>2, AttachStep, ComposingStep, PTL DEF Spec

\* Received pictures: what of TypeOK is left open by what will be drawn.
Viewing ==
  /\ vModal \in {"", "media", "open-attachment"} /\ viewing \in Messages \cup {<<>>}
  /\ disk \subseteq M!Parts /\ converted \subseteq M!Parts
  /\ shown \subseteq M!Parts /\ atts \subseteq M!Parts
  /\ fetches \subseteq [part : M!Parts, n : 1 .. MaxKeys["media"]]
  /\ conversions \subseteq [file : M!Parts, part : M!Parts, view : 0 .. MaxKeys["media"]]
  /\ opening \in M!Parts \cup {None} /\ (vModal = "open-attachment" => opening # None)
  /\ vKeys \in 0 .. MaxKeys["media"]

LEMMA MediaBound == MaxKeys["media"] \in Nat
BY MediaAssumption

LEMMA ViewingStarts == M!MediaInit => Viewing
<1> SUFFICES ASSUME M!MediaInit PROVE Viewing
  OBVIOUS
<1>1. vKeys \in 0 .. MaxKeys["media"]
  <2>1. vKeys = 0
    BY DEF M!MediaInit
  <2> QED
    BY <2>1, MediaBound
<1>2. disk \subseteq M!Parts
  BY MediaAssumption DEF M!MediaInit
<1> QED
  BY <1>1, <1>2 DEF M!MediaInit, Viewing

LEMMA ViewsLocal ==
  ASSUME Viewing, NEW p \in M!Parts, NEW f \in M!Parts, NEW files, NEW copies,
         NEW n \in 0 .. MaxKeys["media"], M!ViewLocal(p, f, files, copies, n)
  PROVE  /\ vModal' \in {vModal, "media"}
         /\ conversions' \subseteq [file : M!Parts, part : M!Parts, view : 0 .. MaxKeys["media"]]
<1>1. M!ConvertOne(p, f, n) \in [file : M!Parts, part : M!Parts, view : 0 .. MaxKeys["media"]]
  BY DEF M!ConvertOne
<1>2. vModal' \in {vModal, "media"} /\ conversions' \subseteq conversions \cup {M!ConvertOne(p, f, n)}
  BY DEF M!ViewLocal, M!ViewFallback
<1> QED
  BY <1>1, <1>2 DEF Viewing

LEMMA ViewingKeys ==
  ASSUME MediaInv, Viewing,
         M!OpenMediaViewer \/ M!Turn \/ M!PreviewAttachment \/ M!Download \/ M!OpenAttachment
  PROVE  Viewing'
<1>1. /\ vKeys' \in 1 .. MaxKeys["media"] /\ vKeys' \in 0 .. MaxKeys["media"]
      /\ UNCHANGED <<disk, converted, shown>>
  <2>1. M!Pressed /\ UNCHANGED <<disk, converted, shown>>
    BY DEF M!OpenMediaViewer, M!Turn, M!PreviewAttachment, M!Download, M!OpenAttachment
  <2> QED
    <3>1. vKeys \in 0 .. MaxKeys["media"] /\ vKeys < MaxKeys["media"] /\ vKeys' = vKeys + 1
      BY <2>1 DEF M!Pressed, Viewing
    <3>2. vKeys' \in 1 .. MaxKeys["media"] /\ vKeys' \in 0 .. MaxKeys["media"]
      BY <3>1, MediaBound
    <3> QED
      BY <2>1, <3>2
<1>2. vModal = "media" => M!Current \in M!Parts
  BY PartTypes DEF M!Current, MediaInv, MediaTypes
<1>3. CASE M!OpenMediaViewer \/ M!Turn
  BY <1>1, <1>3 DEF M!OpenMediaViewer, M!Turn, Viewing
<1>4. ASSUME NEW p \in M!Parts, M!FetchAttachment(p)
      PROVE  fetches' \subseteq [part : M!Parts, n : 1 .. MaxKeys["media"]]
  <2>1. [part |-> p, n |-> vKeys'] \in [part : M!Parts, n : 1 .. MaxKeys["media"]]
    BY <1>1
  <2> QED
    BY <1>4, <2>1 DEF M!FetchAttachment, Viewing
<1>5. CASE M!PreviewAttachment
  <2>1. UNCHANGED <<viewing, atts, opening>> /\ vModal = "media"
    BY <1>5 DEF M!PreviewAttachment
  <2>2. \/ M!ViewLocal(M!Current, M!Current, disk, converted, vKeys') /\ fetches' = fetches
        \/ M!FetchAttachment(M!Current) /\ UNCHANGED <<vModal, conversions>>
    BY <1>5 DEF M!PreviewAttachment
  <2>3. /\ vModal' \in {vModal, "media"}
        /\ conversions' \subseteq [file : M!Parts, part : M!Parts, view : 0 .. MaxKeys["media"]]
        /\ fetches' \subseteq [part : M!Parts, n : 1 .. MaxKeys["media"]]
    BY <1>1, <1>2, <1>4, <2>1, <2>2, ViewsLocal DEF Viewing
  <2> QED
    BY <1>1, <2>1, <2>3 DEF Viewing
<1>6. CASE M!Download
  <2>1. UNCHANGED <<vModal, viewing, atts, opening, conversions>>
        /\ (fetches' = fetches \/ (vModal = "media" /\ M!FetchAttachment(M!Current)))
    BY <1>6 DEF M!Download
  <2> QED
    BY <1>1, <1>2, <1>4, <2>1 DEF Viewing
<1>7. CASE M!OpenAttachment
  <2>1. M!Current # None \/ vModal # "media"
    BY <1>2, MediaAssumption
  <2>2. UNCHANGED <<viewing, atts, fetches, conversions>>
        /\ \/ vModal = "media" /\ vModal' = "open-attachment" /\ opening' = M!Current
           \/ vModal' = "media" /\ opening' = None
    BY <1>7 DEF M!OpenAttachment
  <2> QED
    BY <1>1, <1>2, <2>1, <2>2 DEF Viewing
<1> QED
  BY <1>3, <1>5, <1>6, <1>7

LEMMA ViewingResults ==
  ASSUME MediaInv, Viewing,
         \/ M!Merge \/ M!Load \/ M!Loaded \/ M!Vanish
         \/ \E f \in fetches : M!Fetched(f)
         \/ \E p \in records : M!Record(p)
         \/ \E c \in conversions : M!Converted(c)
  PROVE  Viewing'
<1>1. CASE M!Merge \/ M!Load \/ M!Vanish \/ \E p \in records : M!Record(p)
  <2>1. /\ UNCHANGED <<vModal, viewing, shown, atts, fetches, conversions, opening, vKeys>>
        /\ disk' \subseteq disk /\ converted' \subseteq converted
    BY <1>1 DEF M!Merge, M!Load, M!Vanish, M!Record
  <2> QED
    BY <2>1 DEF Viewing
<1>2. CASE M!Loaded
  <2>1. UNCHANGED <<vModal, viewing, atts, disk, converted, fetches, opening, vKeys>>
    BY <1>2 DEF M!Loaded
  <2>2. PICK files \in vLoads : shown' = files /\ M!ConvertAttachments(files)
    BY <1>2 DEF M!Loaded
  <2>3. files \subseteq M!Parts
    BY DEF MediaInv, MediaTypes
  <2>4. conversions' \subseteq [file : M!Parts, part : M!Parts, view : 0 .. MaxKeys["media"]]
    <3>1. 0 \in 0 .. MaxKeys["media"]
      BY MediaBound
    <3>2. \A p \in files : M!ConvertOne(p, p, 0) \in [file : M!Parts, part : M!Parts, view : 0 .. MaxKeys["media"]]
      BY <2>3, <3>1 DEF M!ConvertOne
    <3>3. conversions' \subseteq conversions \cup {M!ConvertOne(p, p, 0) : p \in files}
      BY <2>2 DEF M!ConvertAttachments
    <3> QED
      BY <3>2, <3>3 DEF Viewing
  <2> QED
    BY <2>1, <2>2, <2>3, <2>4 DEF Viewing
<1>3. ASSUME NEW f \in fetches, M!Fetched(f) PROVE Viewing'
  <2>1. f.part \in M!Parts /\ f.n \in 0 .. MaxKeys["media"]
    <3>1. f \in [part : M!Parts, n : 1 .. MaxKeys["media"]]
      BY DEF Viewing
    <3>2. f.part \in M!Parts /\ f.n \in 1 .. MaxKeys["media"]
      BY <3>1
    <3> QED
      BY <3>2, MediaBound
  <2>2. M!Current \in M!Parts
    BY PartTypes DEF M!Current, MediaInv, MediaTypes
  <2>3. UNCHANGED <<viewing, opening, vKeys>> /\ fetches' \subseteq fetches
    BY <1>3 DEF M!Fetched
  <2>4. /\ disk' \subseteq disk \cup {f.part} /\ converted' \subseteq converted \cup {f.part}
        /\ atts' \subseteq atts \cup {f.part} /\ shown' \subseteq shown \cup (atts' \ atts)
    BY <1>3 DEF M!Fetched, M!Receive, M!Convert
  <2>5. \/ UNCHANGED <<vModal, conversions>>
        \/ M!ViewLocal(M!Current, f.part, disk', converted', f.n)
    BY <1>3 DEF M!Fetched
  <2>6. /\ vModal' \in {vModal, "media"}
        /\ conversions' \subseteq [file : M!Parts, part : M!Parts, view : 0 .. MaxKeys["media"]]
    BY <2>1, <2>2, <2>5, ViewsLocal DEF Viewing
  <2> QED
    BY <2>1, <2>3, <2>4, <2>6 DEF Viewing
<1>4. ASSUME NEW c \in conversions, M!Converted(c) PROVE Viewing'
  <2>1. /\ UNCHANGED <<viewing, shown, atts, disk, fetches, opening, vKeys>>
        /\ conversions' \subseteq conversions /\ converted' \subseteq converted \cup {c.file}
        /\ vModal' \in {vModal, "media"}
    BY <1>4 DEF M!Converted, M!Convert, M!ViewFallback
  <2> QED
    BY <2>1 DEF Viewing
<1> QED
  BY <1>1, <1>2, <1>3, <1>4

LEMMA MediaTyped == Spec => []M!MediaOK
<1> DEFINE IInv == MediaInv /\ Viewing
<1>1. Init => IInv
  BY MediaStarts, ViewingStarts DEF Init
<1>2. IInv /\ [Next]_vars => IInv'
  <2> SUFFICES ASSUME IInv, [Next]_vars PROVE IInv'
    OBVIOUS
  <2>1. MediaInv'
    BY MediaStep
  <2>2. Viewing'
    BY MediaMoves, ViewingKeys, ViewingResults DEF M!MediaNext, mediaVars, Viewing
  <2> QED
    BY <2>1, <2>2
<1>3. IInv => M!MediaOK
  BY DEF MediaInv, MediaTypes, Viewing, M!MediaOK
<1> HIDE DEF IInv
<1> QED
  BY <1>1, <1>2, <1>3, PTL DEF Spec
==============================================================================
