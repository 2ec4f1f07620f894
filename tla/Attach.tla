-------------------------------- MODULE Attach --------------------------------
(***************************************************************************)
(* Pictures of a draft (internal/app/attach.go, internal/media/outgoing.go,*)
(* the sending half of history.go and outbox.go, and                       *)
(* internal/backend/kdeconnect/send_media.go).                             *)
(*                                                                         *)
(* A picture is chosen from the picker or pasted, prepared by a goroutine, *)
(* and attached to the draft that was open when it was chosen; meanwhile   *)
(* the user may open another conversation, send, or choose another one.    *)
(* A person starts as a bare number; the first send makes a local          *)
(* conversation of it.  Text is left to Compose, and so is the undo        *)
(* window: a message is captured and handed over in one step here.         *)
(***************************************************************************)
EXTENDS Naturals, Sequences, SequencesExt

CONSTANTS
  Others,        \* conversations of other people, one of them a group
  Group,
  Pics,          \* pictures, by their content
  Large, Bad,    \* those that must be shrunk, and files that are no pictures
  MaxPics,       \* maxAttachments
  MaxKeys,       \* bound: what the user does
  MaxFaults,     \* bound: what fails
  None

VARIABLES
  at,            \* m.draftKey()
  epoch,         \* m.editorEpoch
  modal,         \* "", or "attach" while the picker is open
  attached,      \* m.attached: what and, for the properties, for whom it was chosen
  preparing,     \* goroutines that prepare a picture for a draft
  pastes,        \* goroutines that look at the clipboard
  sending,       \* the message that is under way, None unless m.sending
  failed,        \* messages that failed, with their pictures
  able,          \* the phone can be sent pictures
  known,         \* the local conversation is in h.threads
  kept,          \* history: pictures a user may expect in a draft
  keys, faults   \* how much the user did, and what failed, for the bounds

pictures == <<at, epoch, modal, attached, preparing, pastes, sending,
              failed, able, known, kept, keys, faults>>

Keys == {"number", "local"} \cup Others
To(k) == IF k \in Others THEN k ELSE "person"

\* The prepared copy: named after the content and the file, which is "pasted" for
\* a picture of the clipboard.
Path == [pic : Pics, pasted : BOOLEAN]
Paths(list) == {list[i].path : i \in DOMAIN list}

Fault == faults < MaxFaults /\ faults' = faults + 1
Pressed == keys < MaxKeys /\ keys' = keys + 1

AttachInit ==
  /\ at \in Keys \ {"local"} /\ epoch = 0 /\ modal = ""
  /\ attached = [k \in Keys |-> <<>>] /\ preparing = {} /\ pastes = {}
  /\ sending = None /\ failed = {} /\ able \in BOOLEAN /\ known = FALSE /\ kept = {} /\ keys = 0 /\ faults = 0

\* canAttach.
CanAttach == at # Group /\ able /\ Len(attached[at]) < MaxPics

\* ClipboardPicture saves the picture as "pasted"; one that cannot be read from the
\* clipboard ends like a file that is no picture.
ClipboardPicture(who) ==
  \E p \in Pics : preparing' =
    preparing \cup {[key |-> at, path |-> [pic |-> p, pasted |-> TRUE], for |-> who]}

\* What is no picture is refused, and what is large needs ImageMagick.
Prepare(pic) ==
  IF pic \in Bad THEN {"refused"} ELSE IF pic \in Large THEN {"ready", "too large"} ELSE {"ready"}

OpenPicker ==
  /\ modal = "" /\ CanAttach /\ Pressed
  /\ modal' = "attach"
  /\ UNCHANGED <<at, epoch, attached, preparing, pastes, sending, failed, able, known, kept,
                 faults>>

ClosePicker ==
  /\ modal = "attach" /\ Pressed /\ modal' = ""
  /\ UNCHANGED <<at, epoch, attached, preparing, pastes, sending, failed, able, known, kept,
                 faults>>

\* Enter in the picker: any file, since a path can be typed.
AttachFile ==
  /\ modal = "attach" /\ Pressed /\ modal' = ""
  /\ \E p \in Pics :
       preparing' = IF CanAttach
         THEN preparing \cup {[key |-> at, path |-> [pic |-> p, pasted |-> FALSE], for |-> To(at)]}
         ELSE preparing
  /\ UNCHANGED <<at, epoch, attached, pastes, sending, failed, able, known, kept, faults>>

\* Ctrl+V in the composer.
CheckPaste ==
  /\ modal = "" /\ sending = None /\ Pressed
  /\ pastes' = pastes \cup {[epoch |-> epoch, for |-> To(at)]}
  /\ UNCHANGED <<at, epoch, modal, attached, preparing, sending, failed, able, known, kept,
                 faults>>

\* "Paste picture from clipboard" takes the picture whatever else is there.
AttachClipboard ==
  /\ modal = "" /\ CanAttach /\ Pressed
  /\ ClipboardPicture(To(at))
  /\ UNCHANGED <<at, epoch, modal, attached, pastes, sending, failed, able, known, kept, faults>>

\* Mutant of PasteStale: the editor is not compared with the one of the key press.
PasteStale_Never(c) == modal # "" \/ sending # None
\* pasteCheckMsg belongs to the editor in which Ctrl+V was pressed.
PasteStale(c) == c.epoch # epoch \/ modal # "" \/ sending # None

\* A clipboard that holds text is pasted as text.
PasteChecked(c) ==
  /\ c \in pastes /\ pastes' = pastes \ {c}
  /\ \/ UNCHANGED preparing
     \/ /\ ~PasteStale(c) /\ CanAttach
        /\ ClipboardPicture(c.for)
  /\ UNCHANGED <<at, epoch, modal, attached, sending, failed, able, known, kept, keys, faults>>

\* attachedMsg comes with the outcome.
HandleAttached(j) ==
  /\ j \in preparing /\ preparing' = preparing \ {j}
  /\ \E outcome \in Prepare(j.path.pic) :
     \/ outcome = "refused" /\ UNCHANGED <<attached, kept, faults>>
     \/ outcome = "too large" /\ Fault /\ UNCHANGED <<attached, kept>>
     \/ /\ outcome = "ready" /\ UNCHANGED faults
        /\ IF j.path \in Paths(attached[j.key]) \/ Len(attached[j.key]) >= MaxPics
             THEN UNCHANGED <<attached, kept>>
             ELSE /\ attached' = [attached EXCEPT ![j.key] = Append(@, [path |-> j.path, for |-> j.for])]
                  /\ kept' = kept \cup {<<j.key, j.path>>}
  /\ UNCHANGED <<at, epoch, modal, pastes, sending, failed, able, known, keys>>

\* Backspace in an empty composer.
RemoveAttachment ==
  /\ modal = "" /\ sending = None /\ attached[at] # <<>> /\ Pressed
  /\ kept' = kept \ {<<at, Last(attached[at]).path>>}
  /\ attached' = [attached EXCEPT ![at] = Front(@)]
  /\ UNCHANGED <<at, epoch, modal, preparing, pastes, sending, failed, able, known, faults>>

\* Another conversation: openThread, or choose for a number (which pickRecipient
\* does for a person without a conversation, and prepareEdit for anyone).
OpenThread ==
  /\ modal = "" /\ Pressed
  /\ at' \in Keys \ {at} /\ (at' = "local" => known)
  /\ epoch' = epoch + 1
  /\ UNCHANGED <<modal, attached, preparing, pastes, sending, failed, able, known, kept, faults>>

\* prepareSend and deliverPending.  The pictures are those of the key before a
\* number becomes a conversation.  A send is refused before that, or after it when
\* the phone is away.
Local(k) == IF k = "number" THEN "local" ELSE k

Captured(list) ==
  \/ at' \in {at, Local(at)} /\ UNCHANGED <<sending, known>>
  \/ /\ at # Group /\ (list # <<>> => able)
     /\ at' = Local(at) /\ sending' = [key |-> at', pics |-> list]
     /\ known' = (known \/ at' = "local")

Send ==
  /\ modal = "" /\ sending = None /\ Pressed
  /\ Captured(attached[at])
  /\ UNCHANGED <<epoch, modal, attached, preparing, pastes, failed, able, kept, faults>>

\* "Retry" of a failed message puts its pictures into the draft, over those that
\* are there, and sends.
Retry(f) ==
  /\ modal = "" /\ sending = None /\ f \in failed /\ f.key = at /\ Pressed
  /\ IF f.pics = <<>> THEN UNCHANGED <<attached, kept>>
     ELSE /\ attached' = [attached EXCEPT ![at] = f.pics]
          /\ kept' = {e \in kept : e[1] # at} \cup {<<at, p>> : p \in Paths(f.pics)}
  /\ Captured(IF f.pics = <<>> THEN attached[at] ELSE f.pics)
  /\ failed' = IF sending' = None THEN failed ELSE failed \ {f}
  /\ UNCHANGED <<epoch, modal, preparing, pastes, able, faults>>

\* Mutant of SameAttachments: what the draft holds is not looked at.
SameAttachments_Any(list, sent) == TRUE
SameAttachments(list, sent) == Len(list) = Len(sent) /\ \A i \in DOMAIN list : list[i].path = sent[i].path

\* outgoingMsg: the draft lets go of what was sent, if nothing was added
\* meanwhile.
Sent ==
  /\ sending # None /\ sending' = None
  /\ \/ Fault /\ failed' = failed \cup {sending} /\ UNCHANGED <<attached, kept>>
     \/ /\ UNCHANGED <<faults, failed>>
        /\ attached' = IF sending.pics # <<>> /\ SameAttachments(attached[sending.key], sending.pics)
                         THEN [attached EXCEPT ![sending.key] = <<>>] ELSE attached
        /\ kept' = kept \ {<<sending.key, p>> : p \in Paths(sending.pics)}
  /\ UNCHANGED <<at, epoch, modal, preparing, pastes, able, known, keys>>

\* The phone, or another one, reports what it can do.
Able ==
  /\ Fault /\ able' = ~able
  /\ UNCHANGED <<at, epoch, modal, attached, preparing, pastes, sending, failed, known, kept,
                 keys>>

AttachNext ==
  \/ OpenPicker \/ ClosePicker \/ AttachFile \/ AttachClipboard \/ CheckPaste \/ RemoveAttachment \/ OpenThread
  \/ Send \/ Sent \/ Able
  \/ \E c \in pastes : PasteChecked(c)
  \/ \E j \in preparing : HandleAttached(j)
  \/ \E f \in failed : Retry(f)
-----------------------------------------------------------------------------
Picture == [path : Path, for : Others \cup {"person"}]
Message == [key : Keys, pics : Seq(Picture)]

AttachOK ==
  /\ at \in Keys /\ epoch \in Nat /\ modal \in {"", "attach"}
  /\ attached \in [Keys -> Seq(Picture)]
  /\ preparing \subseteq [key : Keys, path : Path, for : Others \cup {"person"}]
  /\ sending = None \/ sending \in Message
  /\ failed \subseteq Message

\* "Pictures are attached to a conversation's draft": whatever the user opens
\* while a picture is looked up and prepared, it ends up with the person it was
\* chosen for, never in a group, never twice, and never as one too many.
PicturesPlaced ==
  \A k \in Keys :
    /\ Len(attached[k]) <= MaxPics /\ IsInjective([i \in DOMAIN attached[k] |-> attached[k][i].path])
    /\ \A i \in DOMAIN attached[k] : attached[k][i].for = To(k) /\ k # Group

\* "They are cleared only when nothing was added meanwhile": a picture that is in
\* a draft stays there until it is taken back, sent, or replaced by a retry.
PicturesKept == \A e \in kept : e[2] \in Paths(attached[e[1]])
=============================================================================
