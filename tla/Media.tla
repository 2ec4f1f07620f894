-------------------------------- MODULE Media ---------------------------------
(***************************************************************************)
(* Received pictures: the viewer, the download of a part, its conversion   *)
(* to a format the client can draw, and the table attachments              *)
(* (internal/app/media.go, internal/media/convert.go,                      *)
(* internal/storage/attachments.go, kdeconnect/attachments.go).            *)
(*                                                                         *)
(* A download and a conversion run beside the event loop for seconds.  The *)
(* user meanwhile turns to another part, closes the viewer or asks again,  *)
(* the phone reports the message once more and the conversation is read    *)
(* again from the table.                                                   *)
(*                                                                         *)
(* A part keeps the path of its file once it is downloaded; a file is here *)
(* its part.  What a picture looks like, and saving it, are left out.      *)
(***************************************************************************)
EXTENDS Naturals, FiniteSets, Sequences

CONSTANTS
  Messages,      \* the conversation's messages, each the sequence of its parts
  Plain,         \* parts in a format the client decodes
  Thumbed,       \* parts the phone sent a thumbnail of
  Own,           \* parts of pictures that were sent from here
  MaxKeys,       \* bound: what the user does
  MaxFaults,     \* bound: what fails, is read again or vanishes
  None

VARIABLES
  modal,         \* "", "media" or "open-attachment"
  viewing,       \* m.mediaAtts
  index,         \* m.mediaIndex, from 1
  disk,          \* parts whose file is in KDE Connect's cache
  converted,     \* parts with a converted copy
  row,           \* attachments: rows with a local_path
  shown,         \* parts of the conversation with a LocalPath
  atts,          \* parts of the viewer's list with a LocalPath
  shared,        \* the viewer's list is the conversation's own
  want,          \* m.previewAfterFetch
  fetches,       \* downloads under way
  conversions,   \* conversions under way: the file, for which part, and whether v waits
  failed,        \* m.convertFailed
  records,       \* downloads that are being recorded
  loads,         \* the rows a load of the conversation has read
  opening,       \* m.pendingOpenPath
  asked, views,  \* history: how often v was pressed on a part, and took the terminal
  got,           \* history: parts whose download was recorded
  keys, faults   \* how much the user did, and what failed, for the bounds

pictures == <<modal, viewing, index, disk, converted, row, shown, atts, shared, want, fetches,
              conversions, failed, records, loads, opening, asked, views, got, keys,
              faults>>

Parts == UNION {{m[i] : i \in DOMAIN m} : m \in Messages}

Fault == faults < MaxFaults /\ faults' = faults + 1
Pressed == keys < MaxKeys /\ keys' = keys + 1

MediaInit ==
  /\ modal = "" /\ viewing = <<>> /\ index = 1
  /\ disk = Own /\ converted = {} /\ row = {} /\ shown = {} /\ atts = {} /\ shared = FALSE
  /\ want = None /\ fetches = {} /\ conversions = {} /\ failed = {} /\ records = {} /\ loads = {}
  /\ opening = None /\ got = {}
  /\ asked = [p \in Parts |-> 0] /\ views = [p \in Parts |-> 0]
  /\ keys = 0 /\ faults = 0

Current == viewing[index]
\* localFile: a path counts while the file is there.
LocalFile(p) == p \in atts /\ p \in disk
\* Displayable, and NeedsConversion of a file that is there.
Displayable(p, copies) == p \in disk /\ (p \in Plain \/ p \in copies)
NeedsConversion(p, copies) == p \in disk /\ ~Displayable(p, copies)

\* thumbnailFile: what the phone sent along, written to a file of its own.
Thumbnail(p) == p \in Thumbed
\* The terminal is given to a picture, for v on part f.
Drawn(f) == views' = [views EXCEPT ![f] = @ + 1]
\* viewFallback, for v on f: it draws the thumbnail of p, or leaves the user in
\* the viewer.
ViewFallback(p, f) ==
  \/ Thumbnail(p) /\ Drawn(f) /\ UNCHANGED modal
  \/ ~Thumbnail(p) /\ modal' = "media" /\ UNCHANGED views

\* A converter writes the copy of a file beside it and renames it.
Convert(f) == f \in disk' /\ converted' = converted \cup {f}
\* convertOne: of file f, for part p; n is not 0 if v waits.
ConvertOne(p, f, n) == [file |-> f, part |-> p, view |-> n]
\* The phone sends the file of the part that was asked for.
Receive(p) == disk' = disk \cup {p}

\* viewLocal, of part p with the file of part f.
ViewLocal(p, f, files, copies, n) ==
  IF f \in files /\ (f \in Plain \/ f \in copies)
    THEN Drawn(f) /\ UNCHANGED <<modal, conversions>>
  ELSE IF f \in files /\ f \notin failed
    THEN conversions' = conversions \cup {ConvertOne(p, f, n)}
         /\ UNCHANGED <<modal, views>>
  ELSE ViewFallback(p, f) /\ UNCHANGED conversions
-----------------------------------------------------------------------------
OpenMediaViewer ==
  /\ modal = "" /\ Pressed
  /\ viewing' \in Messages /\ index' = 1 /\ modal' = "media" /\ atts' = shown /\ shared' = TRUE
  /\ UNCHANGED <<disk, converted, row, shown, want, fetches, conversions, failed, records, loads,
                 opening, asked, views, got, faults>>

\* Left, right, Esc.
Turn ==
  /\ modal = "media" /\ Pressed
  /\ \/ index' \in DOMAIN viewing \ {index} /\ UNCHANGED modal
     \/ modal' = "" /\ UNCHANGED index
  /\ UNCHANGED <<viewing, disk, converted, row, shown, atts, shared, want, fetches, conversions,
                 failed, records, loads, opening, asked, views, got, faults>>

\* fetchAttachment.
FetchAttachment(p) == fetches' = fetches \cup {[part |-> p, n |-> keys']}

\* v: the file if it is here, else it is downloaded first.
PreviewAttachment ==
  /\ modal = "media" /\ Pressed
  /\ asked' = [asked EXCEPT ![Current] = @ + 1]
  /\ IF LocalFile(Current)
       THEN ViewLocal(Current, Current, disk, converted, keys') /\ UNCHANGED <<want, fetches>>
       ELSE /\ want' = Current /\ FetchAttachment(Current)
            /\ UNCHANGED <<modal, conversions, views>>
  /\ UNCHANGED <<viewing, index, disk, converted, row, shown, atts, shared, failed, records, loads,
                 opening, got, faults>>

\* d.
Download ==
  /\ modal = "media" /\ Pressed
  /\ IF LocalFile(Current) THEN want' = None /\ UNCHANGED fetches
     ELSE FetchAttachment(Current) /\ UNCHANGED want
  /\ UNCHANGED <<modal, viewing, index, disk, converted, row, shown, atts, shared, conversions,
                 failed, records, loads, opening, asked, views, got, faults>>

\* o, and the confirmation it asks for.
OpenAttachment ==
  /\ Pressed
  /\ \/ modal = "media" /\ LocalFile(Current) /\ modal' = "open-attachment" /\ opening' = Current
     \/ modal = "open-attachment" /\ modal' = "media" /\ opening' = None
  /\ UNCHANGED <<viewing, index, disk, converted, row, shown, atts, shared, want, fetches,
                 conversions, failed, records, loads, asked, views, got, faults>>

\* Mutant of Wanted: whatever was downloaded is shown.
Wanted_Any(p) == TRUE
\* v waits for this download: another one that ends first takes that from it.
Wanted(p) == want = p

\* FetchAttachment of the phone, with a conversion, and applyFetchedAttachment.
\* What is then shown is filed under the part the viewer is at by now.
Fetched(f) ==
  /\ f \in fetches /\ fetches' = fetches \ {f} /\ want' = None
  /\ \/ Fault /\ UNCHANGED <<disk, converted, shown, atts, records, modal, views,
                           conversions>>
     \/ /\ Receive(f.part) /\ UNCHANGED faults
        /\ UNCHANGED converted \/ (f.part \notin Plain /\ Convert(f.part))
        /\ atts' = atts \cup ({f.part} \cap {viewing[i] : i \in DOMAIN viewing})
        /\ shown' = IF shared THEN shown \cup (atts' \ atts) ELSE shown
        /\ records' = records \cup {f.part}
        /\ IF Wanted(f.part)
             THEN ViewLocal(Current, f.part, disk', converted', f.n)
             ELSE UNCHANGED <<modal, views, conversions>>
  /\ UNCHANGED <<viewing, index, row, shared, failed, loads, opening, asked, got, keys>>

\* SetAttachmentState; an error is not looked at.
Record(p) ==
  /\ p \in records /\ records' = records \ {p}
  /\ \/ row' = row \cup {p} /\ got' = got \cup {p} /\ UNCHANGED faults
     \/ Fault /\ UNCHANGED <<row, got>>
  /\ UNCHANGED <<modal, viewing, index, disk, converted, shown, atts, shared, want, fetches,
                 conversions, failed, loads, opening, asked, views, keys>>

\* attachmentConvertedMsg.  The failure counts for the file, whoever waits.
Converted(c) ==
  /\ c \in conversions /\ UNCHANGED <<disk, faults>>
  /\ \/ Convert(c.file) /\ UNCHANGED failed
     \/ failed' = failed \cup {c.file} /\ UNCHANGED converted
  /\ conversions' = conversions \ {c}
  /\ IF c.view = 0 THEN UNCHANGED <<modal, views>>
     ELSE IF Displayable(c.file, converted')
       THEN Drawn(c.file) /\ UNCHANGED modal
     ELSE IF Current = c.part THEN ViewFallback(c.part, c.file)
     ELSE modal' = "media" /\ UNCHANGED views
  /\ UNCHANGED <<viewing, index, row, shown, atts, shared, want, fetches, records, loads, opening,
                 asked, got, keys>>

\* Mutant of UpsertAttachment: the new row replaces the one that is there.
UpsertAttachment_Replaces(p, file) == IF file THEN row \cup {p} ELSE row \ {p}
\* The path is only taken while there is none.
UpsertAttachment(p, file) == IF file THEN row \cup {p} ELSE row

\* The client merges its own message with its files, the phone one with thumbnails.
Merge ==
  /\ Fault /\ \E p \in Parts, file \in BOOLEAN :
       (file => p \in Own) /\ row' = UpsertAttachment(p, file)
  /\ UNCHANGED <<modal, viewing, index, disk, converted, shown, atts, shared, want, fetches,
                 conversions, failed, records, loads, opening, asked, views, got, keys>>

\* loadCache reads the rows; cacheMsg replaces the messages of the conversation
\* and converts what cannot be drawn.
Load ==
  /\ Fault /\ loads = {} /\ loads' = {row}
  /\ UNCHANGED <<modal, viewing, index, disk, converted, row, shown, atts, shared, want, fetches,
                 conversions, failed, records, opening, asked, views, got, keys>>

ConvertAttachments(files) ==
  conversions' = conversions \cup
    {ConvertOne(p, p, 0) :
       p \in {q \in files : NeedsConversion(q, converted) /\ q \notin failed
                            /\ \A c \in conversions : c.file # q}}

Loaded ==
  /\ \E files \in loads : shown' = files /\ ConvertAttachments(files)
  /\ loads' = {} /\ shared' = FALSE
  /\ UNCHANGED <<modal, viewing, index, disk, converted, row, atts, want, fetches, failed, records,
                 opening, asked, views, got, keys, faults>>

\* A file goes from KDE Connect's cache, and what was converted from it with it.
Vanish ==
  /\ Fault /\ \E p \in disk : disk' = disk \ {p} /\ converted' = converted \ {p}
  /\ UNCHANGED <<modal, viewing, index, row, shown, atts, shared, want, fetches, conversions, failed,
                 records, loads, opening, asked, views, got, keys>>

MediaNext ==
  \/ OpenMediaViewer \/ Turn \/ PreviewAttachment \/ Download \/ OpenAttachment
  \/ Merge \/ Load \/ Loaded \/ Vanish
  \/ \E f \in fetches : Fetched(f)
  \/ \E p \in records : Record(p)
  \/ \E c \in conversions : Converted(c)
-----------------------------------------------------------------------------
MediaOK ==
  /\ modal \in {"", "media", "open-attachment"} /\ viewing \in Messages \cup {<<>>}
  /\ (modal # "" => index \in DOMAIN viewing)
  /\ disk \subseteq Parts /\ converted \subseteq Parts /\ row \subseteq Parts
  /\ shown \subseteq Parts /\ atts \subseteq Parts /\ want \in Parts \cup {None}
  /\ fetches \subseteq [part : Parts, n : 1 .. MaxKeys]
  /\ conversions \subseteq [file : Parts, part : Parts, view : 0 .. MaxKeys]
  /\ opening \in Parts \cup {None} /\ (modal = "open-attachment" => opening # None)

\* "v opens one full-screen, downloading it first, and d just downloads it": the
\* terminal is taken for a part, by its picture or by a thumbnail in its place, at
\* most as often as v was pressed on it, however downloads, conversions and the
\* user's turning overtake each other.  It is not promised whose the thumbnail is:
\* a download that ends after the user has turned gives its file to the part at
\* hand (media.go:249), whose thumbnail is drawn when the conversion fails.
ShownOnRequest == \A p \in Parts : views[p] <= asked[p]

\* "A re-sync must never demote a part that has already been fetched".
FetchedKept == got \subseteq row
=============================================================================
