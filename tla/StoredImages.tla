---------------------------- MODULE StoredImages ----------------------------
(***************************************************************************)
(* The images of one ticket (tickets.service.ts, public-tickets.service.ts)*)
(* and of the documentation of one project (qa.service.ts): a row in the   *)
(* database and a file in the bucket, written one after the other with     *)
(* nothing that joins them.  A request may end between any two steps.      *)
(*                                                                         *)
(* A file is named by the millisecond of the upload and the name the       *)
(* caller's file had, so that two uploads of one tick of the clock share a *)
(* file if their callers used one name.  A file whose name says that it is *)
(* a default photo is never deleted, whoever uploaded it.                  *)
(***************************************************************************)
EXTENDS Integers, FiniteSets

CONSTANTS
  ImageNames,    \* names of images
  Uploaders,     \* requests under way
  MaxImages,     \* bound: rows ever created
  MaxFiles,      \* bound: files ever written, however often
  MaxTicks       \* bound: the clock

ASSUME ImageBounds == MaxImages \in Nat /\ MaxFiles \in Nat /\ MaxTicks \in Nat \ {0}

VARIABLES
  image,        \* TicketImage and DocumentationImage rows
  bucket,       \* external: the files of the bucket
  ticketLives,  \* the ticket has not been deleted
  tick,         \* Date.now()
  storing,      \* what each request does next
  uploads,      \* history: how often a file was written, 2 for more than once
  doomed,       \* history: rows somebody has begun to delete
  lost          \* history: files whose request ended early, or was refused its row

imageVars == <<image, bucket, ticketLives, tick, storing, uploads, doomed, lost>>

Owners == {"ticket", "documentation"}
ImageIds == 1..MaxImages
Ticks == 1..MaxTicks
Originals == {"plain", "defaultPhotos"}   \* what callers' files are called
File == [at : Ticks, called : Originals]

\* The files deleteFile leaves where they are.  (No upload is named just
\* ProductDefault.png, the other name it spares: the millisecond comes first.)
Spared == {f \in File : f.called = "defaultPhotos"}

NoImage == [owner |-> "none"]
Image == [owner : Owners, name : ImageNames, file : File]

NotStoring == [op |-> "idle"]
Storing == {NotStoring}
  \cup [op : {"writeFile"}, owner : Owners, name : ImageNames]
  \cup [op : {"createRow"}, owner : Owners, name : ImageNames, file : File]
  \cup [op : {"docFile", "docRow", "ticketRow", "ticketFile"},
        id : ImageIds, file : File]
  \cup [op : {"deleteTicket"}, read : SUBSET ImageIds, files : SUBSET File]

ImagesTypeOK ==
  /\ image \in [ImageIds -> Image \cup {NoImage}]
  /\ bucket \subseteq File /\ lost \subseteq File
  /\ ticketLives \in BOOLEAN
  /\ tick \in Ticks
  /\ storing \in [Uploaders -> Storing]
  /\ uploads \in [File -> 0..2]
  /\ doomed \subseteq ImageIds

ImagesInit ==
  /\ image = [i \in ImageIds |-> NoImage]
  /\ bucket = {} /\ lost = {}
  /\ ticketLives = TRUE
  /\ tick = 1
  /\ storing = [r \in Uploaders |-> NotStoring]
  /\ uploads = [f \in File |-> 0]
  /\ doomed = {}

Stored == {i \in ImageIds : image[i] # NoImage}
Named(owner, name) == {i \in Stored : image[i].owner = owner /\ image[i].name = name}
OfTicket == {i \in Stored : image[i].owner = "ticket"}
FilesOf(ids) == {image[i].file : i \in ids}

Turns(r, what) == storing' = [storing EXCEPT ![r] = what]

-----------------------------------------------------------------------------
\* The name is looked up first, except for the reporter of a public ticket.
UploadCheck(r, owner, name, public) ==
  /\ storing[r] = NotStoring
  /\ owner = "ticket" => ticketLives
  /\ IF public THEN owner = "ticket" ELSE Named(owner, name) = {}
  /\ Turns(r, [op |-> "writeFile", owner |-> owner, name |-> name])
  /\ UNCHANGED <<image, bucket, ticketLives, tick, uploads, doomed, lost>>

\* uploadFile writes a file, over one of the same name if there is one.
UploadFile(r) ==
  /\ storing[r].op = "writeFile"
  /\ \E called \in Originals :
       LET f == [at |-> tick, called |-> called] IN
       /\ Cardinality({g \in File : uploads[g] > 0} \cup {f}) <= MaxFiles
       /\ bucket' = bucket \cup {f}
       /\ uploads' = [uploads EXCEPT ![f] = IF @ = 2 THEN 2 ELSE @ + 1]
       /\ Turns(r, [op |-> "createRow", owner |-> storing[r].owner, name |-> storing[r].name, file |-> f])
  /\ UNCHANGED <<image, ticketLives, tick, doomed, lost>>

\* The row, unless the name is taken or the ticket is gone by now: then the file stays.
CreateRow(r) ==
  /\ storing[r].op = "createRow"
  /\ LET s == storing[r] IN
       \/ /\ Named(s.owner, s.name) # {} \/ (s.owner = "ticket" /\ ~ticketLives)
          /\ lost' = lost \cup {s.file}
          /\ UNCHANGED image
       \/ /\ Named(s.owner, s.name) = {} /\ (s.owner = "ticket" => ticketLives)
          /\ \E i \in ImageIds \ (Stored \cup doomed) :
               /\ 1..(i - 1) \subseteq Stored \cup doomed
               /\ image' = [image EXCEPT ![i] = [owner |-> s.owner, name |-> s.name, file |-> s.file]]
          /\ UNCHANGED lost
  /\ Turns(r, NotStoring)
  /\ UNCHANGED <<bucket, ticketLives, tick, uploads, doomed>>

\* An image of the documentation loses its file first, one of a ticket its row first.
DeleteImageRead(r, i) ==
  /\ storing[r] = NotStoring /\ i \in Stored
  /\ Turns(r, [op |-> IF image[i].owner = "ticket" THEN "ticketRow" ELSE "docFile",
               id |-> i, file |-> image[i].file])
  /\ doomed' = doomed \cup {i}
  /\ UNCHANGED <<image, bucket, ticketLives, tick, uploads, lost>>

\* What deleteFile takes out of the bucket.
Deleted(f) == {f} \ Spared

\* Deleting a file that is not there is no error.
DeleteImageFile(r) ==
  /\ storing[r].op \in {"docFile", "ticketFile"}
  /\ bucket' = bucket \ Deleted(storing[r].file)
  /\ Turns(r, IF storing[r].op = "ticketFile" THEN NotStoring
              ELSE [storing[r] EXCEPT !.op = "docRow"])
  /\ UNCHANGED <<image, ticketLives, tick, uploads, doomed, lost>>

\* Deleting a row that is not there is an error, and the request goes no further.
DeleteImageRow(r) ==
  /\ storing[r].op \in {"docRow", "ticketRow"}
  /\ image' = [image EXCEPT ![storing[r].id] = NoImage]
  /\ Turns(r, IF storing[r].op = "ticketRow" /\ storing[r].id \in Stored
              THEN [storing[r] EXCEPT !.op = "ticketFile"] ELSE NotStoring)
  /\ UNCHANGED <<bucket, ticketLives, tick, uploads, doomed, lost>>

\* A documentation image can be given another name; nothing else of it changes.
RenameImage(i, name) ==
  /\ i \in Stored \ OfTicket
  /\ Named("documentation", name) \subseteq {i}
  /\ image' = [image EXCEPT ![i].name = name]
  /\ UNCHANGED <<bucket, ticketLives, tick, storing, uploads, doomed, lost>>

-----------------------------------------------------------------------------
\* Wrong variant of TicketFiles: the first image only.
OneFile == FilesOf({i \in OfTicket : \A j \in OfTicket : i <= j})

\* The files of the images the ticket has when it is read.
TicketFiles == FilesOf(OfTicket)

DeleteTicketRead(r) ==
  /\ storing[r] = NotStoring /\ ticketLives
  /\ Turns(r, [op |-> "deleteTicket", read |-> OfTicket, files |-> TicketFiles])
  /\ doomed' = doomed \cup OfTicket
  /\ UNCHANGED <<image, bucket, ticketLives, tick, uploads, lost>>

\* All files are deleted at once, in any order.
DeleteTicketFile(r) ==
  /\ storing[r].op = "deleteTicket"
  /\ \E f \in storing[r].files :
       /\ bucket' = bucket \ Deleted(f)
       /\ Turns(r, [storing[r] EXCEPT !.files = @ \ {f}])
  /\ UNCHANGED <<image, ticketLives, tick, uploads, doomed, lost>>

\* The rows go with the ticket, also those that came after it was read.
DeleteTicketRow(r) ==
  /\ storing[r].op = "deleteTicket" /\ storing[r].files = {}
  /\ ticketLives' = FALSE
  /\ image' = [i \in ImageIds |-> IF i \in OfTicket THEN NoImage ELSE image[i]]
  /\ doomed' = doomed \cup OfTicket
  /\ lost' = lost \cup FilesOf(OfTicket \ storing[r].read)
  /\ Turns(r, NotStoring)
  /\ UNCHANGED <<bucket, tick, uploads>>

-----------------------------------------------------------------------------
\* The bucket does not answer, the process ends: what was done stays done.
RequestFails(r) ==
  /\ storing[r] # NotStoring
  /\ lost' = lost \cup
       IF storing[r].op \in {"createRow", "ticketFile"} THEN {storing[r].file} ELSE {}
  /\ Turns(r, NotStoring)
  /\ UNCHANGED <<image, bucket, ticketLives, tick, uploads, doomed>>

TimePasses ==
  /\ tick < MaxTicks /\ tick' = tick + 1
  /\ UNCHANGED <<image, bucket, ticketLives, storing, uploads, doomed, lost>>

ImagesNext ==
  \/ \E r \in Uploaders :
       \/ \E o \in Owners, n \in ImageNames, public \in BOOLEAN : UploadCheck(r, o, n, public)
       \/ UploadFile(r) \/ CreateRow(r)
       \/ \E i \in ImageIds : DeleteImageRead(r, i)
       \/ DeleteImageFile(r) \/ DeleteImageRow(r)
       \/ DeleteTicketRead(r) \/ DeleteTicketFile(r) \/ DeleteTicketRow(r)
       \/ RequestFails(r)
  \/ \E i \in ImageIds, n \in ImageNames : RenameImage(i, n)
  \/ TimePasses

ImagesSpec == ImagesInit /\ [][ImagesNext]_imageVars

-----------------------------------------------------------------------------
InFlight == {storing[r].file : r \in {q \in Uploaders : storing[q].op \in {"createRow", "ticketFile"}}}

\* An image that is listed can be opened unless somebody began to delete it or
\* its ticket, or two uploads of one millisecond share the file; and a file stays
\* in the bucket without an image only while a request is on it, or because a
\* request failed, was refused its row, or was overtaken by the deletion of the
\* ticket, or because deleteFile spares files with its name.  One that is spared
\* is there once it was uploaded, whatever is deleted.
FilesMatchRows ==
  /\ \A i \in Stored \ doomed : image[i].file \in bucket \/ uploads[image[i].file] > 1
  /\ \A f \in bucket \ (lost \cup Spared) : f \in FilesOf(Stored) \cup InFlight
  /\ \A f \in Spared : uploads[f] > 0 => f \in bucket
=============================================================================
