------------------------------- MODULE Upload -------------------------------
(***************************************************************************)
(* Items with pictures: createItem and uploadItemImage of item.service.ts,  *)
(* uploadImage of blob-client.service.ts, and the container they write to.  *)
(*                                                                         *)
(* Every file of a request is uploaded by a task of its own: the original   *)
(* under the name the client gave it, then the thumbnail under a fresh      *)
(* UUID.  The handler waits for all tasks, or for the first that throws;    *)
(* the others then run on.  Rows follow: azure_storage_blob by a flush      *)
(* nobody awaits, then item and item_image by one queued behind it.         *)
(***************************************************************************)
EXTENDS Naturals, Sequences, FiniteSets

CONSTANTS
    Requests,   \* slots for HTTP requests in flight
    Names,      \* names of uploaded files
    MaxFiles,   \* bound: files of one request
    MaxUploads  \* bound: files ever uploaded

ASSUME BoundAssumption == MaxFiles \in Nat /\ MaxUploads \in Nat

VARIABLES
    files,      \* every file uploaded and how far its task got
    container,  \* by name, the file whose bytes the blob holds; 0: no such blob
    blobs,      \* files with rows in table azure_storage_blob
    itemCount,  \* rows of table item
    images,     \* table item_image
    req,        \* requests in flight
    (* history variables, read by properties only *)
    rejected,   \* files of requests refused because an upload threw
    cut         \* files of requests whose flush failed or that a crash ended

vars == <<files, container, blobs, itemCount, images, req, rejected, cut>>

----------------------------------------------------------------------------
FileIds == 1..Len(files)

\* "null" is uploadImage's answer when the status of the original is not 201.
\* The name of a thumbnail is nobody else's.
File == [name : Names, state : {"original", "thumbnail", "ok", "null", "threw"},
         thumbnail : {"none", "stored", "refused"},
         item : BOOLEAN]   \* history: an item is to show it

Image == [item : Nat, file : Nat]

Request == [pc : {"idle", "upload", "blobs", "item"},
            item : BOOLEAN,   \* POST items; otherwise POST items/images
            files : SUBSET Nat]
Idle == [pc |-> "idle", item |-> FALSE, files |-> {}]

Become(r, request) == req' = [req EXCEPT ![r] = request]

InState(states) == {f \in FileIds : files[f].state \in states}

\* uploadItemImage keeps the uploads that are not null.
Uploaded(fs) == fs \cap InState({"ok"})

Init ==
    /\ files = << >>
    /\ container = [n \in Names |-> 0]
    /\ blobs = {}
    /\ itemCount = 0
    /\ images = {}
    /\ req = [r \in Requests |-> Idle]
    /\ rejected = {} /\ cut = {}

----------------------------------------------------------------------------
(* POST items and POST items/images.                                       *)

\* The tasks of all files start together.
Post(r, wantsItem, names) ==
    /\ req[r] = Idle
    /\ Len(files) + Len(names) <= MaxUploads
    /\ files' = files \o [i \in 1..Len(names) |->
                    [name |-> names[i], state |-> "original",
                     thumbnail |-> "none", item |-> wantsItem]]
    /\ Become(r, [pc |-> "upload", item |-> wantsItem,
                  files |-> Len(files) + 1 .. Len(files) + Len(names)])
    /\ UNCHANGED <<container, blobs, itemCount, images, rejected, cut>>

\* uploadData under file.originalname replaces what was there.
StoreOriginal(f) ==
    /\ files[f].state = "original"
    /\ container' = [container EXCEPT ![files[f].name] = f]
    /\ files' = [files EXCEPT ![f].state = "thumbnail"]
    /\ UNCHANGED <<blobs, itemCount, images, req, rejected, cut>>

\* The status is not 201.
IgnoreStatus(f) ==   \* mutant: the status is not looked at
    /\ files[f].state = "original"
    /\ files' = [files EXCEPT ![f].state = "thumbnail"]
    /\ UNCHANGED <<container, blobs, itemCount, images, req, rejected, cut>>
RefuseOriginal(f) ==
    /\ files[f].state = "original"
    /\ files' = [files EXCEPT ![f].state = "null"]
    /\ UNCHANGED <<container, blobs, itemCount, images, req, rejected, cut>>

\* A thumbnail the container refuses changes nothing: the null is returned from
\* the callback of forEach, not from uploadImage.
PersistInTask(f) ==   \* mutant: the task flushes its own rows
    /\ files[f].state = "thumbnail"
    /\ blobs' = blobs \cup {f}
    /\ \E t \in {"stored", "refused"} :
          files' = [files EXCEPT ![f].state = "ok", ![f].thumbnail = t]
    /\ UNCHANGED <<container, itemCount, images, req, rejected, cut>>
UploadThumbnail(f) ==
    /\ files[f].state = "thumbnail"
    /\ \E t \in {"stored", "refused"} :
          files' = [files EXCEPT ![f].state = "ok", ![f].thumbnail = t]
    /\ UNCHANGED <<container, blobs, itemCount, images, req, rejected, cut>>

\* The connection fails, or the file is no image and cannot be resized.
ThrowIsCaught(f) ==   \* mutant: the picture is kept when its thumbnail throws
    /\ files[f].state \in {"original", "thumbnail"}
    /\ files' = [files EXCEPT ![f].state = IF @ = "thumbnail" THEN "ok" ELSE "threw"]
    /\ UNCHANGED <<container, blobs, itemCount, images, req, rejected, cut>>
Throw(f) ==
    /\ files[f].state \in {"original", "thumbnail"}
    /\ files' = [files EXCEPT ![f].state = "threw"]
    /\ UNCHANGED <<container, blobs, itemCount, images, req, rejected, cut>>

\* Promise.all: every task has answered.
CollectAndSkip(r) ==   \* mutant: the blobs are left to the flush of the item
    /\ req[r].pc = "upload"
    /\ req[r].files \subseteq InState({"ok", "null"})
    /\ Become(r, [req[r] EXCEPT !.pc = IF req[r].item THEN "item" ELSE "blobs"])
    /\ UNCHANGED <<files, container, blobs, itemCount, images, rejected, cut>>
Collect(r) ==
    /\ req[r].pc = "upload"
    /\ req[r].files \subseteq InState({"ok", "null"})
    /\ Become(r, [req[r] EXCEPT !.pc = "blobs"])
    /\ UNCHANGED <<files, container, blobs, itemCount, images, rejected, cut>>

\* Promise.all: one has thrown; the request ends, the other tasks do not.
Reject(r) ==
    /\ req[r].pc = "upload"
    /\ req[r].files \cap InState({"threw"}) # {}
    /\ rejected' = rejected \cup req[r].files
    /\ Become(r, Idle)
    /\ UNCHANGED <<files, container, blobs, itemCount, images, cut>>

FlushBlobs(r) ==
    /\ req[r].pc = "blobs"
    /\ blobs' = blobs \cup Uploaded(req[r].files)
    /\ Become(r, IF req[r].item THEN [req[r] EXCEPT !.pc = "item"] ELSE Idle)
    /\ UNCHANGED <<files, container, itemCount, images, rejected, cut>>

\* One transaction: the item and a row for each picture.
InsertOnePicture(r) ==   \* mutant: only the first picture is added to the item
    /\ req[r].pc = "item"
    /\ itemCount' = itemCount + 1
    /\ images' = images \cup {[item |-> itemCount + 1, file |-> f] :
                    f \in {f \in Uploaded(req[r].files) :
                               \A g \in Uploaded(req[r].files) : f <= g}}
    /\ Become(r, Idle)
    /\ UNCHANGED <<files, container, blobs, rejected, cut>>
InsertItem(r) ==
    /\ req[r].pc = "item"
    /\ itemCount' = itemCount + 1
    /\ images' = images \cup {[item |-> itemCount + 1, file |-> f] :
                                  f \in Uploaded(req[r].files)}
    /\ Become(r, Idle)
    /\ UNCHANGED <<files, container, blobs, rejected, cut>>

----------------------------------------------------------------------------
\* The flush of the item fails and the handler throws.
FailItem(r) ==
    /\ req[r].pc = "item"
    /\ cut' = cut \cup req[r].files
    /\ Become(r, Idle)
    /\ UNCHANGED <<files, container, blobs, itemCount, images, rejected>>

\* The process dies, by itself or because nobody handles the rejection of the
\* flush of the blobs: every request and every task ends.
Crash ==
    /\ \E r \in Requests : req[r] # Idle
    /\ cut' = cut \cup UNION {req[r].files : r \in Requests}
    /\ req' = [r \in Requests |-> Idle]
    /\ files' = [f \in FileIds |->
                    IF files[f].state \in {"original", "thumbnail"}
                    THEN [files[f] EXCEPT !.state = "threw"] ELSE files[f]]
    /\ UNCHANGED <<container, blobs, itemCount, images, rejected>>

----------------------------------------------------------------------------
\* A post without files has nothing to do with pictures.
NameLists == UNION {[1..n -> Names] : n \in 1..MaxFiles}

Next ==
    \/ \E r \in Requests, w \in BOOLEAN, names \in NameLists : Post(r, w, names)
    \/ \E f \in FileIds :
          StoreOriginal(f) \/ RefuseOriginal(f) \/ UploadThumbnail(f) \/ Throw(f)
    \/ \E r \in Requests :
          Collect(r) \/ Reject(r) \/ FlushBlobs(r) \/ InsertItem(r) \/ FailItem(r)
    \/ Crash

Spec == Init /\ [][Next]_vars

----------------------------------------------------------------------------
\* Types, the foreign key of item_image and its UNIQUE (image_id).
TypeOK ==
    /\ files \in Seq(File)
    /\ container \in [Names -> 0..Len(files)]
    /\ blobs \subseteq FileIds
    /\ itemCount \in Nat
    /\ images \subseteq Image
    /\ \A i \in images : i.file \in blobs /\ i.item \in 1..itemCount
    /\ \A i, j \in images : i.file = j.file => i = j
    /\ req \in [Requests -> Request]
    /\ \A r \in Requests : req[r].files \subseteq FileIds
    /\ rejected \subseteq FileIds /\ cut \subseteq FileIds

\* An item never shows a picture that was not stored, whatever uploads were
\* refused, threw or were ended by a crash; and it shows its own, or that of
\* another upload with the same file name.
PicturesAreStored ==
    \A i \in images :
        LET name == files[i.file].name
        IN  /\ container[name] # 0
            /\ container[name] # i.file =>
                  files[container[name]].name = name /\ files[i.file].state = "ok"

\* Every picture an item shows has a thumbnail that was made and uploaded; it
\* is missing only where the container refused it by its status, which
\* uploadImage means to notice and does not.
ThumbnailsMissOnlyByStatus ==
    \A i \in images : files[i.file].thumbnail # "none"

\* The tasks of a refused request run on, but leave no rows behind.
RejectedLeaveNoRows == rejected \cap blobs = {}

Held == UNION {req[r].files : r \in Requests}
InContainer == {container[n] : n \in Names} \ {0}
Shown == {i.file : i \in images}

\* Bytes without rows, and rows without an item that was to show them, come
\* only from requests that were refused or cut off: nothing cleans up after
\* those, but no request that went well leaves anything behind.
LeaksOnlyFromFailures ==
    \A f \in InContainer \cup InState({"ok"}) :
        f \notin Held \cup rejected \cup cut =>
            f \in blobs /\ (files[f].item => f \in Shown)

PicturesOf(i) == {x.file : x \in {y \in images : y.item = i}}

Promised == INSTANCE Gallery WITH
    gallery <- [i \in 1..itemCount |-> PicturesOf(i)], kept <- blobs, refused <- rejected

\* However the tasks of overlapping posts interleave, fail and run on, the rows
\* come and go as Gallery has it: every item at once with pictures of its own
\* that are stored for good, none of a post that was refused.
ImplementsGallery == Promised!Spec
============================================================================
