--------------------------- MODULE Upload_proofs ---------------------------
(***************************************************************************)
(* Proofs about Upload, for every set of requests and file names and every *)
(* bound.                                                                   *)
(*                                                                         *)
(* One inductive invariant, Safe: types, Named (what the container holds),  *)
(* FileOK (how far a file got and what that left behind), RequestOK and     *)
(* Apart (no file belongs to two requests), from which the properties       *)
(* follow.                                                                  *)
(***************************************************************************)
EXTENDS Upload, SequenceTheorems, TLAPS

\* A blob has the bytes of a file that was uploaded under its name.
Named ==
    \A n \in Names : container[n] # 0 =>
        /\ files[container[n]].name = n
        /\ files[container[n]].state \in {"thumbnail", "ok", "threw"}

\* Rows are of files that came through, and a task still running belongs to a
\* request in flight or to one that was refused.
FileOK(f) ==
    /\ files[f].state \in {"thumbnail", "ok"} => container[files[f].name] # 0
    /\ files[f].state = "ok" => files[f].thumbnail # "none"
    /\ f \in blobs => files[f].state = "ok" /\ f \notin rejected
    /\ files[f].state \in {"original", "thumbnail"} => f \in Held \cup rejected

RequestOK(r) ==
    /\ req[r].pc = "idle" => req[r] = Idle
    /\ \A f \in req[r].files : files[f].item = req[r].item /\ f \notin rejected \cup Shown
    /\ req[r].pc \in {"blobs", "item"} => req[r].files \subseteq InState({"ok", "null"})
    /\ req[r].pc \in {"upload", "blobs"} => req[r].files \cap blobs = {}
    /\ req[r].pc = "item" => req[r].item /\ Uploaded(req[r].files) \subseteq blobs

Apart == \A r, o \in Requests : r # o => req[r].files \cap req[o].files = {}

Safe ==
    /\ TypeOK /\ Named /\ Apart
    /\ \A f \in FileIds : FileOK(f)
    /\ \A r \in Requests : RequestOK(r)
    /\ LeaksOnlyFromFailures

----------------------------------------------------------------------------
LEMMA IdleIsRequest == Idle \in Request /\ Idle.pc = "idle" /\ Idle.files = {}
  BY DEF Idle, Request

LEMMA BecomeChangesOne ==
    ASSUME req \in [Requests -> Request], NEW r \in Requests, NEW q \in Request,
           Become(r, q)
    PROVE  /\ req' \in [Requests -> Request]
           /\ req'[r] = q
           /\ \A o \in Requests : o # r => req'[o] = req[o]
  BY DEF Become

LEMMA FilesTyped ==
    ASSUME TypeOK
    PROVE  /\ Len(files) \in Nat /\ FileIds = 1..Len(files)
           /\ \A f \in FileIds : f \in Nat \ {0} /\ files[f] \in File
           /\ \A n \in Names : container[n] \in FileIds \cup {0}
<1>1. Len(files) \in Nat /\ \A f \in 1..Len(files) : files[f] \in File
  BY ElementOfSeq, LenProperties DEF TypeOK
<1> QED
  BY <1>1 DEF FileIds, TypeOK

\* One file gets on; the others, and how many there are, stay.
LEMMA WriteFile ==
    ASSUME TypeOK, NEW f \in FileIds, NEW x \in File, files' = [files EXCEPT ![f] = x]
    PROVE  /\ files' \in Seq(File) /\ Len(files') = Len(files) /\ FileIds' = FileIds
           /\ files'[f] = x
           /\ \A g \in FileIds : g # f => files'[g] = files[g]
<1>1. files \in Seq(File) /\ f \in 1..Len(files)
  BY DEF TypeOK, FileIds
<1>2. /\ files' \in Seq(File) /\ Len(files') = Len(files)
      /\ files'[f] = x
      /\ \A g \in 1..Len(files) : g # f => files'[g] = files[g]
  BY <1>1, ExceptSeq
<1> QED
  BY <1>2 DEF FileIds

----------------------------------------------------------------------------
LEMMA InitSafe == Init => Safe
<1> SUFFICES ASSUME Init PROVE Safe
  OBVIOUS
<1>1. FileIds = {} /\ \A n \in Names : container[n] = 0
  BY DEF Init, FileIds
<1>2. TypeOK
  BY <1>1, IdleIsRequest DEF Init, TypeOK
<1>3. Named /\ Apart
  BY <1>1, IdleIsRequest DEF Init, Named, Apart
<1>4. \A r \in Requests : RequestOK(r)
  BY IdleIsRequest DEF Init, RequestOK
<1>5. LeaksOnlyFromFailures
  BY <1>1 DEF LeaksOnlyFromFailures, InContainer, InState
<1> QED
  BY <1>1, <1>2, <1>3, <1>4, <1>5 DEF Safe

\* A task gets on: what the rest of the invariant needs to know of the step.
LEMMA TaskSafe ==
    ASSUME Safe, NEW f \in FileIds, NEW x \in File,
           files[f].state \in {"original", "thumbnail"},
           files' = [files EXCEPT ![f] = x],
           x.name = files[f].name, x.item = files[f].item,
           x.state \in {"original", "thumbnail"} => f \in Held \cup rejected,
           x.state = "ok" => x.thumbnail # "none",
           UNCHANGED <<blobs, itemCount, images, req, rejected, cut>>,
           container' \in [Names -> FileIds \cup {0}],
           \A n \in Names : container'[n] = container[n] \/ (n = x.name /\ container'[n] = f),
           x.state \in {"thumbnail", "ok"} => container'[x.name] # 0,
           (\E n \in Names : container'[n] = f) => x.state \in {"thumbnail", "ok", "threw"},
           f \in Held \cup rejected
    PROVE  Safe'
<1>1. /\ files' \in Seq(File) /\ Len(files') = Len(files) /\ FileIds' = FileIds
      /\ files'[f] = x
      /\ \A g \in FileIds : g # f => files'[g] = files[g]
  BY WriteFile DEF Safe
<1>2. FileIds \cup {0} = 0..Len(files)
  BY FilesTyped DEF Safe
<1>3. TypeOK'
  BY <1>1, <1>2 DEF Safe, TypeOK
<1>4. Named'
  <2> SUFFICES ASSUME NEW n \in Names, container'[n] # 0
               PROVE  /\ files'[container'[n]].name = n
                      /\ files'[container'[n]].state \in {"thumbnail", "ok", "threw"}
    BY DEF Named
  <2>1. CASE container'[n] = f
    <3>1. files[f].name = n
      BY <2>1, FilesTyped DEF Safe, Named
    <3> QED
      BY <1>1, <2>1, <3>1
  <2>2. CASE container'[n] # f
    <3>1. container'[n] = container[n] /\ container[n] \in FileIds
      BY <2>2, FilesTyped DEF Safe
    <3> QED
      BY <1>1, <2>2, <3>1 DEF Safe, Named
  <2> QED
    BY <2>1, <2>2
<1>5. Apart' /\ Held' = Held /\ Shown' = Shown
  BY DEF Safe, Apart, Held, Shown
<1>6. f \notin blobs
  BY DEF Safe, FileOK
<1>7. \A n \in Names : container[n] # 0 => container'[n] # 0
  BY FilesTyped DEF Safe
<1>8. ASSUME NEW g \in FileIds PROVE FileOK(g)'
  <2>1. FileOK(g) /\ files[g].name \in Names
    BY FilesTyped DEF Safe, File
  <2>2. CASE g = f
    BY <1>1, <1>5, <1>6, <2>2 DEF FileOK
  <2>3. CASE g # f
    BY <1>1, <1>5, <1>7, <2>1, <2>3 DEF FileOK
  <2> QED
    BY <2>2, <2>3
<1>9. ASSUME NEW r \in Requests PROVE RequestOK(r)'
  <2>1. RequestOK(r) /\ req[r].files \subseteq FileIds
    BY DEF Safe, TypeOK
  <2>2. req[r].pc \in {"blobs", "item"} => f \notin req[r].files
    BY <2>1 DEF RequestOK, InState
  <2>3. \A h \in req[r].files : files'[h].item = files[h].item
    BY <1>1, <2>1
  <2>4. req[r].pc \in {"blobs", "item"} =>
           \A S : req[r].files \cap (InState(S))' = req[r].files \cap InState(S)
    BY <1>1, <2>2 DEF InState
  <2>5. req[r].pc = "item" => Uploaded(req[r].files)' = Uploaded(req[r].files)
    BY <2>4 DEF Uploaded
  <2>6. req[r].pc \in {"blobs", "item"} => req[r].files \subseteq (InState({"ok", "null"}))'
    BY <2>1, <2>4 DEF RequestOK
  <2> QED
    BY <1>5, <2>1, <2>3, <2>5, <2>6 DEF RequestOK
<1>10. LeaksOnlyFromFailures'
  <2> SUFFICES ASSUME NEW g \in FileIds,
                      (\E n \in Names : container'[n] = g) \/ files'[g].state = "ok",
                      g \notin Held \cup rejected \cup cut
               PROVE  g \in blobs /\ (files'[g].item => g \in Shown)
    BY <1>1, <1>5, FilesTyped DEF Safe, LeaksOnlyFromFailures, InContainer, InState
  <2>1. g # f
    OBVIOUS
  <2>2. g # 0 /\ ((\E n \in Names : container[n] = g) \/ files[g].state = "ok")
    BY <1>1, <2>1, FilesTyped DEF Safe
  <2>3. g \in blobs /\ (files[g].item => g \in Shown)
    BY <2>2 DEF Safe, LeaksOnlyFromFailures, InContainer, InState
  <2> QED
    BY <1>1, <2>1, <2>3
<1> QED
  BY <1>1, <1>3, <1>4, <1>5, <1>8, <1>9, <1>10 DEF Safe

LEMMA TasksSafe ==
    ASSUME Safe, NEW f \in FileIds,
           StoreOriginal(f) \/ RefuseOriginal(f) \/ UploadThumbnail(f) \/ Throw(f)
    PROVE  Safe'
<1>1. /\ files[f] \in File /\ files[f].state \in {"original", "thumbnail"}
      /\ f \in Held \cup rejected /\ f # 0
      /\ files[f].state = "thumbnail" => container[files[f].name] # 0
  BY FilesTyped DEF StoreOriginal, RefuseOriginal, UploadThumbnail, Throw, Safe, FileOK
<1>2. container \in [Names -> FileIds \cup {0}]
  <2>1. \A n \in Names : container[n] \in FileIds \cup {0}
    BY FilesTyped DEF Safe
  <2> QED
    BY <2>1 DEF Safe, TypeOK
<1>3. files[f].state = "original" => \A n \in Names : container[n] # f
  BY <1>1 DEF Safe, Named
<1>4. CASE StoreOriginal(f)
  <2>0. PICK x : x = [files[f] EXCEPT !.state = "thumbnail"]
    OBVIOUS
  <2>1. /\ x \in File /\ x.name = files[f].name /\ x.item = files[f].item
        /\ x.state = "thumbnail" /\ x.name \in Names
    BY <1>1, <2>0 DEF File
  <2>2. /\ files' = [files EXCEPT ![f] = x]
        /\ container' = [container EXCEPT ![x.name] = f]
        /\ UNCHANGED <<blobs, itemCount, images, req, rejected, cut>>
    BY <1>4, <2>0, <2>1 DEF StoreOriginal
  <2>3. /\ container' \in [Names -> FileIds \cup {0}] /\ container'[x.name] = f
        /\ \A n \in Names : n # x.name => container'[n] = container[n]
    BY <1>2, <2>1, <2>2
  <2> QED
    BY <1>1, <2>1, <2>2, <2>3, TaskSafe
<1>5. CASE RefuseOriginal(f)
  <2>0. PICK x : x = [files[f] EXCEPT !.state = "null"]
    OBVIOUS
  <2>1. /\ x \in File /\ x.name = files[f].name /\ x.item = files[f].item
        /\ x.state = "null"
    BY <1>1, <2>0 DEF File
  <2>2. /\ files' = [files EXCEPT ![f] = x] /\ files[f].state = "original"
        /\ UNCHANGED <<container, blobs, itemCount, images, req, rejected, cut>>
    BY <1>5, <2>0 DEF RefuseOriginal
  <2> QED
    BY <1>1, <1>2, <1>3, <2>1, <2>2, TaskSafe
<1>6. CASE UploadThumbnail(f)
  <2>1. PICK t \in {"stored", "refused"} :
            files' = [files EXCEPT ![f].state = "ok", ![f].thumbnail = t]
    BY <1>6 DEF UploadThumbnail
  <2>0. PICK x : x = [files[f] EXCEPT !.state = "ok", !.thumbnail = t]
    OBVIOUS
  <2>2. /\ x \in File /\ x.name = files[f].name /\ x.item = files[f].item
        /\ x.state = "ok" /\ x.thumbnail # "none"
    BY <1>1, <2>0 DEF File
  <2>3. files' = [files EXCEPT ![f] = x]
    BY <2>0, <2>1, <1>1 DEF Safe, TypeOK, FileIds
  <2>4. /\ files[f].state = "thumbnail"
        /\ UNCHANGED <<container, blobs, itemCount, images, req, rejected, cut>>
    BY <1>6 DEF UploadThumbnail
  <2> QED
    BY <1>1, <1>2, <2>2, <2>3, <2>4, TaskSafe
<1>7. CASE Throw(f)
  <2>0. PICK x : x = [files[f] EXCEPT !.state = "threw"]
    OBVIOUS
  <2>1. /\ x \in File /\ x.name = files[f].name /\ x.item = files[f].item
        /\ x.state = "threw"
    BY <1>1, <2>0 DEF File
  <2>2. /\ files' = [files EXCEPT ![f] = x]
        /\ UNCHANGED <<container, blobs, itemCount, images, req, rejected, cut>>
    BY <1>7, <2>0 DEF Throw
  <2> QED
    BY <1>1, <1>2, <2>1, <2>2, TaskSafe
<1> QED
  BY <1>4, <1>5, <1>6, <1>7

----------------------------------------------------------------------------
LEMMA HeldElements == \A f : f \in Held <=> \E r \in Requests : f \in req[r].files
  BY DEF Held

\* A request gets on with the same files.
LEMMA MoveHeld ==
    ASSUME Safe, NEW r \in Requests, NEW q \in Request, Become(r, q),
           q.files = req[r].files
    PROVE  /\ req' \in [Requests -> Request] /\ req'[r] = q
           /\ \A o \in Requests : o # r => req'[o] = req[o]
           /\ \A o \in Requests : req'[o].files = req[o].files
           /\ Held' = Held /\ Apart'
<1>1. /\ req' \in [Requests -> Request] /\ req'[r] = q
      /\ \A o \in Requests : o # r => req'[o] = req[o]
  BY BecomeChangesOne DEF Safe, TypeOK
<1>2. \A o \in Requests : req'[o].files = req[o].files
  BY <1>1
<1> QED
  BY <1>1, <1>2 DEF Held, Apart, Safe

\* A request ends and its files are no longer held.
LEMMA AnswerHeld ==
    ASSUME Safe, NEW r \in Requests, Become(r, Idle)
    PROVE  /\ req' \in [Requests -> Request] /\ req'[r] = Idle
           /\ \A o \in Requests : o # r => req'[o] = req[o]
           /\ \A o \in Requests : req'[o].files \subseteq req[o].files
           /\ Held' = Held \ req[r].files /\ Apart'
<1>1. /\ req' \in [Requests -> Request] /\ req'[r] = Idle
      /\ \A o \in Requests : o # r => req'[o] = req[o]
  BY IdleIsRequest, BecomeChangesOne DEF Safe, TypeOK
<1>2. \A f : f \in Held' <=> \E o \in Requests : f \in req'[o].files
  BY HeldElements DEF Held
<1>3. \A f : f \in Held' <=> f \in Held \ req[r].files
  BY <1>1, <1>2, IdleIsRequest, HeldElements DEF Safe, Apart
<1>4. Apart'
  BY <1>1, IdleIsRequest DEF Safe, Apart
<1> QED
  BY <1>1, <1>3, <1>4, IdleIsRequest

\* What RequestOK says of an idle request.
LEMMA IdleIsOK == ASSUME NEW r \in Requests, req'[r] = Idle PROVE RequestOK(r)'
  BY IdleIsRequest DEF RequestOK

LEMMA CollectSafe == ASSUME Safe, NEW r \in Requests, Collect(r) PROVE Safe'
<1>1. PICK q : q = [req[r] EXCEPT !.pc = "blobs"]
  OBVIOUS
<1>2. /\ q \in Request /\ q.pc = "blobs" /\ q.files = req[r].files /\ q.item = req[r].item
      /\ Become(r, q) /\ req[r].pc = "upload" /\ req[r].files \subseteq InState({"ok", "null"})
  BY <1>1 DEF Safe, TypeOK, Request, Collect
<1>3. UNCHANGED <<files, container, blobs, itemCount, images, rejected, cut>>
  BY DEF Collect
<1>4. /\ req' \in [Requests -> Request] /\ req'[r] = q
      /\ \A o \in Requests : o # r => req'[o] = req[o]
      /\ \A o \in Requests : req'[o].files = req[o].files
      /\ Held' = Held /\ Apart'
  BY <1>2, MoveHeld
<1>5. TypeOK'
  BY <1>3, <1>4 DEF Safe, TypeOK, FileIds
<1>6. Named' /\ LeaksOnlyFromFailures' /\ \A f \in FileIds' : FileOK(f)'
  BY <1>3, <1>4 DEF Safe, Named, LeaksOnlyFromFailures, FileOK, InContainer, InState, Shown, FileIds
<1>7. ASSUME NEW o \in Requests PROVE RequestOK(o)'
  <2>1. CASE o = r
    BY <1>2, <1>3, <1>4, <2>1 DEF Safe, RequestOK, InState, Shown, FileIds
  <2>2. CASE o # r
    BY <1>3, <1>4, <2>2 DEF Safe, RequestOK, InState, Shown, FileIds, Uploaded
  <2> QED
    BY <2>1, <2>2
<1> QED
  BY <1>4, <1>5, <1>6, <1>7 DEF Safe

LEMMA RejectSafe == ASSUME Safe, NEW r \in Requests, Reject(r) PROVE Safe'
<1>1. /\ Become(r, Idle) /\ req[r].pc = "upload" /\ rejected' = rejected \cup req[r].files
      /\ UNCHANGED <<files, container, blobs, itemCount, images, cut>>
  BY DEF Reject
<1>2. /\ req' \in [Requests -> Request] /\ req'[r] = Idle
      /\ \A o \in Requests : o # r => req'[o] = req[o]
      /\ \A o \in Requests : req'[o].files \subseteq req[o].files
      /\ Held' = Held \ req[r].files /\ Apart'
  BY <1>1, AnswerHeld
<1>3. req[r].files \subseteq FileIds /\ req[r].files \cap blobs = {}
  BY <1>1 DEF Safe, TypeOK, RequestOK
<1>4. TypeOK'
  BY <1>1, <1>2, <1>3 DEF Safe, TypeOK, FileIds
<1>5. Named'
  BY <1>1 DEF Safe, Named
<1>6. \A f \in FileIds' : FileOK(f)'
  BY <1>1, <1>2, <1>3 DEF Safe, FileOK, FileIds
<1>7. LeaksOnlyFromFailures'
  BY <1>1, <1>2 DEF Safe, LeaksOnlyFromFailures, InContainer, InState, Shown, FileIds
<1>8. ASSUME NEW o \in Requests PROVE RequestOK(o)'
  <2>1. CASE o = r
    BY <1>2, <2>1, IdleIsOK
  <2>2. CASE o # r
    <3>1. req[o].files \cap req[r].files = {}
      BY <2>2 DEF Safe, Apart
    <3> QED
      BY <1>1, <1>2, <2>2, <3>1 DEF Safe, RequestOK, InState, Shown, FileIds, Uploaded
  <2> QED
    BY <2>1, <2>2
<1> QED
  BY <1>2, <1>4, <1>5, <1>6, <1>7, <1>8 DEF Safe

LEMMA FlushBlobsSafe == ASSUME Safe, NEW r \in Requests, FlushBlobs(r) PROVE Safe'
<1> DEFINE fs == req[r].files
           up == Uploaded(fs)
<1>1. PICK q : q = IF req[r].item THEN [req[r] EXCEPT !.pc = "item"] ELSE Idle
  OBVIOUS
<1>2. /\ req[r] \in Request /\ req[r].pc = "blobs" /\ Become(r, q) /\ blobs' = blobs \cup up
      /\ UNCHANGED <<files, container, itemCount, images, rejected, cut>>
  BY <1>1 DEF FlushBlobs, Safe, TypeOK
<1>3. /\ fs \subseteq FileIds /\ fs \subseteq InState({"ok", "null"}) /\ up \subseteq fs
      /\ up = {f \in fs : files[f].state = "ok"}
      /\ \A f \in fs : files[f].item = req[r].item /\ f \notin rejected \cup Shown
  BY <1>2 DEF Safe, TypeOK, RequestOK, Uploaded, InState
<1>4. /\ req' \in [Requests -> Request] /\ req'[r] = q
      /\ \A o \in Requests : o # r => req'[o] = req[o]
      /\ \A o \in Requests : req'[o].files \subseteq req[o].files
      /\ Apart'
      /\ Held' = IF req[r].item THEN Held ELSE Held \ fs
  <2>1. CASE req[r].item
    <3>1. q \in Request /\ q.files = fs
      BY <1>1, <1>2, <2>1 DEF Request
    <3> QED
      BY <1>2, <2>1, <3>1, MoveHeld
  <2>2. CASE ~ req[r].item
    BY <1>1, <1>2, <2>2, AnswerHeld
  <2> QED
    BY <2>1, <2>2
<1>5. TypeOK'
  <2>1. \A o \in Requests : req[o].files \subseteq FileIds
    BY DEF Safe, TypeOK
  <2>2. \A o \in Requests : req'[o].files \subseteq FileIds
    BY <1>4, <2>1
  <2> QED
    BY <1>2, <1>3, <1>4, <2>2 DEF Safe, TypeOK, FileIds
<1>6. Named'
  BY <1>2 DEF Safe, Named
<1>7. ASSUME NEW f \in FileIds PROVE FileOK(f)'
  <2>1. FileOK(f)
    BY DEF Safe
  <2>2. f \in up => files[f].state = "ok" /\ f \notin rejected
    BY <1>3
  <2>3. files[f].state \in {"original", "thumbnail"} => f \notin fs
    BY <1>3 DEF InState
  <2> QED
    BY <1>2, <1>4, <2>1, <2>2, <2>3 DEF FileOK
<1>8. LeaksOnlyFromFailures'
  <2> SUFFICES ASSUME NEW f \in InContainer \cup InState({"ok"}),
                      f \notin Held' \cup rejected \cup cut
               PROVE  f \in blobs' /\ (files[f].item => f \in Shown)
    BY <1>2 DEF LeaksOnlyFromFailures, InContainer, InState, Shown, FileIds
  <2>1. CASE f \notin Held
    BY <1>2, <2>1 DEF Safe, LeaksOnlyFromFailures
  <2>2. CASE f \in Held
    <3>1. f \in fs /\ ~ req[r].item
      BY <1>4, <2>2
    <3>2. files[f].state = "ok"
      <4>1. files[f].state \in {"ok", "null"}
        BY <1>3, <3>1 DEF InState
      <4>2. f \in InContainer => files[f].state # "null"
        BY DEF Safe, Named, InContainer
      <4> QED
        BY <4>1, <4>2 DEF InState
    <3>3. f \in up
      BY <1>3, <3>1, <3>2
    <3> QED
      BY <1>2, <1>3, <3>1, <3>3
  <2> QED
    BY <2>1, <2>2
<1>9. ASSUME NEW o \in Requests PROVE RequestOK(o)'
  <2>1. CASE o = r /\ req[r].item
    <3>1. q.pc = "item" /\ q.item = req[r].item /\ q.files = fs
      BY <1>1, <1>2, <2>1 DEF Request
    <3> QED
      BY <1>2, <1>3, <1>4, <2>1, <3>1 DEF RequestOK, InState, Shown, FileIds, Uploaded
  <2>2. CASE o = r /\ ~ req[r].item
    BY <1>1, <1>4, <2>2, IdleIsOK
  <2>3. CASE o # r
    <3>1. req[o].files \cap fs = {} /\ RequestOK(o)
      BY <2>3 DEF Safe, Apart
    <3> QED
      BY <1>2, <1>3, <1>4, <2>3, <3>1 DEF RequestOK, InState, Shown, FileIds, Uploaded
  <2> QED
    BY <2>1, <2>2, <2>3
<1> QED
  BY <1>2, <1>4, <1>5, <1>6, <1>7, <1>8, <1>9 DEF Safe, FileIds

LEMMA InsertItemSafe == ASSUME Safe, NEW r \in Requests, InsertItem(r) PROVE Safe'
<1> DEFINE fs == req[r].files
           up == Uploaded(fs)
           new == {[item |-> itemCount + 1, file |-> f] : f \in up}
<1>1. /\ req[r].pc = "item" /\ Become(r, Idle) /\ itemCount' = itemCount + 1
      /\ images' = images \cup new
      /\ UNCHANGED <<files, container, blobs, rejected, cut>>
  BY DEF InsertItem
<1>2. /\ fs \subseteq FileIds /\ fs \subseteq InState({"ok", "null"}) /\ up \subseteq fs
      /\ up = {f \in fs : files[f].state = "ok"} /\ up \subseteq blobs
      /\ \A f \in fs : f \notin rejected \cup Shown
  BY <1>1 DEF Safe, TypeOK, RequestOK, Uploaded, InState
<1>3. /\ req' \in [Requests -> Request] /\ req'[r] = Idle
      /\ \A o \in Requests : o # r => req'[o] = req[o]
      /\ \A o \in Requests : req'[o].files \subseteq req[o].files
      /\ Held' = Held \ fs /\ Apart'
  BY <1>1, AnswerHeld
<1>4. Shown' = Shown \cup up
  <2>1. \A i \in new : i.file \in up
    OBVIOUS
  <2>2. ASSUME NEW f \in up PROVE \E i \in new : i.file = f
    <3>1. [item |-> itemCount + 1, file |-> f] \in new
      OBVIOUS
    <3> WITNESS [item |-> itemCount + 1, file |-> f] \in new
    <3> QED
      OBVIOUS
  <2> QED
    BY <1>1, <2>1, <2>2 DEF Shown
<1>5. TypeOK'
  <2>1. itemCount \in Nat /\ \A f \in up : f \in Nat
    BY <1>2, FilesTyped DEF Safe, TypeOK
  <2>2. \A i \in new : i \in Image /\ i.file \in blobs /\ i.item \in 1..itemCount + 1
    BY <1>2, <2>1 DEF Image
  <2>3. \A i \in images : i \in Image /\ i.file \in blobs /\ i.item \in 1..itemCount
    BY DEF Safe, TypeOK
  <2>4. \A i \in images : i.file \notin up
    BY <1>2 DEF Shown
  <2>5. ASSUME NEW i \in images', NEW j \in images', i.file = j.file PROVE i = j
    <3>1. CASE i \in images /\ j \in images
      BY <2>5, <3>1 DEF Safe, TypeOK
    <3>2. CASE i \in new /\ j \in new
      BY <2>5, <3>2
    <3> QED
      BY <1>1, <2>4, <2>5, <3>1, <3>2
  <2>6. \A i \in images' : i.file \in blobs /\ i.item \in 1..itemCount'
    BY <1>1, <2>1, <2>2, <2>3
  <2>7. \A o \in Requests : req'[o].files \subseteq FileIds
    BY <1>3 DEF Safe, TypeOK
  <2>8. images' \subseteq Image /\ itemCount' \in Nat
    BY <1>1, <2>1, <2>2, <2>3
  <2> QED
    BY <1>1, <1>3, <2>5, <2>6, <2>7, <2>8 DEF Safe, TypeOK, FileIds
<1>6. Named'
  BY <1>1 DEF Safe, Named
<1>7. ASSUME NEW f \in FileIds PROVE FileOK(f)'
  <2>1. files[f].state \in {"original", "thumbnail"} => f \notin fs
    BY <1>2 DEF InState
  <2> QED
    BY <1>1, <1>3, <2>1 DEF Safe, FileOK
<1>8. LeaksOnlyFromFailures'
  <2> SUFFICES ASSUME NEW f \in InContainer \cup InState({"ok"}),
                      f \notin Held' \cup rejected \cup cut
               PROVE  f \in blobs /\ (files[f].item => f \in Shown')
    BY <1>1 DEF LeaksOnlyFromFailures, InContainer, InState, FileIds
  <2>1. CASE f \notin Held
    BY <1>4, <2>1 DEF Safe, LeaksOnlyFromFailures
  <2>2. CASE f \in Held
    <3>1. f \in fs
      BY <1>3, <2>2
    <3>2. files[f].state \in {"ok", "null"}
      BY <1>2, <3>1 DEF InState
    <3>3. f \in InContainer => files[f].state # "null"
      BY DEF Safe, Named, InContainer
    <3>4. f \in up
      BY <1>2, <3>1, <3>2, <3>3 DEF InState
    <3> QED
      BY <1>2, <1>4, <3>4
  <2> QED
    BY <2>1, <2>2
<1>9. ASSUME NEW o \in Requests PROVE RequestOK(o)'
  <2>1. CASE o = r
    BY <1>3, <2>1, IdleIsOK
  <2>2. CASE o # r
    <3>1. req[o].files \cap fs = {} /\ RequestOK(o)
      BY <2>2 DEF Safe, Apart
    <3> QED
      BY <1>1, <1>2, <1>3, <1>4, <2>2, <3>1 DEF RequestOK, InState, FileIds, Uploaded
  <2> QED
    BY <2>1, <2>2
<1> QED
  BY <1>1, <1>3, <1>5, <1>6, <1>7, <1>8, <1>9 DEF Safe, FileIds

LEMMA FailItemSafe == ASSUME Safe, NEW r \in Requests, FailItem(r) PROVE Safe'
<1> DEFINE fs == req[r].files
<1>1. /\ req[r].pc = "item" /\ Become(r, Idle) /\ cut' = cut \cup fs
      /\ UNCHANGED <<files, container, blobs, itemCount, images, rejected>>
  BY DEF FailItem
<1>2. fs \subseteq FileIds /\ fs \subseteq InState({"ok", "null"})
  BY <1>1 DEF Safe, TypeOK, RequestOK
<1>3. /\ req' \in [Requests -> Request] /\ req'[r] = Idle
      /\ \A o \in Requests : o # r => req'[o] = req[o]
      /\ \A o \in Requests : req'[o].files \subseteq req[o].files
      /\ Held' = Held \ fs /\ Apart'
  BY <1>1, AnswerHeld
<1>4. TypeOK'
  BY <1>1, <1>2, <1>3 DEF Safe, TypeOK, FileIds
<1>5. Named'
  BY <1>1 DEF Safe, Named
<1>6. ASSUME NEW f \in FileIds PROVE FileOK(f)'
  <2>1. files[f].state \in {"original", "thumbnail"} => f \notin fs
    BY <1>2 DEF InState
  <2> QED
    BY <1>1, <1>3, <2>1 DEF Safe, FileOK
<1>7. LeaksOnlyFromFailures'
  BY <1>1, <1>3 DEF Safe, LeaksOnlyFromFailures, InContainer, InState, Shown, FileIds
<1>8. ASSUME NEW o \in Requests PROVE RequestOK(o)'
  <2>1. CASE o = r
    BY <1>3, <2>1, IdleIsOK
  <2>2. CASE o # r
    BY <1>1, <1>3, <2>2 DEF Safe, RequestOK, InState, Shown, FileIds, Uploaded
  <2> QED
    BY <2>1, <2>2
<1> QED
  BY <1>1, <1>3, <1>4, <1>5, <1>6, <1>7, <1>8 DEF Safe, FileIds

\* A new request with files that were not there before.
LEMMA PostSafe ==
    ASSUME Safe, NEW r \in Requests, NEW w \in BOOLEAN, NEW names \in NameLists,
           Post(r, w, names)
    PROVE  Safe'
<1> DEFINE n == Len(files)
           m == Len(names)
           fresh == n + 1 .. n + m
<1>1. PICK add : add = [i \in 1..m |-> [name |-> names[i], state |-> "original",
                                        thumbnail |-> "none", item |-> w]]
  OBVIOUS
<1>2. PICK q : q = [pc |-> "upload", item |-> w, files |-> fresh]
  OBVIOUS
<1>3. /\ req[r] = Idle /\ files' = files \o add /\ Become(r, q)
      /\ UNCHANGED <<container, blobs, itemCount, images, rejected, cut>>
  BY <1>1, <1>2 DEF Post
<1>4. m \in Nat /\ \A i \in 1..m : names[i] \in Names
  <2>1. PICK k \in 1..MaxFiles : names \in [1..k -> Names]
    BY DEF NameLists
  <2>2. k \in Nat
    BY BoundAssumption
  <2> QED
    BY <2>1, <2>2
<1>5. add \in Seq(File) /\ Len(add) = m
  <2>1. \A i \in 1..m : add[i] \in File
    BY <1>1, <1>4 DEF File
  <2>2. add = [i \in 1..m |-> add[i]]
    BY <1>1
  <2> QED
    BY <1>4, <2>1, <2>2
<1>6. n \in Nat /\ FileIds = 1..n /\ files \in Seq(File)
  BY FilesTyped DEF Safe, TypeOK
<1>7. files' \in Seq(File) /\ Len(files') = n + m /\ FileIds' = 1..n + m
  BY <1>3, <1>4, <1>5, <1>6, ConcatProperties DEF FileIds
<1>8. \A f \in FileIds : files'[f] = files[f]
  BY <1>3, <1>5, <1>6, ConcatProperties
<1>9. \A f \in fresh : /\ files'[f].state = "original" /\ files'[f].item = w
                       /\ f \notin FileIds /\ f \in Nat
  <2> SUFFICES ASSUME NEW f \in fresh
               PROVE  /\ files'[f].state = "original" /\ files'[f].item = w
                      /\ f \notin FileIds /\ f \in Nat
    OBVIOUS
  <2>1. f \in Nat /\ f > n /\ f \in 1..n + m /\ f - n \in 1..m
    BY <1>4, <1>6
  <2>2. files'[f] = add[f - n]
    BY <1>3, <1>4, <1>5, <1>6, <2>1, ConcatProperties
  <2> QED
    BY <1>1, <1>6, <2>1, <2>2
<1>10. FileIds' = FileIds \cup fresh
  BY <1>4, <1>6, <1>7
<1>11. q \in Request /\ q.pc = "upload" /\ q.item = w /\ q.files = fresh
  BY <1>2, <1>9 DEF Request
<1>12. /\ req' \in [Requests -> Request] /\ req'[r] = q
       /\ \A o \in Requests : o # r => req'[o] = req[o]
  BY <1>3, <1>11, BecomeChangesOne DEF Safe, TypeOK
<1>13. \A o \in Requests : req[o].files \subseteq FileIds
  BY DEF Safe, TypeOK
<1>14. Held' = Held \cup fresh
  <2>1. \A f : f \in Held' <=> \E o \in Requests : f \in req'[o].files
    BY HeldElements DEF Held
  <2> QED
    BY <1>3, <1>11, <1>12, <2>1, HeldElements, IdleIsRequest
<1>15. Apart'
  <2> SUFFICES ASSUME NEW a \in Requests, NEW b \in Requests, a # b
               PROVE  req'[a].files \cap req'[b].files = {}
    BY DEF Apart
  <2>1. req[a].files \cap req[b].files = {}
    BY DEF Safe, Apart
  <2> QED
    BY <1>9, <1>11, <1>12, <1>13, <2>1
<1>16. TypeOK'
  <2>1. \A k \in Names : container[k] \in 0..n
    BY DEF Safe, TypeOK
  <2>2. container' \in [Names -> 0..n + m]
    BY <1>3, <1>4, <1>6, <2>1 DEF Safe, TypeOK
  <2>3. \A o \in Requests : req'[o].files \subseteq FileIds'
    BY <1>10, <1>11, <1>12, <1>13
  <2> QED
    BY <1>3, <1>7, <1>10, <1>12, <2>2, <2>3 DEF Safe, TypeOK
<1>17. Named'
  BY <1>3, <1>8, FilesTyped DEF Safe, Named
<1>18. Shown' = Shown /\ Shown \subseteq FileIds
  BY <1>3 DEF Safe, TypeOK, Shown
<1>19. ASSUME NEW f \in FileIds' PROVE FileOK(f)'
  <2>1. CASE f \in FileIds
    BY <1>3, <1>8, <1>14, <2>1 DEF Safe, FileOK
  <2>2. CASE f \in fresh
    <3>1. f \notin blobs
      BY <1>9, <2>2 DEF Safe, TypeOK
    <3> QED
      BY <1>3, <1>9, <1>14, <2>2, <3>1 DEF FileOK
  <2> QED
    BY <1>10, <2>1, <2>2
<1>20. ASSUME NEW o \in Requests PROVE RequestOK(o)'
  <2>1. CASE o = r
    <3>1. \A f \in fresh : f \notin rejected \cup Shown /\ f \notin blobs
      BY <1>9, <1>18 DEF Safe, TypeOK
    <3> QED
      BY <1>3, <1>9, <1>11, <1>12, <1>18, <2>1, <3>1 DEF RequestOK
  <2>2. CASE o # r
    <3>1. req'[o] = req[o] /\ req[o].files \subseteq FileIds /\ RequestOK(o)
      BY <1>12, <1>13, <2>2 DEF Safe
    <3>2. \A S : req[o].files \cap (InState(S))' = req[o].files \cap InState(S)
      BY <1>8, <1>10, <3>1 DEF InState
    <3>3. Uploaded(req[o].files)' = Uploaded(req[o].files)
      BY <3>1, <3>2 DEF Uploaded
    <3>4. req[o].pc \in {"blobs", "item"} => req[o].files \subseteq (InState({"ok", "null"}))'
      BY <3>1, <3>2 DEF RequestOK
    <3>5. \A f \in req[o].files : files'[f].item = files[f].item
      BY <1>8, <3>1
    <3> QED
      BY <1>3, <1>18, <3>1, <3>3, <3>4, <3>5 DEF RequestOK
  <2> QED
    BY <2>1, <2>2
<1>21. LeaksOnlyFromFailures'
  <2> SUFFICES ASSUME NEW f \in (InContainer \cup InState({"ok"}))',
                      f \notin Held' \cup rejected \cup cut
               PROVE  f \in blobs /\ (files'[f].item => f \in Shown)
    BY <1>3, <1>18 DEF LeaksOnlyFromFailures
  <2>1. f \in InContainer => f \in FileIds
    BY FilesTyped DEF Safe, InContainer
  <2>2. f \in FileIds
    BY <1>3, <1>10, <1>14, <2>1 DEF InContainer, InState
  <2>3. f \in InContainer \cup InState({"ok"})
    BY <1>3, <1>8, <2>2 DEF InContainer, InState
  <2> QED
    BY <1>8, <1>14, <2>2, <2>3 DEF Safe, LeaksOnlyFromFailures
<1> QED
  BY <1>12, <1>15, <1>16, <1>17, <1>19, <1>20, <1>21 DEF Safe

\* A crash cuts off every request and every task.
LEMMA CrashSafe == ASSUME Safe, Crash PROVE Safe'
<1>1. /\ cut' = cut \cup Held /\ req' = [r \in Requests |-> Idle]
      /\ files' = [f \in FileIds |->
                      IF files[f].state \in {"original", "thumbnail"}
                      THEN [files[f] EXCEPT !.state = "threw"] ELSE files[f]]
      /\ UNCHANGED <<container, blobs, itemCount, images, rejected>>
  BY DEF Crash, Held
<1>2. Len(files) \in Nat /\ FileIds = 1..Len(files) /\ \A f \in FileIds : files[f] \in File
  BY FilesTyped DEF Safe
<1>3. \A f \in FileIds :
         /\ files'[f] \in File
         /\ files'[f].name = files[f].name /\ files'[f].item = files[f].item
         /\ files'[f].thumbnail = files[f].thumbnail
         /\ files'[f].state = IF files[f].state \in {"original", "thumbnail"}
                              THEN "threw" ELSE files[f].state
  <2> SUFFICES ASSUME NEW f \in FileIds
               PROVE  /\ files'[f] \in File
                      /\ files'[f].name = files[f].name /\ files'[f].item = files[f].item
                      /\ files'[f].thumbnail = files[f].thumbnail
                      /\ files'[f].state = IF files[f].state \in {"original", "thumbnail"}
                                           THEN "threw" ELSE files[f].state
    OBVIOUS
  <2>1. files[f] \in File
    BY <1>2
  <2>2. files'[f] = IF files[f].state \in {"original", "thumbnail"}
                    THEN [files[f] EXCEPT !.state = "threw"] ELSE files[f]
    BY <1>1
  <2> QED
    BY <2>1, <2>2 DEF File
<1>4. files' \in Seq(File) /\ Len(files') = Len(files) /\ FileIds' = FileIds
  <2>1. files' = [f \in 1..Len(files) |-> files'[f]]
    BY <1>1, <1>2
  <2>2. files' \in Seq(File) /\ Len(files') = Len(files)
    BY <1>2, <1>3, <2>1
  <2> QED
    BY <2>2 DEF FileIds
<1>5. Held' = {} /\ Shown' = Shown /\ \A r \in Requests : req'[r] = Idle
  BY <1>1, IdleIsRequest DEF Held, Shown
<1>6. TypeOK'
  <2>1. Held \subseteq FileIds
    BY DEF Safe, TypeOK, Held
  <2>2. req' \in [Requests -> Request] /\ \A r \in Requests : req'[r].files \subseteq FileIds
    BY <1>1, IdleIsRequest
  <2> QED
    BY <1>1, <1>4, <2>1, <2>2 DEF Safe, TypeOK
<1>7. Named'
  BY <1>1, <1>3, FilesTyped DEF Safe, Named
<1>8. ASSUME NEW f \in FileIds PROVE FileOK(f)'
  BY <1>1, <1>3, <1>8 DEF Safe, FileOK
<1>9. Apart' /\ \A r \in Requests : RequestOK(r)'
  BY <1>5, IdleIsRequest, IdleIsOK DEF Apart
<1>10. LeaksOnlyFromFailures'
  <2> SUFFICES ASSUME NEW f \in (InContainer \cup InState({"ok"}))',
                      f \notin rejected \cup cut'
               PROVE  f \in blobs /\ (files'[f].item => f \in Shown)
    BY <1>1, <1>5 DEF LeaksOnlyFromFailures
  <2>1. f \in FileIds
    BY <1>1, <1>4, FilesTyped DEF Safe, InContainer, InState
  <2>2. f \in InContainer \cup InState({"ok"})
    BY <1>1, <1>3, <2>1 DEF InContainer, InState
  <2>3. f \notin Held \cup rejected \cup cut
    BY <1>1
  <2> QED
    BY <1>3, <2>1, <2>2, <2>3 DEF Safe, LeaksOnlyFromFailures
<1> QED
  BY <1>4, <1>6, <1>7, <1>8, <1>9, <1>10 DEF Safe

LEMMA StepSafe == Safe /\ [Next]_vars => Safe'
<1> SUFFICES ASSUME Safe, [Next]_vars PROVE Safe'
  OBVIOUS
<1>1. CASE UNCHANGED vars
  BY <1>1 DEF vars, Safe, TypeOK, Named, Apart, FileOK, RequestOK, LeaksOnlyFromFailures,
              FileIds, InState, Uploaded, Held, InContainer, Shown
<1>2. CASE Next
  <2>1. CASE \E r \in Requests, w \in BOOLEAN, names \in NameLists : Post(r, w, names)
    BY <2>1, PostSafe
  <2>2. CASE \E f \in FileIds :
                StoreOriginal(f) \/ RefuseOriginal(f) \/ UploadThumbnail(f) \/ Throw(f)
    BY <2>2, TasksSafe
  <2>3. CASE \E r \in Requests :
                Collect(r) \/ Reject(r) \/ FlushBlobs(r) \/ InsertItem(r) \/ FailItem(r)
    BY <2>3, CollectSafe, RejectSafe, FlushBlobsSafe, InsertItemSafe, FailItemSafe
  <2>4. CASE Crash
    BY <2>4, CrashSafe
  <2> QED
    BY <1>2, <2>1, <2>2, <2>3, <2>4 DEF Next
<1> QED
  BY <1>1, <1>2

\* The inductive invariant holds in every reachable state.
THEOREM SafeAlways == Spec => []Safe
<1> QED
  BY InitSafe, StepSafe, PTL DEF Spec

\* The types, and what item_image demands: no picture without its row in
\* azure_storage_blob and none of two items.
THEOREM Typing == Spec => []TypeOK
<1>1. Safe => TypeOK
  BY DEF Safe
<1> QED
  BY <1>1, SafeAlways, PTL

\* Under the name of every picture an item shows the container has a blob,
\* this picture's or a later upload's of the same name.
THEOREM PicturesStored == Spec => []PicturesAreStored
<1>1. Safe => PicturesAreStored
  <2> SUFFICES ASSUME Safe, NEW i \in images
               PROVE  LET name == files[i.file].name
                      IN  /\ container[name] # 0
                          /\ container[name] # i.file =>
                                files[container[name]].name = name /\ files[i.file].state = "ok"
    BY DEF PicturesAreStored
  <2>1. i.file \in blobs /\ i.file \in FileIds
    BY DEF Safe, TypeOK
  <2>2. files[i.file].state = "ok" /\ files[i.file].name \in Names
    BY <2>1, FilesTyped DEF Safe, FileOK, File
  <2> QED
    BY <2>1, <2>2 DEF Safe, FileOK, Named
<1> QED
  BY <1>1, SafeAlways, PTL

\* Every picture an item shows has had its thumbnail made and sent.
THEOREM ThumbnailsMade == Spec => []ThumbnailsMissOnlyByStatus
<1>1. Safe => ThumbnailsMissOnlyByStatus
  BY DEF Safe, TypeOK, FileOK, ThumbnailsMissOnlyByStatus
<1> QED
  BY <1>1, SafeAlways, PTL

\* The tasks that outlive a refused request never get rows.
THEOREM RejectedLeaveNothing == Spec => []RejectedLeaveNoRows
<1>1. Safe => RejectedLeaveNoRows
  BY DEF Safe, TypeOK, FileOK, RejectedLeaveNoRows
<1> QED
  BY <1>1, SafeAlways, PTL

\* Bytes without rows, and rows without their item, come from requests that
\* failed and from no other.
THEOREM LeaksBounded == Spec => []LeaksOnlyFromFailures
<1>1. Safe => LeaksOnlyFromFailures
  BY DEF Safe
<1> QED
  BY <1>1, SafeAlways, PTL

----------------------------------------------------------------------------
(* Upload implements Gallery.                                              *)

Published == [i \in 1..itemCount |-> PicturesOf(i)]

\* Steps that touch no row and refuse nothing are steps of nobody's gallery.
LEMMA RowsStay ==
    ASSUME UNCHANGED <<itemCount, images>>
    PROVE  Published' = Published
  BY DEF Published, PicturesOf

LEMMA InitImplements == Init => Promised!Init
<1> SUFFICES ASSUME Init PROVE Promised!Init
  OBVIOUS
<1>1. [i \in 1..itemCount |-> PicturesOf(i)] = << >>
  BY DEF Init
<1> QED
  BY <1>1 DEF Init, Promised!Init

LEMMA FlushKeeps == ASSUME Safe, NEW r \in Requests, FlushBlobs(r) PROVE Promised!Next
<1>1. /\ req[r].pc = "blobs" /\ blobs' = blobs \cup Uploaded(req[r].files)
      /\ UNCHANGED <<itemCount, images, rejected>>
  BY DEF FlushBlobs
<1>2. Published' = Published
  BY <1>1, RowsStay
<1>3. blobs' \cap rejected = {}
  <2>1. req[r].files \cap rejected = {}
    BY DEF Safe, RequestOK
  <2>2. blobs \cap rejected = {}
    BY DEF Safe, TypeOK, FileOK
  <2> QED
    BY <1>1, <2>1, <2>2 DEF Uploaded
<1> QED
  BY <1>1, <1>2, <1>3 DEF Promised!Next, Promised!Keep, Published

LEMMA RejectRefuses == ASSUME Safe, NEW r \in Requests, Reject(r) PROVE Promised!Next
<1>1. /\ req[r].pc = "upload" /\ rejected' = rejected \cup req[r].files
      /\ UNCHANGED <<itemCount, images, blobs>>
  BY DEF Reject
<1>2. Published' = Published
  BY <1>1, RowsStay
<1>3. rejected' \cap blobs = {}
  BY <1>1 DEF Safe, TypeOK, FileOK, RequestOK
<1> QED
  BY <1>1, <1>2, <1>3 DEF Promised!Next, Promised!Refuse, Published

\* The new item shows the request's pictures and the others what they showed.
LEMMA InsertPublishes == ASSUME Safe, NEW r \in Requests, InsertItem(r) PROVE Promised!Next
<1>0. PICK n, up : n = itemCount + 1 /\ up = Uploaded(req[r].files)
  OBVIOUS
<1> DEFINE new == {[item |-> n, file |-> f] : f \in up}
<1>1. /\ req[r].pc = "item" /\ itemCount' = n /\ images' = images \cup new
      /\ UNCHANGED <<blobs, rejected>>
  BY <1>0 DEF InsertItem
<1>2. up \subseteq blobs /\ up \cap Shown = {}
  BY <1>0, <1>1 DEF Safe, RequestOK, Uploaded
<1>3. /\ itemCount \in Nat /\ n = itemCount + 1
      /\ \A x \in images : x.item \in 1..itemCount
  BY <1>0 DEF Safe, TypeOK
<1>4. \A i \in 1..itemCount : PicturesOf(i)' = PicturesOf(i)
  <2>1. \A i \in 1..itemCount, x \in new : x.item # i
    BY <1>3
  <2>2. \A i \in 1..itemCount : {y \in images' : y.item = i} = {y \in images : y.item = i}
    BY <1>1, <2>1
  <2> QED
    BY <2>2 DEF PicturesOf
<1>5. PicturesOf(n)' = up
  <2>1. \A x \in images : x.item # n
    BY <1>3
  <2>2. {y \in images' : y.item = n} = new
    BY <1>1, <2>1
  <2>3. {x.file : x \in new} = up
    <3>1. \A x \in new : x.file \in up
      OBVIOUS
    <3>2. ASSUME NEW f \in up PROVE \E x \in new : x.file = f
      <4>1. [item |-> n, file |-> f] \in new
        OBVIOUS
      <4> WITNESS [item |-> n, file |-> f] \in new
      <4> QED
        OBVIOUS
    <3> QED
      BY <3>1, <3>2
  <2> QED
    BY <2>2, <2>3 DEF PicturesOf
<1> HIDE DEF new
<1>6. Published \in Seq(SUBSET Shown) /\ Len(Published) = itemCount
  <2>1. \A i \in 1..itemCount : PicturesOf(i) \in SUBSET Shown
    BY DEF PicturesOf, Shown
  <2> QED
    BY <1>3, <2>1 DEF Published
<1>7. Published' = Append(Published, up)
  <2>1. Append(Published, up) =
            [i \in 1..n |-> IF i = n THEN up ELSE Published[i]]
    BY <1>3, <1>6 DEF Published
  <2>2. \A i \in 1..n : PicturesOf(i)' = IF i = n THEN up ELSE Published[i]
    BY <1>3, <1>4, <1>5 DEF Published
  <2> QED
    BY <1>1, <2>1, <2>2 DEF Published
<1>8. \A i \in 1..Len(Published) : Published[i] \cap up = {}
  BY <1>2, <1>6
<1>9. Promised!Publish(up)
  BY <1>1, <1>7, <1>8 DEF Promised!Publish, Published
<1> QED
  BY <1>2, <1>9 DEF Promised!Next

LEMMA StepImplements == Safe /\ [Next]_vars => [Promised!Next]_(Promised!vars)
<1> SUFFICES ASSUME Safe, [Next]_vars
             PROVE  Promised!Next \/ UNCHANGED <<Published, blobs, rejected>>
  BY DEF Promised!vars, Published
<1>1. ASSUME NEW r \in Requests, FlushBlobs(r) \/ Reject(r) \/ InsertItem(r)
      PROVE  Promised!Next
  BY <1>1, FlushKeeps, RejectRefuses, InsertPublishes
<1>2. CASE UNCHANGED <<itemCount, images, blobs, rejected>>
  BY <1>2, RowsStay
<1> QED
  BY <1>1, <1>2 DEF Next, vars, Post, StoreOriginal, RefuseOriginal, UploadThumbnail, Throw,
                    Collect, FailItem, Crash

\* Overlapping posts fill the gallery one whole item at a time, with pictures
\* that have rows and are nobody else's, and never with a refused one's.
THEOREM Implements == Spec => ImplementsGallery
<1>1. Safe /\ [Next]_vars => [Promised!Next]_(Promised!vars)
  BY StepImplements
<1> QED
  BY InitImplements, <1>1, SafeAlways, PTL DEF Spec, ImplementsGallery, Promised!Spec
=============================================================================
