----------------------------- MODULE NuageProofs -----------------------------
(***************************************************************************)
(* Type correctness and OwnUploadsOnly of the whole installation for every *)
(* value of its constants.  The invariant is about owners: whoever holds   *)
(* the id of a message together with an owner (a row, a request, a         *)
(* caption, a fetched page, a listing) names the profile that uploaded the *)
(* message, unless it was uploaded for no profile.                         *)
(***************************************************************************)
EXTENDS Nuage, MaintenanceProofs, ProfilesProofs

\* The message was sent, and if a profile sent it, then this one.
SentBy(m, owner) ==
    /\ m \in DOMAIN uploader
    /\ uploader[m] # NoOwner => owner = uploader[m]

RowsOwned == \A i \in DOMAIN files : SentBy(files[i].message_id, files[i].owner)

RequestOwned(r) ==
    req[r].pc \in {"insert", "edit"} => SentBy(req[r].rec.message_id, req[r].rec.owner)

RequestsOwned == \A r \in Requests : RequestOwned(r)

CaptionsOwned ==
    \A m \in DOMAIN messages : Captioned(m) => SentBy(m, messages[m].caption.owner)

WalkOwned ==
    cmd.pc = "walk" => \A m \in DOMAIN cmd.batch :
        cmd.batch[m].caption # NoMeta => SentBy(m, cmd.batch[m].caption.owner)

ListOwned == cmd.pc = "caption" => \A rec \in cmd.todo : SentBy(rec.message_id, rec.owner)

StoresOwned == RowsOwned /\ RequestsOwned /\ CaptionsOwned

OwnersInv == InstallationTypeOK /\ StoresOwned /\ WalkOwned /\ ListOwned

\* Uploaders are never forgotten.
UploaderKept ==
    /\ DOMAIN uploader \subseteq DOMAIN uploader'
    /\ \A m \in DOMAIN uploader : uploader'[m] = uploader[m]

-----------------------------------------------------------------------------
(* Uploaders *)

LEMMA RememberKeeps == ASSUME Remember PROVE UploaderKept
  BY DEF Remember, UploaderKept

LEMMA SentByStays ==
    ASSUME UploaderKept, NEW m, NEW owner, SentBy(m, owner)
    PROVE  m \in DOMAIN uploader' /\ (uploader'[m] # NoOwner => owner = uploader'[m])
  BY DEF UploaderKept, SentBy

\* Nothing is sent: the uploaders stay as they are.
LEMMA NothingSent ==
    ASSUME uploader \in [1..lastMessage -> Owners], Remember,
           lastMessage' = lastMessage, DOMAIN messages' \subseteq 1..lastMessage
    PROVE  uploader' \in [1..lastMessage' -> Owners]
  BY DEF Remember

LEMMA FileSent ==
    ASSUME uploader \in [1..lastMessage -> Owners], ChannelTypeOK, Remember,
           NEW d, NEW c \in FileMeta, SendFile(d, c)
    PROVE  /\ uploader' \in [1..lastMessage' -> Owners]
           /\ uploader'[lastMessage + 1] = c.owner
  <1>1. /\ lastMessage \in Nat /\ lastMessage' = lastMessage + 1
        /\ DOMAIN messages' = DOMAIN messages \cup {lastMessage + 1}
        /\ messages'[lastMessage + 1].caption = c
    BY DEF SendFile, ChannelTypeOK
  <1>2. c.owner \in Owners
    BY DEF FileMeta
  <1>3. DOMAIN messages \subseteq 1..lastMessage
    BY DEF ChannelTypeOK
  <1>4. DOMAIN uploader \cup DOMAIN messages' = 1..lastMessage'
    BY <1>1, <1>3
  <1>5. \A m \in 1..lastMessage' : m \in 1..lastMessage \/ m = lastMessage + 1
    BY <1>1
  <1> QED
    BY <1>1, <1>2, <1>4, <1>5 DEF Remember

-----------------------------------------------------------------------------
(* Who holds an owner after a step *)

\* Rows keep their owners, or had none, or carry the uploader's name.
LEMMA RowsOwnedStep ==
    ASSUME IndexTypeOK, UploaderKept, RowsOwned
    PROVE  /\ UNCHANGED indexVars => RowsOwned'
           /\ \A rec : Insert(rec) /\ SentBy(rec.message_id, rec.owner) => RowsOwned'
           /\ \A id : DeleteRow(id) => RowsOwned'
           /\ \A id, name : RenameRow(id, name) => RowsOwned'
           /\ Reset => RowsOwned'
           /\ \A p : BackfillOwner(p) => RowsOwned'
  <1>1. \A i \in DOMAIN files :
           /\ files[i].message_id \in DOMAIN uploader'
           /\ uploader'[files[i].message_id] # NoOwner =>
                 files[i].owner = uploader'[files[i].message_id]
    BY SentByStays DEF RowsOwned
  <1> USE DEF RowsOwned, SentBy
  <1>2. UNCHANGED indexVars => RowsOwned'
    BY <1>1 DEF indexVars
  <1>3. ASSUME NEW rec, Insert(rec), SentBy(rec.message_id, rec.owner) PROVE RowsOwned'
    <2>1. /\ rec.message_id \in DOMAIN uploader'
          /\ uploader'[rec.message_id] # NoOwner => rec.owner = uploader'[rec.message_id]
      BY <1>3, SentByStays
    <2>2. \A i \in DOMAIN files' : files'[i] = rec \/ (i \in DOMAIN files /\ files'[i] = files[i])
      BY <1>3 DEF Insert
    <2> QED
      BY <1>1, <2>1, <2>2
  <1>4. ASSUME NEW id, DeleteRow(id) PROVE RowsOwned'
    BY <1>1, <1>4 DEF DeleteRow, Restrict
  <1>5. ASSUME NEW id, NEW name, RenameRow(id, name) PROVE RowsOwned'
    <2>1. \A i \in DOMAIN files' :
             /\ i \in DOMAIN files
             /\ files'[i].message_id = files[i].message_id
             /\ files'[i].owner = files[i].owner
      BY <1>5 DEF RenameRow, IndexTypeOK, Record
    <2> QED
      BY <1>1, <2>1
  <1>6. Reset => RowsOwned'
    BY DEF Reset
  <1>7. ASSUME NEW p, BackfillOwner(p) PROVE RowsOwned'
    <2>1. \A i \in DOMAIN files' :
             /\ i \in DOMAIN files
             /\ files'[i].message_id = files[i].message_id
             /\ files[i].owner # NoOwner => files'[i].owner = files[i].owner
      BY <1>7 DEF BackfillOwner, Adopted, IndexTypeOK, Record
    <2> QED
      BY <1>1, <2>1
  <1> QED
    BY <1>2, <1>3, <1>4, <1>5, <1>6, <1>7

\* A caption is left alone, sent by the uploader, or written from a row.
LEMMA CaptionsOwnedStep ==
    ASSUME ChannelTypeOK, UploaderKept, CaptionsOwned
    PROVE  /\ UNCHANGED channelVars => CaptionsOwned'
           /\ \A d, c : /\ SendFile(d, c)
                        /\ lastMessage + 1 \in DOMAIN uploader'
                        /\ uploader'[lastMessage + 1] = c.owner
                        => CaptionsOwned'
           /\ \A rec : EditCaption(rec.message_id, EncodeFileMeta(rec))
                          /\ SentBy(rec.message_id, rec.owner) => CaptionsOwned'
           /\ \A m : DeleteMessages(m) => CaptionsOwned'
  <1>1. \A m \in DOMAIN messages : messages[m].caption # NoMeta =>
           /\ m \in DOMAIN uploader'
           /\ uploader'[m] # NoOwner => messages[m].caption.owner = uploader'[m]
    BY SentByStays DEF CaptionsOwned, Captioned
  <1> USE DEF CaptionsOwned, Captioned, SentBy
  <1>2. UNCHANGED channelVars => CaptionsOwned'
    BY <1>1 DEF channelVars
  <1>3. ASSUME NEW d, NEW c, SendFile(d, c), lastMessage + 1 \in DOMAIN uploader',
               uploader'[lastMessage + 1] = c.owner
        PROVE  CaptionsOwned'
    BY <1>1, <1>3 DEF SendFile
  <1>4. ASSUME NEW rec, EditCaption(rec.message_id, EncodeFileMeta(rec)),
               SentBy(rec.message_id, rec.owner)
        PROVE  CaptionsOwned'
    <2>1. EncodeFileMeta(rec).owner = rec.owner
      BY DEF EncodeFileMeta
    <2>2. \A m \in DOMAIN messages' :
             /\ m \in DOMAIN messages
             /\ m # rec.message_id => messages'[m] = messages[m]
             /\ m = rec.message_id => messages'[m].caption = EncodeFileMeta(rec)
      BY <1>4 DEF EditCaption, ChannelTypeOK, Message
    <2>3. /\ rec.message_id \in DOMAIN uploader'
          /\ uploader'[rec.message_id] # NoOwner => rec.owner = uploader'[rec.message_id]
      BY <1>4, SentByStays
    <2> QED
      BY <1>1, <2>1, <2>2, <2>3
  <1>5. ASSUME NEW m, DeleteMessages(m) PROVE CaptionsOwned'
    BY <1>1, <1>5 DEF DeleteMessages, Restrict
  <1> QED
    BY <1>2, <1>3, <1>4, <1>5

\* One request goes on, the others keep what they hold.
LEMMA RequestsOwnedStep ==
    ASSUME EngineTypeOK, RequestsOwned, UploaderKept,
           NEW r \in Requests, NEW s, req' = [req EXCEPT ![r] = s],
           RequestOwned(r)'
    PROVE  RequestsOwned'
  <1>1. ASSUME NEW q \in Requests, q # r PROVE RequestOwned(q)'
    <2>1. req'[q] = req[q] /\ RequestOwned(q)
      BY <1>1 DEF EngineTypeOK, RequestsOwned
    <2> QED
      BY <2>1, SentByStays DEF RequestOwned, SentBy
  <1> QED
    BY <1>1 DEF RequestsOwned

LEMMA RequestsOwnedKept ==
    ASSUME RequestsOwned, UploaderKept, UNCHANGED req
    PROVE  RequestsOwned'
  BY SentByStays DEF RequestsOwned, RequestOwned, SentBy

\* What the running command holds stays true.
LEMMA CommandOwnedKept ==
    ASSUME WalkOwned, ListOwned, UploaderKept, UNCHANGED cmd
    PROVE  WalkOwned' /\ ListOwned'
  BY SentByStays DEF WalkOwned, ListOwned, SentBy

-----------------------------------------------------------------------------
(* Requests *)

\* Only sending and the second read of a renaming lead to where a request
\* holds an owner.
LEMMA SlotStep ==
    ASSUME TypeOK, NEW r \in Requests, Issue(r) \/ Proceed(r) \/ Fail(r)
    PROVE  /\ req' = [req EXCEPT ![r] = req'[r]]
           /\ req'[r].pc \in {"insert", "edit"} => UploadSend(r) \/ RenameReread(r)
  <1> DEFINE Plain == /\ req' = [req EXCEPT ![r] = req'[r]]
                      /\ req'[r].pc \notin {"insert", "edit"}
  <1>0. req \in [Requests -> Request]
    BY DEF TypeOK, EngineTypeOK
  <1>1. CASE Issue(r)
    <2>1. ASSUME NEW owner, NEW path, NEW hash, UploadFind(r, owner, path, hash)
          PROVE  Plain
      BY <1>0, <2>1 DEF UploadFind, Begin
    <2>2. ASSUME NEW id, NEW owner, NEW name, RenameGet(r, owner, id, name)
          PROVE  Plain
      BY <1>0, <2>2 DEF RenameGet, Begin
    <2>3. ASSUME NEW id, NEW owner, DeleteGet(r, owner, id)
          PROVE  Plain
      BY <1>0, <2>3 DEF DeleteGet, Begin
    <2>4. ASSUME NEW id, NEW owner, ServeRecord(r, owner, id)
          PROVE  Plain
      BY <1>0, <2>4 DEF ServeRecord, Begin
    <2>5. ASSUME NEW id, DownloadGet(r, id)
          PROVE  Plain
      BY <1>0, <2>5 DEF DownloadGet, Begin
    <2> QED
      BY <1>1, <2>1, <2>2, <2>3, <2>4, <2>5 DEF Issue
  <1>2. ASSUME NEW s, Goto(r, s)
        PROVE  req' = [req EXCEPT ![r] = req'[r]] /\ req'[r] = s
    BY <1>0, <1>2 DEF Goto
  <1>3. Finish(r) => Plain
    BY <1>2 DEF Finish, Idle
  <1>4. CASE UploadInsert(r)
    BY <1>2, <1>3, <1>4 DEF UploadInsert
  <1>5. CASE RenameUpdate(r)
    <2>1. req[r] \in RenameReq
      BY <1>0, <1>5, RequestTyping DEF RenameUpdate, At
    <2>2. [req[r] EXCEPT !.pc = "reread"].pc = "reread"
      BY <2>1 DEF RenameReq
    <2> QED
      BY <1>2, <1>3, <1>5, <2>2 DEF RenameUpdate
  <1>6. CASE DeleteMessage(r)
    <2>1. req[r] \in DeleteReq
      BY <1>0, <1>6, RequestTyping DEF DeleteMessage, At
    <2>2. [req[r] EXCEPT !.pc = "unindex"].pc = "unindex"
      BY <2>1 DEF DeleteReq
    <2> QED
      BY <1>2, <1>6, <2>2 DEF DeleteMessage
  <1>7. CASE Locate(r)
    BY <1>2, <1>3, <1>7 DEF Locate
  <1>8. CASE Fetch(r)
    BY <1>2, <1>3, <1>8 DEF Fetch
  <1>9. CASE UploadSend(r) \/ RenameReread(r)
    BY <1>2, <1>9 DEF UploadSend, RenameReread, Finish
  <1> QED
    BY <1>1, <1>3, <1>4, <1>5, <1>6, <1>7, <1>8, <1>9
       DEF Proceed, Respond, RenameEdit, DeleteIndexed, Fail

LEMMA IndexStep ==
    ASSUME NEW r \in Requests, Issue(r) \/ Proceed(r) \/ Fail(r)
    PROVE  \/ UNCHANGED indexVars
           \/ At(r, "insert") /\ Insert(req[r].rec)
           \/ \E id : DeleteRow(id)
           \/ \E id, name : RenameRow(id, name)
  <1>1. CASE Issue(r)
    BY <1>1 DEF Issue, UploadFind, RenameGet, DeleteGet, ServeRecord, DownloadGet
  <1>2. CASE UploadInsert(r)
    BY <1>2 DEF UploadInsert, InsertRejected
  <1>3. CASE RenameUpdate(r)
    BY <1>3 DEF RenameUpdate, NoSuchRow
  <1>4. CASE DeleteIndexed(r)
    BY <1>4 DEF DeleteIndexed, NoSuchRow
  <1> QED
    BY <1>1, <1>2, <1>3, <1>4
       DEF Proceed, UploadSend, Respond, RenameReread, RenameEdit, DeleteMessage,
           Locate, Fetch, Fail

LEMMA ChannelStep ==
    ASSUME NEW r \in Requests, Issue(r) \/ Proceed(r) \/ Fail(r)
    PROVE  \/ UNCHANGED channelVars
           \/ UploadSend(r)
           \/ /\ At(r, "edit")
              /\ EditCaption(req[r].rec.message_id, EncodeFileMeta(req[r].rec))
           \/ \E m : DeleteMessages(m)
  <1>1. CASE Issue(r)
    BY <1>1 DEF Issue, UploadFind, RenameGet, DeleteGet, ServeRecord, DownloadGet
  <1>2. CASE RenameEdit(r)
    BY <1>2 DEF RenameEdit, EditRejected
  <1>3. CASE DeleteMessage(r)
    BY <1>3 DEF DeleteMessage
  <1> QED
    BY <1>1, <1>2, <1>3
       DEF Proceed, UploadInsert, Respond, RenameUpdate, RenameReread, DeleteIndexed,
           Locate, Fetch, Fail

\* The channel does not give a message to another uploader.
LEMMA UploaderTypeStep ==
    ASSUME TypeOK, uploader \in [1..lastMessage -> Owners], Remember,
           NEW r \in Requests, Issue(r) \/ Proceed(r) \/ Fail(r)
    PROVE  /\ uploader' \in [1..lastMessage' -> Owners]
           /\ lastMessage' \in Nat /\ lastMessage <= lastMessage'
  <1> USE DEF TypeOK, ChannelTypeOK
  <1>1. CASE UploadSend(r)
    <2>1. req[r].rec \in Record
      BY <1>1, RequestTyping DEF UploadSend, At, EngineTypeOK, UploadReq
    <2>2. EncodeFileMeta(req[r].rec) \in FileMeta
      BY <2>1, EncodeType
    <2>3. uploader' \in [1..lastMessage' -> Owners]
      BY <1>1, <2>2, FileSent DEF UploadSend
    <2> QED
      BY <1>1, <2>3 DEF UploadSend, SendFile
  <1>2. CASE UNCHANGED channelVars
    BY <1>2, NothingSent DEF channelVars
  <1>3. CASE EditCaption(req[r].rec.message_id, EncodeFileMeta(req[r].rec))
    BY <1>3, NothingSent DEF EditCaption
  <1>4. ASSUME NEW m, DeleteMessages(m)
        PROVE  /\ lastMessage' = lastMessage
               /\ uploader' \in [1..lastMessage' -> Owners]
    BY <1>4, NothingSent DEF DeleteMessages, Restrict
  <1> QED
    BY <1>1, <1>2, <1>3, <1>4, ChannelStep

LEMMA RequestStepOwned ==
    ASSUME TypeOK, StoresOwned, uploader \in [1..lastMessage -> Owners], Remember,
           NEW r \in Requests, Issue(r) \/ Proceed(r) \/ Fail(r)
    PROVE  StoresOwned'
  <1>1. UploaderKept
    BY RememberKeeps
  <1>2. /\ req' = [req EXCEPT ![r] = req'[r]]
        /\ req'[r].pc \in {"insert", "edit"} => UploadSend(r) \/ RenameReread(r)
    BY SlotStep
  <1>3. At(r, "insert") \/ At(r, "edit") => SentBy(req[r].rec.message_id, req[r].rec.owner)
    BY DEF At, StoresOwned, RequestsOwned, RequestOwned
  <1>4. RowsOwned'
    BY <1>1, <1>3, IndexStep, RowsOwnedStep DEF TypeOK, StoresOwned
  <1>5. CASE UploadSend(r)
    <2>1. req[r].rec \in Record
      BY <1>5, RequestTyping DEF UploadSend, At, TypeOK, EngineTypeOK, UploadReq
    <2>2. /\ EncodeFileMeta(req[r].rec) \in FileMeta
          /\ EncodeFileMeta(req[r].rec).owner = req[r].rec.owner
          /\ req[r].rec.hash \in Hashes
      BY <2>1, EncodeType DEF EncodeFileMeta, Record
    <2>3. SendFile(req[r].rec.hash, EncodeFileMeta(req[r].rec))
      BY <1>5 DEF UploadSend
    <2>4. /\ uploader' \in [1..lastMessage' -> Owners]
          /\ uploader'[lastMessage + 1] = req[r].rec.owner
          /\ lastMessage + 1 \in DOMAIN uploader'
      BY <2>2, <2>3, FileSent DEF TypeOK, ChannelTypeOK, SendFile
    <2>5. CaptionsOwned'
      BY <1>1, <2>2, <2>3, <2>4, CaptionsOwnedStep DEF TypeOK, StoresOwned
    <2>6. req'[r].rec = [req[r].rec EXCEPT !.message_id = lastMessage + 1]
      BY <1>5 DEF UploadSend, Goto, TypeOK, EngineTypeOK
    <2>7. req'[r].rec.message_id = lastMessage + 1 /\ req'[r].rec.owner = req[r].rec.owner
      BY <2>1, <2>6 DEF Record
    <2>8. RequestOwned(r)'
      BY <2>4, <2>7 DEF RequestOwned, SentBy
    <2> QED
      BY <1>1, <1>2, <1>4, <2>5, <2>8, RequestsOwnedStep DEF TypeOK, StoresOwned
  <1>6. CASE ~UploadSend(r)
    <2>1. CaptionsOwned'
      BY <1>1, <1>3, <1>6, ChannelStep, CaptionsOwnedStep DEF TypeOK, StoresOwned
    <2>2. RequestOwned(r)'
      <3>1. CASE req'[r].pc \notin {"insert", "edit"}
        BY <3>1 DEF RequestOwned
      <3>2. CASE RenameReread(r) /\ Finish(r)
        BY <3>2 DEF RequestOwned, Finish, Goto, Idle, TypeOK, EngineTypeOK
      <3>3. CASE RenameReread(r) /\ ~Finish(r)
        <4>1. /\ req[r].id \in DOMAIN files /\ UNCHANGED indexVars
              /\ req'[r].rec = files[req[r].id]
          BY <3>3 DEF RenameReread, Goto, TypeOK, EngineTypeOK
        <4>2. SentBy(files[req[r].id].message_id, files[req[r].id].owner)
          BY <4>1 DEF StoresOwned, RowsOwned
        <4> QED
          BY <1>1, <4>1, <4>2, SentByStays DEF RequestOwned, SentBy
      <3> QED
        BY <1>2, <1>6, <3>1, <3>2, <3>3
    <2> QED
      BY <1>1, <1>2, <1>4, <2>1, <2>2, RequestsOwnedStep DEF TypeOK, StoresOwned
  <1> QED
    BY <1>5, <1>6

-----------------------------------------------------------------------------
(* Maintenance commands *)

LEMMA StoresOwnedKept ==
    ASSUME TypeOK, StoresOwned, UploaderKept, UNCHANGED <<indexVars, channelVars, req>>
    PROVE  StoresOwned'
  BY RowsOwnedStep, CaptionsOwnedStep, RequestsOwnedKept DEF TypeOK, StoresOwned

LEMMA ReindexOwned ==
    ASSUME AllTypeOK, StoresOwned, WalkOwned, UploaderKept,
           ReindexReset \/ ReindexFetch \/ ReindexInsert
    PROVE  StoresOwned' /\ WalkOwned' /\ ListOwned'
  <1> USE DEF AllTypeOK
  <1>1. CASE ReindexReset
    <2>1. Reset /\ UNCHANGED <<channelVars, req>>
      BY <1>1 DEF ReindexReset, engineVars
    <2>2. cmd'.pc = "walk" /\ DOMAIN cmd'.batch = {}
      BY <1>1 DEF ReindexReset, BeginCommand
    <2> QED
      BY <2>1, <2>2, RowsOwnedStep, CaptionsOwnedStep, RequestsOwnedKept
         DEF TypeOK, StoresOwned, WalkOwned, ListOwned
  <1>2. CASE ReindexFetch
    <2> DEFINE page == Batch(cmd.offset)
    <2>1. StoresOwned'
      BY <1>2, StoresOwnedKept DEF ReindexFetch, vars, indexVars, channelVars
    <2>2. CASE cmd' = [pc |-> "walk", offset |-> Min(page), batch |-> Restrict(messages, page)]
      <3>1. /\ cmd'.pc = "walk" /\ DOMAIN cmd'.batch = page
            /\ \A m \in page : cmd'.batch[m] = messages[m]
        BY <2>2 DEF Restrict
      <3>2. page \subseteq DOMAIN messages
        BY DEF Batch
      <3>3. UNCHANGED messages
        BY <1>2 DEF ReindexFetch, vars
      <3> HIDE DEF page
      <3> QED
        BY <2>1, <3>1, <3>2, <3>3
           DEF WalkOwned, ListOwned, StoresOwned, CaptionsOwned, Captioned
    <2>3. CASE cmd' = [pc |-> "reindexed"]
      BY <2>1, <2>3 DEF WalkOwned, ListOwned
    <2> QED
      BY <1>2, <2>2, <2>3 DEF ReindexFetch, Continue
  <1>3. CASE ReindexInsert
    <2> DEFINE m == Max(DOMAIN cmd.batch)
               rest == [pc |-> "walk", offset |-> cmd.offset,
                        batch |-> Restrict(cmd.batch, DOMAIN cmd.batch \ {m})]
    <2>1. \/ UNCHANGED indexVars /\ cmd' \in {rest, [pc |-> "aborted"]}
          \/ /\ cmd.batch[m].caption # NoMeta
             /\ Insert(Recovered(m, cmd.batch[m])) /\ cmd' = rest
      BY <1>3 DEF ReindexInsert, Continue, InsertRejected
    <2>2. cmd.pc = "walk" /\ DOMAIN cmd.batch # {} /\ UNCHANGED <<channelVars, req>>
      BY <1>3 DEF ReindexInsert, engineVars
    <2>3. m \in DOMAIN cmd.batch
      BY <2>2, NextOfWalk
    <2>4. cmd.batch[m].caption # NoMeta => SentBy(m, cmd.batch[m].caption.owner)
      BY <2>2, <2>3 DEF WalkOwned
    <2>5. /\ Recovered(m, cmd.batch[m]).message_id = m
          /\ Recovered(m, cmd.batch[m]).owner = cmd.batch[m].caption.owner
      BY DEF Recovered
    <2>6. StoresOwned'
      <3> HIDE DEF m
      <3> QED
        BY <2>1, <2>2, <2>4, <2>5, RowsOwnedStep, CaptionsOwnedStep, RequestsOwnedKept
           DEF TypeOK, StoresOwned
    <2>7. CASE cmd' = rest
      <3>1. /\ cmd'.pc = "walk" /\ DOMAIN cmd'.batch \subseteq DOMAIN cmd.batch
            /\ \A k \in DOMAIN cmd'.batch : cmd'.batch[k] = cmd.batch[k]
        BY <2>7 DEF Restrict
      <3> QED
        BY <2>2, <2>6, <3>1, SentByStays DEF WalkOwned, ListOwned, SentBy
    <2>8. CASE cmd' = [pc |-> "aborted"]
      BY <2>6, <2>8 DEF WalkOwned, ListOwned
    <2> QED
      BY <2>1, <2>7, <2>8
  <1> QED
    BY <1>1, <1>2, <1>3

LEMMA BackfillCaptionsOwned ==
    ASSUME AllTypeOK, StoresOwned, ListOwned, UploaderKept, CaptionsList \/ CaptionsEdit
    PROVE  StoresOwned' /\ WalkOwned' /\ ListOwned'
  <1> USE DEF AllTypeOK
  <1>1. CASE CaptionsList
    <2>1. UNCHANGED <<indexVars, channelVars, req>>
      BY <1>1 DEF CaptionsList, vars, indexVars, channelVars
    <2>2. cmd'.pc = "caption" /\ cmd'.todo = Rows
      BY <1>1 DEF CaptionsList, BeginCommand
    <2>3. StoresOwned'
      BY <2>1, StoresOwnedKept
    <2>4. \A rec \in Rows : \E i \in DOMAIN files' : rec = files'[i]
      BY <2>1 DEF Rows, indexVars
    <2> QED
      BY <2>2, <2>3, <2>4 DEF StoresOwned, RowsOwned, WalkOwned, ListOwned
  <1>2. CASE CaptionsEdit
    <2>1. PICK rec \in cmd.todo :
             \/ /\ EditCaption(rec.message_id, EncodeFileMeta(rec))
                /\ Continue([pc |-> "caption", todo |-> cmd.todo \ {rec}])
             \/ /\ EditRejected(rec.message_id, EncodeFileMeta(rec))
                /\ Continue([pc |-> "aborted"])
      BY <1>2 DEF CaptionsEdit
    <2>2. cmd.pc = "caption" /\ UNCHANGED <<indexVars, req>>
      BY <1>2 DEF CaptionsEdit, engineVars
    <2>3. SentBy(rec.message_id, rec.owner)
      BY <2>2 DEF ListOwned
    <2>4. StoresOwned'
      BY <2>1, <2>2, <2>3, RowsOwnedStep, CaptionsOwnedStep, RequestsOwnedKept
         DEF TypeOK, StoresOwned, EditRejected
    <2>5. \/ cmd'.pc = "caption" /\ cmd'.todo \subseteq cmd.todo
          \/ cmd'.pc = "aborted"
      BY <2>1 DEF Continue
    <2> QED
      BY <2>2, <2>4, <2>5, SentByStays DEF WalkOwned, ListOwned, SentBy
  <1> QED
    BY <1>1, <1>2

\* Commands send nothing.
LEMMA CommandChannel ==
    ASSUME ChannelTypeOK,
           ReindexReset \/ CaptionsList \/ CommandStep \/ CommandFail \/ LoseIndex
    PROVE  lastMessage' = lastMessage /\ DOMAIN messages' \subseteq 1..lastMessage
  <1> USE DEF ChannelTypeOK
  <1>1. CASE CaptionsEdit
    BY <1>1 DEF CaptionsEdit, EditCaption, EditRejected, channelVars
  <1>2. CASE ReindexReset \/ ReindexInsert \/ LoseIndex
    BY <1>2 DEF ReindexReset, ReindexInsert, LoseIndex, channelVars
  <1>3. CASE UNCHANGED vars
    BY <1>3 DEF vars
  <1> QED
    BY <1>1, <1>2, <1>3
       DEF CaptionsList, CommandStep, ReindexFetch, CaptionsDone, CommandExit, CommandFail

LEMMA CommandOwned ==
    ASSUME OwnersInv, UploaderKept,
           ReindexReset \/ CaptionsList \/ CommandStep \/ CommandFail
    PROVE  StoresOwned' /\ WalkOwned' /\ ListOwned'
  <1> USE DEF OwnersInv, InstallationTypeOK
  <1>1. ASSUME UNCHANGED vars, cmd'.pc \notin {"walk", "caption"}
        PROVE  StoresOwned' /\ WalkOwned' /\ ListOwned'
    <2>1. UNCHANGED <<indexVars, channelVars, req>>
      BY <1>1 DEF vars, indexVars, channelVars
    <2> QED
      BY <1>1, <2>1, StoresOwnedKept DEF AllTypeOK, WalkOwned, ListOwned
  <1>2. CASE CaptionsDone \/ CommandExit \/ CommandFail
    BY <1>1, <1>2 DEF CaptionsDone, CommandExit, CommandFail, Continue, NoCommand
  <1> QED
    BY <1>2, ReindexOwned, BackfillCaptionsOwned DEF CommandStep

LEMMA LoseIndexOwned ==
    ASSUME OwnersInv, UploaderKept, LoseIndex
    PROVE  StoresOwned' /\ WalkOwned' /\ ListOwned'
  <1>1. UNCHANGED channelVars /\ UNCHANGED <<req, cmd>> /\ DOMAIN files' = {}
    BY DEF LoseIndex
  <1> QED
    BY <1>1, CaptionsOwnedStep, RequestsOwnedKept, CommandOwnedKept
       DEF OwnersInv, InstallationTypeOK, AllTypeOK, TypeOK, StoresOwned, RowsOwned

-----------------------------------------------------------------------------
(* Every step *)

LEMMA OwnersInit == NuageInit => OwnersInv
  <1> SUFFICES ASSUME NuageInit PROVE OwnersInv
    OBVIOUS
  <1>1. AllTypeOK
    BY AllTypeInit DEF NuageInit
  <1>2. AdminTypeOK
    BY ProfilesAssumption DEF NuageInit, ProfilesInit, AdminTypeOK, Written
  <1>3. /\ DOMAIN messages = 1..lastMessage
        /\ \A m \in DOMAIN messages : messages[m].caption = NoMeta
        /\ \A i \in DOMAIN files : files[i].message_id \in DOMAIN messages
    BY MaintenanceAssumption DEF NuageInit, MaintenanceInit, LegacyInit
  <1>4. uploader \in [1..lastMessage -> Owners] /\ \A m \in DOMAIN messages : uploader[m] = NoOwner
    BY <1>3 DEF NuageInit, Owners
  <1>5. StoresOwned
    BY <1>3, <1>4
       DEF StoresOwned, RowsOwned, RequestsOwned, RequestOwned, CaptionsOwned, Captioned,
           SentBy, NuageInit, MaintenanceInit, Idle
  <1>6. WalkOwned /\ ListOwned
    BY DEF WalkOwned, ListOwned, NuageInit, MaintenanceInit, NoCommand
  <1>7. InstallationTypeOK
    <2>1. serving = FALSE /\ sessions = {} /\ moves = 0
      BY DEF NuageInit
    <2>2. moves \in 0..MaxMoves
      BY <2>1, NuageAssumption
    <2> QED
      BY <1>1, <1>2, <1>4, <2>1, <2>2 DEF InstallationTypeOK
  <1> QED
    BY <1>5, <1>6, <1>7 DEF OwnersInv

LEMMA RunServingOwned ==
    ASSUME OwnersInv, Remember, RunServing
    PROVE  OwnersInv'
  <1> USE DEF OwnersInv, InstallationTypeOK, AllTypeOK
  <1>1. PICK r \in Requests : Issue(r) \/ Proceed(r) \/ Fail(r)
    BY DEF RunServing, ServeStep
  <1>2. UploaderKept
    BY RememberKeeps
  <1>3. /\ uploader' \in [1..lastMessage' -> Owners]
        /\ lastMessage' \in Nat /\ lastMessage <= lastMessage'
    BY <1>1, UploaderTypeStep
  <1>4. StoresOwned'
    BY <1>1, RequestStepOwned
  <1>5. UNCHANGED <<maintenanceVars, profileVars, serving, sessions, moves>>
    BY DEF RunServing, ServeStep
  <1>6. TypeOK'
    BY <1>1, TypeStep DEF Next
  <1>7. MaintenanceTypeOK'
    BY <1>3, <1>5, CommandTypeStays
  <1>8. AdminTypeOK'
    BY <1>5 DEF profileVars, AdminTypeOK
  <1>9. WalkOwned' /\ ListOwned'
    BY <1>2, <1>5, CommandOwnedKept DEF maintenanceVars
  <1> QED
    BY <1>3, <1>4, <1>5, <1>6, <1>7, <1>8, <1>9

LEMMA RunCommandOwned ==
    ASSUME OwnersInv, Remember, RunCommand
    PROVE  OwnersInv'
  <1> USE DEF OwnersInv, InstallationTypeOK, AllTypeOK
  <1>1. \/ ReindexReset \/ CaptionsList \/ CommandStep \/ CommandFail
        \/ LoseIndex
    BY DEF RunCommand
  <1>2. UNCHANGED <<profileVars, serving, sessions, moves>>
    BY DEF RunCommand
  <1>3. UploaderKept
    BY RememberKeeps
  <1>4. AllTypeOK'
    BY <1>1, CommandType
  <1>5. uploader' \in [1..lastMessage' -> Owners]
    BY <1>1, CommandChannel, NothingSent DEF TypeOK
  <1>6. StoresOwned' /\ WalkOwned' /\ ListOwned'
    BY <1>1, <1>3, CommandOwned, LoseIndexOwned
  <1>7. AdminTypeOK'
    BY <1>2 DEF profileVars, AdminTypeOK
  <1> QED
    BY <1>2, <1>4, <1>5, <1>6, <1>7

\* Everything stays but what terminals, the server and history are about.
LEMMA StoresRest ==
    ASSUME OwnersInv, Remember, UNCHANGED <<indexVars, channelVars, maintenanceVars>>,
           UNCHANGED req, UNCHANGED <<started, deleting>>
    PROVE  /\ AllTypeOK' /\ uploader' \in [1..lastMessage' -> Owners]
           /\ StoresOwned' /\ WalkOwned' /\ ListOwned'
  <1> USE DEF OwnersInv, InstallationTypeOK, AllTypeOK
  <1>1. UploaderKept
    BY RememberKeeps
  <1>2. AllTypeOK'
    BY DEF TypeOK, IndexTypeOK, ChannelTypeOK, EngineTypeOK, MaintenanceTypeOK,
           indexVars, channelVars, maintenanceVars, bounds
  <1>3. uploader' \in [1..lastMessage' -> Owners]
    BY NothingSent DEF TypeOK, ChannelTypeOK, channelVars
  <1>4. StoresOwned' /\ WalkOwned' /\ ListOwned'
    BY <1>1, StoresOwnedKept, CommandOwnedKept DEF maintenanceVars
  <1> QED
    BY <1>2, <1>3, <1>4

LEMMA RunProfilesOwned ==
    ASSUME OwnersInv, Remember, RunProfiles
    PROVE  OwnersInv'
  <1> USE DEF OwnersInv, InstallationTypeOK, AllTypeOK
  <1>1. PICK a \in Admins :
           \/ ConfigStep(a) /\ UNCHANGED vars
           \/ Adopt(a) /\ UNCHANGED <<channelVars, engineVars>>
    BY DEF RunProfiles
  <1>2. UNCHANGED <<maintenanceVars, serving, sessions, moves>>
    BY DEF RunProfiles
  <1>3. CASE ConfigStep(a) /\ UNCHANGED vars
    <2>1. AdminTypeOK'
      BY <1>3, AdminType
    <2>2. UNCHANGED <<indexVars, channelVars, maintenanceVars>> /\ UNCHANGED req
          /\ UNCHANGED <<started, deleting>>
      BY <1>2, <1>3 DEF vars, indexVars, channelVars
    <2> QED
      BY <1>2, <2>1, <2>2, StoresRest
  <1>4. CASE Adopt(a) /\ UNCHANGED <<channelVars, engineVars>>
    <2>1. adm[a].heir \in Profiles
      BY <1>4 DEF Adopt, AdminTypeOK, Ready, Saving, Adopting
    <2>2. BackfillOwner(adm[a].heir) \/ UNCHANGED indexVars
      BY <1>4 DEF Adopt, BackfillOwnerRejected
    <2>3. UploaderKept
      BY RememberKeeps
    <2>4. IndexTypeOK' /\ lastId' = lastId
      BY <2>1, <2>2, BackfillType DEF TypeOK, BackfillOwner, IndexTypeOK, indexVars
    <2>5. UNCHANGED <<messages, lastMessage, req, started, deleting, cmd, commands, losses, had>>
      BY <1>2, <1>4 DEF channelVars, engineVars, maintenanceVars, bounds
    <2>6. TypeOK' /\ MaintenanceTypeOK'
      BY <2>4, <2>5 DEF TypeOK, ChannelTypeOK, EngineTypeOK, MaintenanceTypeOK
    <2>7. AdminTypeOK'
      BY <1>4 DEF Adopt, AdminTypeOK
    <2>8. uploader' \in [1..lastMessage' -> Owners]
      BY <2>5, NothingSent DEF TypeOK, ChannelTypeOK
    <2>9. StoresOwned'
      BY <2>2, <2>3, <2>5, RowsOwnedStep, CaptionsOwnedStep, RequestsOwnedKept
         DEF TypeOK, StoresOwned, channelVars
    <2>10. WalkOwned' /\ ListOwned'
      BY <2>3, <2>5, CommandOwnedKept
    <2> QED
      BY <1>2, <2>6, <2>7, <2>8, <2>9, <2>10
  <1> QED
    BY <1>1, <1>3, <1>4

LEMMA ServerOwned ==
    ASSUME OwnersInv, Remember, ServeStart \/ ServeStop
    PROVE  OwnersInv'
  <1> USE DEF OwnersInv, InstallationTypeOK, AllTypeOK
  <1>1. CASE ServeStart
    <2>1. UNCHANGED <<indexVars, channelVars, maintenanceVars>> /\ UNCHANGED req
          /\ UNCHANGED <<started, deleting>>
      BY <1>1 DEF ServeStart, nuageVars, vars, indexVars, channelVars
    <2>2. AdminTypeOK' /\ moves' = moves
      BY <1>1 DEF ServeStart, profileVars, AdminTypeOK
    <2>3. sessions' \subseteq Profiles /\ serving' \in BOOLEAN
      BY <1>1 DEF ServeStart, AdminTypeOK
    <2> QED
      BY <2>1, <2>2, <2>3, StoresRest
  <1>2. CASE ServeStop
    <2>1. UNCHANGED <<indexVars, channelVars, maintenanceVars, started, deleting>>
      BY <1>2 DEF ServeStop
    <2>2. PICK cut \in SUBSET Requests :
             req' = [r \in Requests |-> IF r \in cut THEN Idle ELSE req[r]]
      BY <1>2 DEF ServeStop
    <2>3. UploaderKept
      BY RememberKeeps
    <2>4. TypeOK' /\ MaintenanceTypeOK'
      <3>1. req' \in [Requests -> Request]
        BY <2>2 DEF TypeOK, EngineTypeOK, Request
      <3> QED
        BY <2>1, <3>1 DEF TypeOK, IndexTypeOK, ChannelTypeOK, EngineTypeOK, MaintenanceTypeOK,
                          indexVars, channelVars, maintenanceVars, bounds
    <2>5. AdminTypeOK' /\ moves' = moves /\ sessions' = sessions /\ serving' \in BOOLEAN
      BY <1>2 DEF ServeStop, profileVars, AdminTypeOK
    <2>6. uploader' \in [1..lastMessage' -> Owners]
      BY <2>1, NothingSent DEF TypeOK, ChannelTypeOK, channelVars
    <2>7. RequestsOwned'
      <3>1. \A r \in Requests : req'[r] = Idle \/ req'[r] = req[r]
        BY <2>2
      <3>2. Idle.pc = "idle"
        BY DEF Idle
      <3> QED
        BY <2>3, <3>1, <3>2, SentByStays
           DEF StoresOwned, RequestsOwned, RequestOwned, SentBy
    <2>8. RowsOwned' /\ CaptionsOwned'
      BY <2>1, <2>3, RowsOwnedStep, CaptionsOwnedStep DEF TypeOK, StoresOwned
    <2>9. WalkOwned' /\ ListOwned'
      BY <2>1, <2>3, CommandOwnedKept DEF maintenanceVars
    <2> QED
      BY <2>4, <2>5, <2>6, <2>7, <2>8, <2>9 DEF StoresOwned
  <1> QED
    BY <1>1, <1>2

LEMMA MoveOwned ==
    ASSUME OwnersInv, Remember, Move
    PROVE  OwnersInv'
  <1> USE DEF OwnersInv, InstallationTypeOK, AllTypeOK
  <1>1. LoseIndex
    BY DEF Move
  <1>2. AllTypeOK'
    BY <1>1, CommandType
  <1>3. AdminTypeOK'
    BY DEF Move, Written, AdminTypeOK
  <1>4. moves' \in 0..MaxMoves /\ sessions' \subseteq Profiles /\ serving' \in BOOLEAN
    BY NuageAssumption DEF Move
  <1>5. uploader' \in [1..lastMessage' -> Owners]
    BY <1>1, CommandChannel, NothingSent DEF TypeOK
  <1>6. StoresOwned' /\ WalkOwned' /\ ListOwned'
    BY <1>1, RememberKeeps, LoseIndexOwned
  <1> QED
    BY <1>2, <1>3, <1>4, <1>5, <1>6

LEMMA OwnersStep == OwnersInv /\ [NuageNext]_installationVars => OwnersInv'
  <1> SUFFICES ASSUME OwnersInv, [NuageNext]_installationVars PROVE OwnersInv'
    OBVIOUS
  <1>1. CASE UNCHANGED installationVars
    <2>1. UNCHANGED <<files, lastId, messages, lastMessage, req, started, deleting, cmd,
                      commands, losses, had, config, adm, changes, serving, sessions,
                      moves, uploader>>
      BY <1>1 DEF installationVars, nuageVars, vars, maintenanceVars, bounds, profileVars
    <2> QED
      BY <2>1 DEF OwnersInv, InstallationTypeOK, AllTypeOK, TypeOK, IndexTypeOK,
                  ChannelTypeOK, EngineTypeOK, MaintenanceTypeOK, AdminTypeOK,
                  StoresOwned, RowsOwned, RequestsOwned, RequestOwned, CaptionsOwned,
                  Captioned, WalkOwned, ListOwned, SentBy
  <1>2. CASE AllSettled /\ Remember
    <2>1. UNCHANGED <<indexVars, channelVars, maintenanceVars>> /\ UNCHANGED req
          /\ UNCHANGED <<started, deleting>>
      BY <1>2 DEF AllSettled, nuageVars, vars, indexVars, channelVars
    <2>2. UNCHANGED <<config, adm, changes, serving, sessions, moves>>
      BY <1>2 DEF AllSettled, profileVars
    <2> QED
      BY <1>2, <2>1, <2>2, StoresRest DEF OwnersInv, InstallationTypeOK, AdminTypeOK
  <1> QED
    BY <1>1, <1>2, ServerOwned, RunServingOwned, RunCommandOwned, RunProfilesOwned, MoveOwned
       DEF NuageNext, Step

-----------------------------------------------------------------------------
(* Safety *)

\* Whoever holds a message id and an owner names the message's uploader, in
\* every behaviour of the installation.
THEOREM OwnersAreUploaders == NuageSpec => []OwnersInv
  BY OwnersInit, OwnersStep, PTL DEF NuageSpec

\* The index, the channel, config.json, the server and the commands keep
\* their types, for any number of requests, terminals, commands and moves.
THEOREM InstallationTypesCorrect == NuageSpec => []InstallationTypeOK
  <1>1. OwnersInv => InstallationTypeOK
    BY DEF OwnersInv
  <1> QED
    BY <1>1, OwnersAreUploaders, PTL

\* Each profile "only sees/manages the files they uploaded": no sequence of
\* renamings, adoptions, backfilled captions, reindexing, restarts and moves
\* lists an upload of a profile under another owner or none.
THEOREM UploadsStayOwn == NuageSpec => []OwnUploadsOnly
  <1>1. OwnersInv => OwnUploadsOnly
    BY DEF OwnersInv, StoresOwned, RowsOwned, SentBy, OwnUploadsOnly
  <1> QED
    BY <1>1, OwnersAreUploaders, PTL
=============================================================================
