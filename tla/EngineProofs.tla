----------------------------- MODULE EngineProofs -----------------------------
(* Proofs about Engine for every value of its constants. *)
EXTENDS EngineInvariant, TLAPS

\* The program point of a request tells which locals it has.
LEMMA RequestTyping ==
    ASSUME NEW q \in Request
    PROVE  /\ q.pc = "idle" => q = Idle
           /\ q.pc \in {"send", "insert"} => q \in UploadReq
           /\ q.pc = "uploaded" => q \in UploadedReq
           /\ q.pc \in {"rename", "reread"} => q \in RenameReq
           /\ q.pc = "edit" => q \in EditReq
           /\ q.pc \in {"unsend", "unindex"} => q \in DeleteReq
           /\ q.pc = "locate" => q \in LocateReq
           /\ q.pc = "fetch" => q \in FetchReq
           /\ q.pc = "stream" => q \in StreamReq
  BY DEF Request, Idle, UploadReq, UploadedReq, RenameReq, EditReq, DeleteReq,
         LocateReq, FetchReq, StreamReq

\* What an index statement leaves behind is a table of records again.
LEMMA InsertType ==
    ASSUME IndexTypeOK, NEW rec \in Record, Insert(rec)
    PROVE  IndexTypeOK' /\ DOMAIN files' = DOMAIN files \cup {lastId + 1}
  BY DEF IndexTypeOK, Insert

LEMMA DeleteRowType ==
    ASSUME IndexTypeOK, NEW id, DeleteRow(id)
    PROVE  IndexTypeOK' /\ DOMAIN files' = DOMAIN files \ {id}
  BY DEF IndexTypeOK, DeleteRow, Restrict

LEMMA RenameRowType ==
    ASSUME IndexTypeOK, NEW id, NEW n \in Names, RenameRow(id, n)
    PROVE  IndexTypeOK' /\ DOMAIN files' = DOMAIN files
  BY DEF IndexTypeOK, RenameRow, Record

LEMMA SendFileType ==
    ASSUME ChannelTypeOK, NEW d \in Hashes, NEW c \in FileMeta, SendFile(d, c)
    PROVE  ChannelTypeOK' /\ DOMAIN messages' = DOMAIN messages \cup {lastMessage + 1}
  BY DEF ChannelTypeOK, SendFile, Message

\* A refused edit, like one of a caption to itself, changes nothing.
LEMMA EditRefused ==
    ASSUME ChannelTypeOK, NEW m, NEW c, EditRejected(m, c)
    PROVE  /\ UNCHANGED <<messages, lastMessage>>
           /\ m \notin DOMAIN messages \/ EditCaption(m, c)
  BY DEF ChannelTypeOK, Message, EditRejected, EditCaption, channelVars

LEMMA EditCaptionType ==
    ASSUME ChannelTypeOK, NEW m, NEW c \in FileMeta, EditCaption(m, c)
    PROVE  ChannelTypeOK' /\ DOMAIN messages' = DOMAIN messages
  BY DEF ChannelTypeOK, EditCaption, Message

LEMMA DeleteMessagesType ==
    ASSUME ChannelTypeOK, NEW m, DeleteMessages(m)
    PROVE  ChannelTypeOK' /\ DOMAIN messages' = DOMAIN messages \ {m}
  BY DEF ChannelTypeOK, DeleteMessages, Restrict

LEMMA EncodeType ==
    ASSUME NEW rec \in Record
    PROVE  EncodeFileMeta(rec) \in FileMeta
  BY DEF Record, EncodeFileMeta, FileMeta

\* Slots: starting, continuing and ending a request keep the types of the
\* other requests.
LEMMA SlotType ==
    ASSUME EngineTypeOK, NEW r \in Requests, NEW s \in Request,
           req' = [req EXCEPT ![r] = s],
           started' = started \/ (started < MaxRequests /\ started' = started + 1),
           deleting' \subseteq 1..lastId'
    PROVE  EngineTypeOK'
  BY EngineAssumption DEF EngineTypeOK

-----------------------------------------------------------------------------
(* Type correctness *)

LEMMA TypeInit == Init => TypeOK
  BY EngineAssumption
  DEF Init, TypeOK, IndexInit, IndexTypeOK, ChannelInit, ChannelTypeOK,
      EngineTypeOK, Request, Idle

LEMMA UploadType ==
    ASSUME TypeOK, NEW r \in Requests
    PROVE  /\ \A owner \in Owners, path \in Paths, hash \in Hashes :
                 UploadFind(r, owner, path, hash) => TypeOK'
           /\ UploadSend(r) => TypeOK'
           /\ UploadInsert(r) => TypeOK'
           /\ Respond(r) => TypeOK'
<1> USE DEF TypeOK
<1>0. req[r] \in Request
  BY DEF EngineTypeOK
<1>1. ASSUME NEW owner \in Owners, NEW path \in Paths, NEW hash \in Hashes,
             UploadFind(r, owner, path, hash)
      PROVE  TypeOK'
  <2>1. CASE \E i \in FindByHash(hash, owner) :
               Begin(r, [pc |-> "uploaded", by |-> owner, id |-> i, rec |-> files[i]])
    <3>1. PICK i \in FindByHash(hash, owner) :
               Begin(r, [pc |-> "uploaded", by |-> owner, id |-> i, rec |-> files[i]])
      BY <2>1
    <3>2. [pc |-> "uploaded", by |-> owner, id |-> i, rec |-> files[i]] \in Request
      BY DEF FindByHash, IndexTypeOK, Request, UploadedReq
    <3> QED
      BY <1>1, <3>1, <3>2, SlotType
      DEF UploadFind, Begin, indexVars, channelVars, IndexTypeOK, ChannelTypeOK,
          EngineTypeOK
  <2>2. CASE Begin(r, [pc |-> "send", by |-> owner,
                       rec |-> [path |-> path, filename |-> Base(path),
                                owner |-> owner, hash |-> hash, message_id |-> 0]])
    <3>1. [pc |-> "send", by |-> owner,
           rec |-> [path |-> path, filename |-> Base(path),
                    owner |-> owner, hash |-> hash, message_id |-> 0]] \in Request
      BY DEF Request, UploadReq, Record, Base, Paths
    <3> QED
      BY <1>1, <2>2, <3>1, SlotType
      DEF UploadFind, Begin, indexVars, channelVars, IndexTypeOK, ChannelTypeOK,
          EngineTypeOK
  <2> QED
    BY <1>1, <2>1, <2>2 DEF UploadFind
<1>2. ASSUME UploadSend(r) PROVE TypeOK'
  <2>1. req[r].rec \in Record /\ req[r].by \in Owners
    BY <1>0, <1>2, RequestTyping DEF UploadSend, At, UploadReq
  <2> DEFINE rec == [req[r].rec EXCEPT !.message_id = lastMessage + 1]
  <2>2. rec \in Record
    BY <2>1 DEF Record, ChannelTypeOK
  <2>3. [pc |-> "insert", by |-> req[r].by, rec |-> rec] \in Request
    BY <2>1, <2>2 DEF Request, UploadReq
  <2>4. ChannelTypeOK'
    BY <1>2, <2>1, EncodeType, SendFileType DEF UploadSend, Record
  <2> QED
    BY <1>2, <2>3, <2>4, SlotType
    DEF UploadSend, Goto, indexVars, IndexTypeOK, EngineTypeOK
<1>3. ASSUME UploadInsert(r) PROVE TypeOK'
  <2>1. req[r].rec \in Record /\ req[r].by \in Owners
    BY <1>0, <1>3, RequestTyping DEF UploadInsert, At, UploadReq
  <2>2. CASE /\ Insert(req[r].rec)
             /\ Goto(r, [pc |-> "uploaded", by |-> req[r].by, id |-> lastId + 1,
                         rec |-> req[r].rec])
    <3>1. IndexTypeOK' /\ lastId' = lastId + 1 /\ lastId \in Nat
      BY <2>1, <2>2, InsertType DEF Insert, IndexTypeOK
    <3>2. [pc |-> "uploaded", by |-> req[r].by, id |-> lastId + 1,
           rec |-> req[r].rec] \in Request
      BY <2>1, <3>1 DEF Request, UploadedReq
    <3>3. deleting' \subseteq 1..lastId'
      BY <1>3, <3>1 DEF UploadInsert, EngineTypeOK
    <3> QED
      BY <1>3, <2>2, <3>1, <3>2, <3>3, SlotType
      DEF UploadInsert, Goto, channelVars, ChannelTypeOK
  <2>3. CASE InsertRejected(req[r].rec) /\ Finish(r)
    BY <1>3, <2>3, SlotType
    DEF UploadInsert, InsertRejected, Finish, Goto, Request, indexVars,
        channelVars, IndexTypeOK, ChannelTypeOK, EngineTypeOK
  <2> QED
    BY <1>3, <2>2, <2>3 DEF UploadInsert
<1>4. ASSUME Respond(r) PROVE TypeOK'
  BY <1>4, SlotType
  DEF Respond, Finish, Goto, Request, indexVars, channelVars, IndexTypeOK,
      ChannelTypeOK, EngineTypeOK
<1> QED
  BY <1>1, <1>2, <1>3, <1>4

LEMMA RenameType ==
    ASSUME TypeOK, NEW r \in Requests
    PROVE  /\ \A owner \in Profiles, id \in DOMAIN files, filename \in Names :
                 RenameGet(r, owner, id, filename) => TypeOK'
           /\ RenameUpdate(r) => TypeOK'
           /\ RenameReread(r) => TypeOK'
           /\ RenameEdit(r) => TypeOK'
<1> USE DEF TypeOK
<1>0. req[r] \in Request
  BY DEF EngineTypeOK
<1>1. ASSUME NEW owner \in Profiles, NEW id \in DOMAIN files,
             NEW filename \in Names, RenameGet(r, owner, id, filename)
      PROVE  TypeOK'
  <2>1. [pc |-> "rename", by |-> owner, id |-> id, filename |-> filename] \in Request
    BY DEF Request, RenameReq, IndexTypeOK, Owners
  <2> QED
    BY <1>1, <2>1, SlotType
    DEF RenameGet, Begin, indexVars, channelVars, IndexTypeOK, ChannelTypeOK,
        EngineTypeOK
<1>2. ASSUME RenameUpdate(r) PROVE TypeOK'
  <2>1. req[r] \in RenameReq
    BY <1>0, <1>2, RequestTyping DEF RenameUpdate, At
  <2>2. CASE /\ RenameRow(req[r].id, req[r].filename)
             /\ Goto(r, [req[r] EXCEPT !.pc = "reread"])
    <3>1. [req[r] EXCEPT !.pc = "reread"] \in Request
      BY <2>1 DEF RenameReq, Request
    <3>2. IndexTypeOK' /\ lastId' = lastId
      BY <2>1, <2>2, RenameRowType DEF RenameRow, RenameReq
    <3> QED
      BY <1>2, <2>2, <3>1, <3>2, SlotType
      DEF RenameUpdate, Goto, channelVars, ChannelTypeOK, EngineTypeOK
  <2>3. CASE NoSuchRow(req[r].id) /\ Finish(r)
    BY <1>2, <2>3, SlotType
    DEF RenameUpdate, NoSuchRow, Finish, Goto, Request, indexVars, channelVars,
        IndexTypeOK, ChannelTypeOK, EngineTypeOK
  <2> QED
    BY <1>2, <2>2, <2>3 DEF RenameUpdate
<1>3. ASSUME RenameReread(r) PROVE TypeOK'
  <2>1. req[r] \in RenameReq
    BY <1>0, <1>3, RequestTyping DEF RenameReread, At
  <2>2. req[r].id \in DOMAIN files =>
          [pc |-> "edit", by |-> req[r].by, rec |-> files[req[r].id]] \in Request
    BY <2>1 DEF RenameReq, Request, EditReq, IndexTypeOK
  <2> QED
    BY <1>3, <2>2, SlotType
    DEF RenameReread, Finish, Goto, Request, indexVars, channelVars, IndexTypeOK,
        ChannelTypeOK, EngineTypeOK
<1>4. ASSUME RenameEdit(r) PROVE TypeOK'
  <2>1. req[r].rec \in Record
    BY <1>0, <1>4, RequestTyping DEF RenameEdit, At, EditReq
  <2>2. ChannelTypeOK'
    BY <1>4, <2>1, EncodeType, EditCaptionType
    DEF RenameEdit, EditRejected, channelVars, ChannelTypeOK
  <2> QED
    BY <1>4, <2>2, SlotType
    DEF RenameEdit, Finish, Goto, Request, indexVars, IndexTypeOK, EngineTypeOK
<1> QED
  BY <1>1, <1>2, <1>3, <1>4

LEMMA DeleteType ==
    ASSUME TypeOK, NEW r \in Requests
    PROVE  /\ \A owner \in Profiles, id \in DOMAIN files :
                 DeleteGet(r, owner, id) => TypeOK'
           /\ DeleteMessage(r) => TypeOK'
           /\ DeleteIndexed(r) => TypeOK'
<1> USE DEF TypeOK
<1>0. req[r] \in Request
  BY DEF EngineTypeOK
<1>1. ASSUME NEW owner \in Profiles, NEW id \in DOMAIN files,
             DeleteGet(r, owner, id)
      PROVE  TypeOK'
  <2>1. id \in 1..lastId /\ id \in Nat /\ files[id].message_id \in Nat
    BY DEF IndexTypeOK, Record
  <2>2. [pc |-> "unsend", by |-> owner, id |-> id,
         message_id |-> files[id].message_id] \in Request
    BY <2>1 DEF Request, DeleteReq, Owners
  <2> QED
    BY <1>1, <2>1, <2>2, SlotType
    DEF DeleteGet, Begin, indexVars, channelVars, IndexTypeOK, ChannelTypeOK,
        EngineTypeOK
<1>2. ASSUME DeleteMessage(r) PROVE TypeOK'
  <2>1. req[r] \in DeleteReq
    BY <1>0, <1>2, RequestTyping DEF DeleteMessage, At
  <2>2. [req[r] EXCEPT !.pc = "unindex"] \in Request
    BY <2>1 DEF DeleteReq, Request
  <2>3. ChannelTypeOK'
    BY <1>2, DeleteMessagesType DEF DeleteMessage
  <2> QED
    BY <1>2, <2>2, <2>3, SlotType
    DEF DeleteMessage, Goto, indexVars, IndexTypeOK, EngineTypeOK
<1>3. ASSUME DeleteIndexed(r) PROVE TypeOK'
  <2>1. IndexTypeOK' /\ lastId' = lastId
    BY <1>3, DeleteRowType
    DEF DeleteIndexed, DeleteRow, NoSuchRow, indexVars, IndexTypeOK
  <2> QED
    BY <1>3, <2>1, SlotType
    DEF DeleteIndexed, Finish, Goto, Request, channelVars, ChannelTypeOK,
        EngineTypeOK
<1> QED
  BY <1>1, <1>2, <1>3

LEMMA ReadType ==
    ASSUME TypeOK, NEW r \in Requests
    PROVE  /\ \A owner \in Profiles, id \in DOMAIN files :
                 ServeRecord(r, owner, id) => TypeOK'
           /\ \A id \in DOMAIN files : DownloadGet(r, id) => TypeOK'
           /\ Locate(r) => TypeOK'
           /\ Fetch(r) => TypeOK'
           /\ Fail(r) => TypeOK'
<1> USE DEF TypeOK
<1>0. req[r] \in Request
  BY DEF EngineTypeOK
<1>1. ASSUME NEW owner \in Profiles, NEW id \in DOMAIN files,
             ServeRecord(r, owner, id)
      PROVE  TypeOK'
  <2>1. [pc |-> "locate", by |-> owner, id |-> id, hdr |-> files[id]] \in Request
    BY DEF Request, LocateReq, Owners, IndexTypeOK
  <2> QED
    BY <1>1, <2>1, SlotType
    DEF ServeRecord, Begin, indexVars, channelVars, IndexTypeOK, ChannelTypeOK,
        EngineTypeOK
<1>2. ASSUME NEW id \in DOMAIN files, DownloadGet(r, id) PROVE TypeOK'
  <2>1. [pc |-> "fetch", by |-> NoOwner, hdr |-> files[id], rec |-> files[id]]
          \in Request
    BY DEF Request, FetchReq, Owners, IndexTypeOK
  <2> QED
    BY <1>2, <2>1, SlotType
    DEF DownloadGet, Begin, indexVars, channelVars, IndexTypeOK, ChannelTypeOK,
        EngineTypeOK
<1>3. ASSUME Locate(r) PROVE TypeOK'
  <2>1. req[r] \in LocateReq
    BY <1>0, <1>3, RequestTyping DEF Locate, At
  <2>2. req[r].id \in DOMAIN files =>
          [pc |-> "fetch", by |-> req[r].by, hdr |-> req[r].hdr,
           rec |-> files[req[r].id]] \in Request
    BY <2>1 DEF LocateReq, Request, FetchReq, IndexTypeOK
  <2> QED
    BY <1>3, <2>2, SlotType
    DEF Locate, Visible, Finish, Goto, Request, indexVars, channelVars,
        IndexTypeOK, ChannelTypeOK, EngineTypeOK
<1>4. ASSUME Fetch(r) PROVE TypeOK'
  <2>1. req[r] \in FetchReq
    BY <1>0, <1>4, RequestTyping DEF Fetch, At
  <2> DEFINE m == req[r].rec.message_id
  <2>2. m \in DOMAIN messages =>
          [pc |-> "stream", by |-> req[r].by, hdr |-> req[r].hdr,
           body |-> messages[m].document] \in Request
    BY <2>1 DEF FetchReq, Request, StreamReq, ChannelTypeOK, Message
  <2> QED
    BY <1>4, <2>2, SlotType
    DEF Fetch, Finish, Goto, Request, indexVars, channelVars, IndexTypeOK,
        ChannelTypeOK, EngineTypeOK
<1>5. ASSUME Fail(r) PROVE TypeOK'
  BY <1>5, SlotType
  DEF Fail, Finish, Goto, Request, indexVars, channelVars, IndexTypeOK,
      ChannelTypeOK, EngineTypeOK
<1> QED
  BY <1>1, <1>2, <1>3, <1>4, <1>5

LEMMA TypeStep == TypeOK /\ [Next]_vars => TypeOK'
<1> SUFFICES ASSUME TypeOK, [Next]_vars PROVE TypeOK'
  OBVIOUS
<1>1. ASSUME NEW r \in Requests, Issue(r) PROVE TypeOK'
  BY <1>1, UploadType, RenameType, DeleteType, ReadType DEF Issue
<1>2. ASSUME NEW r \in Requests, Proceed(r) PROVE TypeOK'
  BY <1>2, UploadType, RenameType, DeleteType, ReadType DEF Proceed
<1>3. ASSUME NEW r \in Requests, Fail(r) PROVE TypeOK'
  BY <1>3, ReadType
<1>4. CASE UNCHANGED vars
  BY <1>4 DEF vars, TypeOK, IndexTypeOK, ChannelTypeOK, EngineTypeOK
<1> QED
  BY <1>1, <1>2, <1>3, <1>4 DEF Next, Quiescent

\* Every value a handler or a row holds has its type, in every behaviour.
THEOREM TypeCorrect == Spec => []TypeOK
  BY TypeInit, TypeStep, PTL DEF Spec

-----------------------------------------------------------------------------
(* The inductive invariant *)

LEMMA InvInit == Init => IInv
<1> SUFFICES ASSUME Init PROVE IInv
  OBVIOUS
<1>1. TypeOK
  BY TypeInit
<1>2. DOMAIN files = {} /\ \A r \in Requests : req[r].pc = "idle"
  BY DEF Init, IndexInit, Idle
<1> QED
  BY <1>1, <1>2
  DEF IInv, RowsOwnMessages, RowsMatchDocuments, NoFileLost, RequestInv,
      InsertInv, Pending, RenameInv, EditInv, DeleteInv, ReadInv, At

\* The message of a row belongs to no upload still in flight.
LEMMA RowMessageHeld ==
    ASSUME IInv, NEW i \in DOMAIN files
    PROVE  HeldMessage(files[i].message_id)
  BY DEF IInv, RequestInv, InsertInv, HeldMessage, RowsOwnMessages

\* r moves on without becoming the sender of a message.
Moves(r) == req' = [req EXCEPT ![r] = req'[r]] /\ req'[r].pc # "insert"

LEMMA HeldMessageStep ==
    ASSUME TypeOK, NEW r \in Requests, Moves(r), lastMessage' = lastMessage,
           NEW m, HeldMessage(m)
    PROVE  HeldMessage(m)'
  BY DEF Moves, HeldMessage, Pending, At, TypeOK, EngineTypeOK

\* A step of r that only reads, after which r holds what it should.
LEMMA ReadingStep ==
    ASSUME IInv, TypeOK', NEW r \in Requests, Moves(r),
           UNCHANGED <<indexVars, channelVars>>, deleting \subseteq deleting',
           RenameInv(r)', EditInv(r)', DeleteInv(r)', ReadInv(r)'
    PROVE  IInv'
<1> USE DEF IInv, At, Pending, indexVars, channelVars
<1>1. req' = [q \in Requests |-> IF q = r THEN req'[r] ELSE req[q]]
  BY DEF TypeOK, EngineTypeOK, Moves
<1>2. RowsOwnMessages' /\ RowsMatchDocuments' /\ NoFileLost'
  BY DEF RowsOwnMessages, RowsMatchDocuments, NoFileLost, Backed
<1>3. ASSUME NEW m, HeldMessage(m) PROVE HeldMessage(m)'
  BY <1>3, HeldMessageStep
<1>4. ASSUME NEW q \in Requests
      PROVE  (InsertInv(q) /\ RenameInv(q) /\ EditInv(q) /\ DeleteInv(q) /\ ReadInv(q))'
  <2>1. CASE q = r
    BY <1>1, <2>1 DEF InsertInv, Moves
  <2>2. CASE q # r
    <3>0. /\ req'[q] = req[q]
          /\ InsertInv(q) /\ RenameInv(q) /\ EditInv(q) /\ DeleteInv(q) /\ ReadInv(q)
      BY <1>1, <2>2 DEF RequestInv
    <3>1. InsertInv(q)'
      BY <1>1, <3>0 DEF InsertInv, Moves
    <3>2. RenameInv(q)'
      BY <3>0 DEF RenameInv, HeldRow
    <3>3. EditInv(q)'
      BY <1>3, <3>0 DEF EditInv
    <3>4. DeleteInv(q)'
      BY <1>3, <3>0 DEF DeleteInv, HeldRow
    <3>5. ReadInv(q)'
      BY <3>0 DEF ReadInv
    <3> QED
      BY <3>1, <3>2, <3>3, <3>4, <3>5
  <2> QED
    BY <2>1, <2>2
<1> QED
  BY <1>2, <1>4 DEF RequestInv

\* A request that ends holds nothing.
LEMMA EndingStep ==
    ASSUME IInv, TypeOK', NEW r \in Requests,
           UNCHANGED <<indexVars, channelVars, deleting>>, Finish(r)
    PROVE  IInv'
<1>1. Moves(r) /\ req'[r].pc = "idle"
  BY DEF Finish, Goto, Idle, IInv, TypeOK, EngineTypeOK, Moves
<1>2. RenameInv(r)' /\ EditInv(r)' /\ DeleteInv(r)' /\ ReadInv(r)'
  BY <1>1 DEF RenameInv, EditInv, DeleteInv, ReadInv, At
<1> QED
  BY <1>1, <1>2, ReadingStep

LEMMA UploadFindStep ==
    ASSUME IInv, TypeOK', NEW r \in Requests, NEW owner, NEW path, NEW hash,
           UploadFind(r, owner, path, hash)
    PROVE  IInv'
<1>1. Moves(r) /\ req'[r].pc \in {"uploaded", "send"}
  BY DEF UploadFind, Begin, IInv, TypeOK, EngineTypeOK, Moves
<1>2. RenameInv(r)' /\ EditInv(r)' /\ DeleteInv(r)' /\ ReadInv(r)'
  BY <1>1 DEF RenameInv, EditInv, DeleteInv, ReadInv, At
<1> QED
  BY <1>1, <1>2, ReadingStep DEF UploadFind

LEMMA RenameGetStep ==
    ASSUME IInv, TypeOK', NEW r \in Requests, NEW owner \in Profiles,
           NEW id \in DOMAIN files, NEW filename, RenameGet(r, owner, id, filename)
    PROVE  IInv'
<1>1. Moves(r) /\ req'[r].pc = "rename" /\ req'[r].id = id /\ req'[r].by = owner
  BY DEF RenameGet, Begin, IInv, TypeOK, EngineTypeOK, Moves
<1>2. HeldRow(id, owner)'
  BY NoOwnerAssumption
  DEF RenameGet, Visible, HeldRow, indexVars, IInv, TypeOK, IndexTypeOK
<1>3. RenameInv(r)' /\ EditInv(r)' /\ DeleteInv(r)' /\ ReadInv(r)'
  BY <1>1, <1>2 DEF RenameInv, EditInv, DeleteInv, ReadInv, At
<1> QED
  BY <1>1, <1>3, ReadingStep DEF RenameGet

LEMMA RenameRereadStep ==
    ASSUME IInv, TypeOK', NEW r \in Requests, RenameReread(r)
    PROVE  IInv'
<1>1. CASE req[r].id \notin DOMAIN files
  BY <1>1, EndingStep DEF RenameReread
<1>2. CASE req[r].id \in DOMAIN files
  <2>1. /\ Moves(r)
        /\ req'[r].pc = "edit"
        /\ req'[r].rec = files[req[r].id]
        /\ req'[r].by = req[r].by
    BY <1>2 DEF RenameReread, Goto, IInv, TypeOK, EngineTypeOK, Moves
  <2>2. files[req[r].id].owner = req[r].by
    BY <1>2 DEF IInv, RequestInv, RenameInv, RenameReread, HeldRow
  <2>3. PICK m : m = files[req[r].id].message_id
    OBVIOUS
  <2>4. HeldMessage(m)'
    BY <1>2, <2>1, <2>3, RowMessageHeld, HeldMessageStep
    DEF RenameReread, channelVars, IInv
  <2>5. EditInv(r)'
    BY <1>2, <2>1, <2>2, <2>3, <2>4
    DEF EditInv, HeldMessage, IInv, RowsOwnMessages, RenameReread, indexVars
  <2>6. RenameInv(r)' /\ DeleteInv(r)' /\ ReadInv(r)'
    BY <2>1 DEF RenameInv, DeleteInv, ReadInv, At
  <2> QED
    BY <2>1, <2>5, <2>6, ReadingStep DEF RenameReread
<1> QED
  BY <1>1, <1>2

LEMMA DeleteGetStep ==
    ASSUME IInv, TypeOK', NEW r \in Requests, NEW owner \in Profiles,
           NEW id \in DOMAIN files, DeleteGet(r, owner, id)
    PROVE  IInv'
<1>1. /\ Moves(r)
      /\ req'[r].pc = "unsend"
      /\ req'[r].id = id
      /\ req'[r].by = owner
      /\ req'[r].message_id = files[id].message_id
  BY DEF DeleteGet, Begin, IInv, TypeOK, EngineTypeOK, Moves
<1>2. HeldRow(id, owner)'
  BY NoOwnerAssumption
  DEF DeleteGet, Visible, HeldRow, indexVars, IInv, TypeOK, IndexTypeOK
<1>3. PICK m : m = files[id].message_id
  OBVIOUS
<1>4. HeldMessage(m)'
  BY <1>1, <1>3, RowMessageHeld, HeldMessageStep DEF DeleteGet, channelVars, IInv
<1>5. DeleteInv(r)'
  BY <1>1, <1>2, <1>3, <1>4
  DEF DeleteInv, HeldMessage, IInv, RowsOwnMessages, DeleteGet, indexVars, At
<1>6. RenameInv(r)' /\ EditInv(r)' /\ ReadInv(r)'
  BY <1>1 DEF RenameInv, EditInv, ReadInv, At
<1> QED
  BY <1>1, <1>5, <1>6, ReadingStep DEF DeleteGet

LEMMA ServeRecordStep ==
    ASSUME IInv, TypeOK', NEW r \in Requests, NEW owner,
           NEW id \in DOMAIN files, ServeRecord(r, owner, id)
    PROVE  IInv'
<1>1. Moves(r) /\ req'[r].pc = "locate" /\ req'[r].id = id /\ req'[r].hdr = files[id]
  BY DEF ServeRecord, Begin, IInv, TypeOK, EngineTypeOK, Moves
<1>2. ReadInv(r)'
  BY <1>1 DEF ReadInv, At, ServeRecord, indexVars, IInv, TypeOK, IndexTypeOK
<1>3. RenameInv(r)' /\ EditInv(r)' /\ DeleteInv(r)'
  BY <1>1 DEF RenameInv, EditInv, DeleteInv, At
<1> QED
  BY <1>1, <1>2, <1>3, ReadingStep DEF ServeRecord

LEMMA DownloadGetStep ==
    ASSUME IInv, TypeOK', NEW r \in Requests, NEW id \in DOMAIN files,
           DownloadGet(r, id)
    PROVE  IInv'
<1>1. /\ Moves(r)
      /\ req'[r].pc = "fetch"
      /\ req'[r].rec = files[id]
      /\ req'[r].hdr = files[id]
  BY DEF DownloadGet, Begin, IInv, TypeOK, EngineTypeOK, Moves
<1>2. ReadInv(r)'
  BY <1>1
  DEF ReadInv, At, DownloadGet, indexVars, channelVars, IInv, RowsOwnMessages,
      RowsMatchDocuments
<1>3. RenameInv(r)' /\ EditInv(r)' /\ DeleteInv(r)'
  BY <1>1 DEF RenameInv, EditInv, DeleteInv, At
<1> QED
  BY <1>1, <1>2, <1>3, ReadingStep DEF DownloadGet

LEMMA LocateStep ==
    ASSUME IInv, TypeOK', NEW r \in Requests, Locate(r)
    PROVE  IInv'
<1>1. CASE ~Visible(req[r].id, req[r].by)
  BY <1>1, EndingStep DEF Locate
<1>2. CASE Visible(req[r].id, req[r].by)
  <2>1. /\ Moves(r)
        /\ req'[r].pc = "fetch"
        /\ req'[r].rec = files[req[r].id]
        /\ req'[r].hdr = req[r].hdr
    BY <1>2 DEF Locate, Goto, IInv, TypeOK, EngineTypeOK, Moves
  <2>2. req[r].id \in DOMAIN files /\ files[req[r].id].hash = req[r].hdr.hash
    BY <1>2 DEF Visible, Locate, IInv, RequestInv, ReadInv
  <2>3. ReadInv(r)'
    BY <2>1, <2>2
    DEF ReadInv, At, Locate, indexVars, channelVars, IInv, RowsOwnMessages,
        RowsMatchDocuments
  <2>4. RenameInv(r)' /\ EditInv(r)' /\ DeleteInv(r)'
    BY <2>1 DEF RenameInv, EditInv, DeleteInv, At
  <2> QED
    BY <2>1, <2>3, <2>4, ReadingStep DEF Locate
<1> QED
  BY <1>1, <1>2

LEMMA FetchStep ==
    ASSUME IInv, TypeOK', NEW r \in Requests, Fetch(r)
    PROVE  IInv'
<1>1. CASE req[r].rec.message_id \notin DOMAIN messages
  BY <1>1, EndingStep DEF Fetch
<1>2. CASE req[r].rec.message_id \in DOMAIN messages
  <2>1. /\ Moves(r)
        /\ req'[r].pc = "stream"
        /\ req'[r].hdr = req[r].hdr
        /\ req'[r].body = messages[req[r].rec.message_id].document
    BY <1>2 DEF Fetch, Goto, IInv, TypeOK, EngineTypeOK, Moves
  <2>2. ReadInv(r)'
    BY <1>2, <2>1 DEF ReadInv, At, Fetch, IInv, RequestInv
  <2>3. RenameInv(r)' /\ EditInv(r)' /\ DeleteInv(r)'
    BY <2>1 DEF RenameInv, EditInv, DeleteInv, At
  <2> QED
    BY <2>1, <2>2, <2>3, ReadingStep DEF Fetch
<1> QED
  BY <1>1, <1>2

\* A new message is nobody's but its sender's.
LEMMA UploadSendStep ==
    ASSUME IInv, TypeOK', NEW r \in Requests, UploadSend(r)
    PROVE  IInv'
<1> USE DEF At, Pending
<1> DEFINE new == lastMessage + 1
<1>0. req[r].rec \in Record
  BY RequestTyping DEF UploadSend, IInv, TypeOK, EngineTypeOK, UploadReq
<1>1. /\ lastMessage \in Nat
      /\ DOMAIN messages \subseteq 1..lastMessage
      /\ req' = [q \in Requests |-> IF q = r THEN req'[r] ELSE req[q]]
      /\ req'[r].pc = "insert"
      /\ req'[r].rec = [req[r].rec EXCEPT !.message_id = new]
      /\ req'[r].rec.message_id = new
  BY <1>0
  DEF UploadSend, Goto, IInv, TypeOK, ChannelTypeOK, EngineTypeOK, Record
<1>2. /\ lastMessage' = new
      /\ DOMAIN messages' = DOMAIN messages \cup {new}
      /\ \A m \in DOMAIN messages : messages'[m] = messages[m]
      /\ messages'[new] = [document |-> req[r].rec.hash,
                           caption  |-> EncodeFileMeta(req[r].rec)]
      /\ UNCHANGED <<files, lastId, deleting>>
  BY <1>1 DEF UploadSend, SendFile, indexVars
<1>3. \A m \in 1..lastMessage : m \in 1..lastMessage' /\ m # new
  BY <1>1, <1>2
<1>4. \A q \in Requests : Pending(q)' <=> q = r \/ Pending(q)
  BY <1>1
<1>5. RowsOwnMessages' /\ RowsMatchDocuments' /\ NoFileLost'
  BY <1>1, <1>2 DEF IInv, RowsOwnMessages, RowsMatchDocuments, NoFileLost, Backed
<1>6. ASSUME NEW q \in Requests
      PROVE  (InsertInv(q) /\ RenameInv(q) /\ EditInv(q) /\ DeleteInv(q) /\ ReadInv(q))'
  <2>0. /\ InsertInv(q) /\ RenameInv(q) /\ EditInv(q) /\ DeleteInv(q) /\ ReadInv(q)
        /\ \A p \in Requests : Pending(p) => req[p].rec.message_id \in 1..lastMessage
    BY <1>1 DEF IInv, RequestInv, InsertInv
  <2>1. CASE q = r
    <3>1. /\ req'[r].rec.hash = req[r].rec.hash
          /\ EncodeFileMeta(req'[r].rec) = EncodeFileMeta(req[r].rec)
      BY <1>0, <1>1 DEF Record, EncodeFileMeta
    <3>2. \A i \in DOMAIN files : files'[i].message_id # new
      BY <1>1, <1>2 DEF IInv, RowsOwnMessages
    <3>3. InsertInv(r)'
      BY <1>1, <1>2, <2>0, <3>1, <3>2 DEF InsertInv, EncodeFileMeta
    <3> QED
      BY <1>1, <2>1, <3>3 DEF RenameInv, EditInv, DeleteInv, ReadInv
  <2>2. CASE q # r
    <3>0. req'[q] = req[q]
      BY <1>1, <2>2
    <3>1. InsertInv(q)'
      <4> SUFFICES ASSUME Pending(q) PROVE InsertInv(q)'
        BY <3>0 DEF InsertInv
      <4> DEFINE m == req[q].rec.message_id
      <4>1. m \in DOMAIN messages /\ m # new
        BY <1>3, <2>0 DEF InsertInv
      <4>2. \A p \in Requests : Pending(p)' /\ p # q => req'[p].rec.message_id # m
        BY <1>1, <1>4, <2>0, <4>1 DEF InsertInv
      <4> QED
        BY <1>2, <2>0, <3>0, <4>1, <4>2 DEF InsertInv
    <3>2. ASSUME NEW m, HeldMessage(m) PROVE HeldMessage(m)'
      <4>1. m \in 1..lastMessage' /\ m # new
        BY <1>3, <3>2 DEF HeldMessage
      <4>2. \A p \in Requests : Pending(p)' => req'[p].rec.message_id # m
        BY <1>1, <1>4, <3>2, <4>1 DEF HeldMessage
      <4> QED
        BY <4>1, <4>2 DEF HeldMessage
    <3>3. RenameInv(q)'
      BY <1>2, <2>0, <3>0 DEF RenameInv, HeldRow
    <3>4. EditInv(q)'
      BY <1>2, <2>0, <3>0, <3>2 DEF EditInv
    <3>5. DeleteInv(q)'
      BY <1>2, <2>0, <3>0, <3>2 DEF DeleteInv, HeldRow
    <3>6. ReadInv(q)'
      BY <1>1, <1>2, <2>0, <3>0 DEF ReadInv
    <3> QED
      BY <3>1, <3>3, <3>4, <3>5, <3>6
  <2> QED
    BY <2>1, <2>2
<1> QED
  BY <1>5, <1>6 DEF IInv, RequestInv

\* A new row takes over its uploader's message and an id nobody holds.
LEMMA UploadInsertStep ==
    ASSUME IInv, TypeOK', NEW r \in Requests, UploadInsert(r)
    PROVE  IInv'
<1> USE DEF At, Pending
<1>1. CASE InsertRejected(req[r].rec) /\ Finish(r)
  BY <1>1, EndingStep DEF UploadInsert, InsertRejected
<1>2. CASE /\ Insert(req[r].rec)
           /\ Goto(r, [pc |-> "uploaded", by |-> req[r].by, id |-> lastId + 1,
                       rec |-> req[r].rec])
  <2> DEFINE new == lastId + 1
             m == req[r].rec.message_id
  <2>1. /\ lastId \in Nat
        /\ DOMAIN files \subseteq 1..lastId
        /\ DOMAIN messages \subseteq 1..lastMessage
        /\ req' = [q \in Requests |-> IF q = r THEN req'[r] ELSE req[q]]
        /\ req'[r].pc = "uploaded"
        /\ Pending(r)
    BY <1>2
    DEF UploadInsert, Goto, IInv, TypeOK, IndexTypeOK, ChannelTypeOK, EngineTypeOK
  <2>2. /\ lastId' = new
        /\ DOMAIN files' = DOMAIN files \cup {new}
        /\ \A i \in DOMAIN files : files'[i] = files[i]
        /\ files'[new] = req[r].rec
        /\ UNCHANGED <<messages, lastMessage, deleting>>
    BY <1>2, <2>1 DEF Insert, UploadInsert, channelVars
  <2>3. /\ m \in DOMAIN messages
        /\ messages[m].document = req[r].rec.hash
        /\ messages[m].caption = EncodeFileMeta(req[r].rec)
        /\ \A i \in DOMAIN files : files[i].message_id # m
        /\ \A q \in Requests : Pending(q) /\ q # r => req[q].rec.message_id # m
    BY <2>1 DEF IInv, RequestInv, InsertInv
  <2>4. RowsOwnMessages' /\ RowsMatchDocuments'
    BY <2>1, <2>2, <2>3 DEF IInv, RowsOwnMessages, RowsMatchDocuments
  <2>5. NoFileLost'
    BY <2>1, <2>2, <2>3 DEF IInv, NoFileLost, Backed, EncodeFileMeta
  <2>6. ASSUME NEW q \in Requests
        PROVE  (InsertInv(q) /\ RenameInv(q) /\ EditInv(q) /\ DeleteInv(q) /\ ReadInv(q))'
    <3>0. InsertInv(q) /\ RenameInv(q) /\ EditInv(q) /\ DeleteInv(q) /\ ReadInv(q)
      BY DEF IInv, RequestInv
    <3>1. CASE q = r
      BY <2>1, <3>1 DEF InsertInv, RenameInv, EditInv, DeleteInv, ReadInv
    <3>2. CASE q # r
      <4>0. req'[q] = req[q]
        BY <2>1, <3>2
      <4>1. InsertInv(q)'
        BY <2>1, <2>2, <2>3, <3>0, <3>2, <4>0 DEF InsertInv
      <4>2. ASSUME NEW k, HeldMessage(k) PROVE HeldMessage(k)' /\ k # m
        BY <2>1, <2>2, <4>2 DEF HeldMessage
      <4>3. ASSUME NEW i, NEW by, HeldRow(i, by) PROVE HeldRow(i, by)'
        BY <2>1, <2>2, <4>3 DEF HeldRow
      <4>4. RenameInv(q)'
        BY <3>0, <4>0, <4>3 DEF RenameInv
      <4>5. EditInv(q)'
        BY <2>1, <2>2, <3>0, <4>0, <4>2 DEF EditInv
      <4>6. DeleteInv(q)'
        BY <2>1, <2>2, <3>0, <4>0, <4>2, <4>3 DEF DeleteInv
      <4>7. ReadInv(q)'
        BY <2>1, <2>2, <3>0, <4>0 DEF ReadInv
      <4> QED
        BY <4>1, <4>4, <4>5, <4>6, <4>7
    <3> QED
      BY <3>1, <3>2
  <2> QED
    BY <2>4, <2>5, <2>6 DEF IInv, RequestInv
<1> QED
  BY <1>1, <1>2 DEF UploadInsert

\* What a renaming changes is never among what requests rely on.
LEMMA RenameUpdateStep ==
    ASSUME IInv, TypeOK', NEW r \in Requests, RenameUpdate(r)
    PROVE  IInv'
<1> USE DEF At, Pending
<1>1. CASE NoSuchRow(req[r].id) /\ Finish(r)
  BY <1>1, EndingStep DEF RenameUpdate, NoSuchRow
<1>2. CASE /\ RenameRow(req[r].id, req[r].filename)
           /\ Goto(r, [req[r] EXCEPT !.pc = "reread"])
  <2>0. req[r] \in RenameReq
    BY RequestTyping DEF RenameUpdate, IInv, TypeOK, EngineTypeOK
  <2>1. /\ req' = [q \in Requests |-> IF q = r THEN req'[r] ELSE req[q]]
        /\ req'[r].pc = "reread"
        /\ req'[r].id = req[r].id
        /\ req'[r].by = req[r].by
    BY <1>2, <2>0 DEF Goto, IInv, TypeOK, EngineTypeOK, RenameReq
  <2>2. /\ DOMAIN files' = DOMAIN files
        /\ \A i \in DOMAIN files :
              /\ files'[i].message_id = files[i].message_id
              /\ files'[i].hash = files[i].hash
              /\ files'[i].owner = files[i].owner
              /\ files'[i].path = files[i].path
        /\ UNCHANGED <<lastId, messages, lastMessage, deleting>>
    BY <1>2
    DEF RenameUpdate, RenameRow, channelVars, IInv, TypeOK, IndexTypeOK, Record
  <2>3. RowsOwnMessages' /\ RowsMatchDocuments' /\ NoFileLost'
    BY <2>2 DEF IInv, RowsOwnMessages, RowsMatchDocuments, NoFileLost, Backed
  <2>4. ASSUME NEW i, NEW by, HeldRow(i, by) PROVE HeldRow(i, by)'
    BY <2>2, <2>4 DEF HeldRow
  <2>5. ASSUME NEW m, HeldMessage(m) PROVE HeldMessage(m)'
    BY <2>1, <2>2, <2>5 DEF HeldMessage
  <2>6. ASSUME NEW q \in Requests
        PROVE  (InsertInv(q) /\ RenameInv(q) /\ EditInv(q) /\ DeleteInv(q) /\ ReadInv(q))'
    <3>0. InsertInv(q) /\ RenameInv(q) /\ EditInv(q) /\ DeleteInv(q) /\ ReadInv(q)
      BY DEF IInv, RequestInv
    <3>1. CASE q = r
      BY <2>1, <2>4, <3>0, <3>1
      DEF RenameUpdate, InsertInv, RenameInv, EditInv, DeleteInv, ReadInv
    <3>2. CASE q # r
      <4>0. req'[q] = req[q]
        BY <2>1, <3>2
      <4>1. InsertInv(q)'
        BY <2>1, <2>2, <3>0, <4>0 DEF InsertInv
      <4>2. RenameInv(q)'
        BY <2>4, <3>0, <4>0 DEF RenameInv
      <4>3. EditInv(q)'
        BY <2>2, <2>5, <3>0, <4>0 DEF EditInv
      <4>4. DeleteInv(q)'
        BY <2>2, <2>4, <2>5, <3>0, <4>0 DEF DeleteInv
      <4>5. ReadInv(q)'
        BY <2>2, <3>0, <4>0 DEF ReadInv
      <4> QED
        BY <4>1, <4>2, <4>3, <4>4, <4>5
    <3> QED
      BY <3>1, <3>2
  <2> QED
    BY <2>3, <2>6 DEF IInv, RequestInv
<1> QED
  BY <1>1, <1>2 DEF RenameUpdate

\* The edited caption belongs to a row it agrees with, or to none.
LEMMA RenameEditStep ==
    ASSUME IInv, TypeOK', NEW r \in Requests, RenameEdit(r)
    PROVE  IInv'
<1> USE DEF At, Pending
<1> DEFINE rec == req[r].rec
<1>1. CASE EditRejected(rec.message_id, EncodeFileMeta(rec))
  BY <1>1, EndingStep DEF RenameEdit, EditRejected
<1>2. CASE EditCaption(rec.message_id, EncodeFileMeta(rec))
  <2>1. /\ req' = [q \in Requests |-> IF q = r THEN req'[r] ELSE req[q]]
        /\ req'[r].pc = "idle"
        /\ UNCHANGED <<files, lastId, lastMessage, deleting>>
    BY <1>2
    DEF RenameEdit, EditCaption, Finish, Goto, Idle, indexVars, IInv, TypeOK,
        EngineTypeOK
  <2>2. /\ DOMAIN messages' = DOMAIN messages
        /\ \A m \in DOMAIN messages :
              /\ messages'[m].document = messages[m].document
              /\ m # rec.message_id => messages'[m] = messages[m]
        /\ rec.message_id \in DOMAIN messages
        /\ messages'[rec.message_id].caption = EncodeFileMeta(rec)
    BY <1>2 DEF EditCaption, IInv, TypeOK, ChannelTypeOK, Message
  <2>3. EditInv(r) /\ HeldMessage(rec.message_id)
    BY DEF IInv, RequestInv, EditInv, RenameEdit
  <2>4. RowsOwnMessages' /\ RowsMatchDocuments'
    BY <2>1, <2>2 DEF IInv, RowsOwnMessages, RowsMatchDocuments
  <2>5. ASSUME NEW i \in DOMAIN files \ deleting PROVE Backed(i)'
    <3>1. Backed(i)
      BY DEF IInv, NoFileLost
    <3>2. CASE files[i].message_id = rec.message_id
      BY <2>1, <2>2, <2>3, <3>1, <3>2
      DEF EditInv, RenameEdit, Backed, EncodeFileMeta
    <3>3. CASE files[i].message_id # rec.message_id
      BY <2>1, <2>2, <3>1, <3>3 DEF Backed
    <3> QED
      BY <3>2, <3>3
  <2>6. NoFileLost'
    BY <2>1, <2>5 DEF NoFileLost
  <2>7. ASSUME NEW i, NEW by, HeldRow(i, by) PROVE HeldRow(i, by)'
    BY <2>1, <2>7 DEF HeldRow
  <2>8. ASSUME NEW m, HeldMessage(m) PROVE HeldMessage(m)'
    BY <2>1, <2>8 DEF HeldMessage
  <2>9. ASSUME NEW q \in Requests
        PROVE  (InsertInv(q) /\ RenameInv(q) /\ EditInv(q) /\ DeleteInv(q) /\ ReadInv(q))'
    <3>0. InsertInv(q) /\ RenameInv(q) /\ EditInv(q) /\ DeleteInv(q) /\ ReadInv(q)
      BY DEF IInv, RequestInv
    <3>1. CASE q = r
      BY <2>1, <3>1 DEF InsertInv, RenameInv, EditInv, DeleteInv, ReadInv
    <3>2. CASE q # r
      <4>0. req'[q] = req[q]
        BY <2>1, <3>2
      <4>1. InsertInv(q)'
        BY <2>1, <2>2, <2>3, <3>0, <4>0 DEF InsertInv, HeldMessage
      <4>2. RenameInv(q)'
        BY <2>7, <3>0, <4>0 DEF RenameInv
      <4>3. EditInv(q)'
        BY <2>1, <2>8, <3>0, <4>0 DEF EditInv
      <4>4. DeleteInv(q)'
        BY <2>1, <2>7, <2>8, <3>0, <4>0 DEF DeleteInv
      <4>5. ReadInv(q)'
        BY <2>1, <2>2, <3>0, <4>0 DEF ReadInv
      <4> QED
        BY <4>1, <4>2, <4>3, <4>4, <4>5
    <3> QED
      BY <3>1, <3>2
  <2> QED
    BY <2>4, <2>6, <2>9 DEF IInv, RequestInv
<1> QED
  BY <1>1, <1>2 DEF RenameEdit

\* The message that goes away is that of the row whose deletion was accepted.
LEMMA DeleteMessageStep ==
    ASSUME IInv, TypeOK', NEW r \in Requests, DeleteMessage(r)
    PROVE  IInv'
<1> USE DEF At, Pending
<1> DEFINE gone == req[r].message_id
<1>0. req[r] \in DeleteReq
  BY RequestTyping DEF DeleteMessage, IInv, TypeOK, EngineTypeOK
<1>1. /\ req' = [q \in Requests |-> IF q = r THEN req'[r] ELSE req[q]]
      /\ req'[r].pc = "unindex"
      /\ req'[r].id = req[r].id
      /\ req'[r].by = req[r].by
      /\ UNCHANGED <<files, lastId, lastMessage, deleting>>
  BY <1>0
  DEF DeleteMessage, DeleteMessages, Goto, DeleteReq, indexVars, IInv, TypeOK,
      EngineTypeOK
<1>2. /\ DOMAIN messages' = DOMAIN messages \ {gone}
      /\ \A m \in DOMAIN messages' : messages'[m] = messages[m]
  BY DEF DeleteMessage, DeleteMessages, Restrict
<1>3. /\ req[r].id \in deleting
      /\ HeldMessage(gone)
      /\ HeldRow(req[r].id, req[r].by)
      /\ \A i \in DOMAIN files : files[i].message_id = gone => i = req[r].id
  BY DEF IInv, RequestInv, DeleteInv, DeleteMessage
<1>4. RowsOwnMessages' /\ RowsMatchDocuments'
  BY <1>1, <1>2 DEF IInv, RowsOwnMessages, RowsMatchDocuments
<1>5. NoFileLost'
  BY <1>1, <1>2, <1>3 DEF IInv, NoFileLost, Backed
<1>6. ASSUME NEW i, NEW by, HeldRow(i, by) PROVE HeldRow(i, by)'
  BY <1>1, <1>6 DEF HeldRow
<1>7. ASSUME NEW m, HeldMessage(m) PROVE HeldMessage(m)'
  BY <1>1, <1>7 DEF HeldMessage
<1>8. ASSUME NEW q \in Requests
      PROVE  (InsertInv(q) /\ RenameInv(q) /\ EditInv(q) /\ DeleteInv(q) /\ ReadInv(q))'
  <2>0. InsertInv(q) /\ RenameInv(q) /\ EditInv(q) /\ DeleteInv(q) /\ ReadInv(q)
    BY DEF IInv, RequestInv
  <2>1. CASE q = r
    BY <1>1, <1>3, <1>6, <2>1 DEF InsertInv, RenameInv, EditInv, DeleteInv, ReadInv
  <2>2. CASE q # r
    <3>0. req'[q] = req[q]
      BY <1>1, <2>2
    <3>1. InsertInv(q)'
      BY <1>1, <1>2, <1>3, <2>0, <3>0 DEF InsertInv, HeldMessage
    <3>2. RenameInv(q)'
      BY <1>6, <2>0, <3>0 DEF RenameInv
    <3>3. EditInv(q)'
      BY <1>1, <1>7, <2>0, <3>0 DEF EditInv
    <3>4. DeleteInv(q)'
      BY <1>1, <1>6, <1>7, <2>0, <3>0 DEF DeleteInv
    <3>5. ReadInv(q)'
      BY <1>1, <1>2, <2>0, <3>0 DEF ReadInv
    <3> QED
      BY <3>1, <3>2, <3>3, <3>4, <3>5
  <2> QED
    BY <2>1, <2>2
<1> QED
  BY <1>4, <1>5, <1>8 DEF IInv, RequestInv

\* Fewer rows: nothing that is held is about a row that must exist.
LEMMA DeleteIndexedStep ==
    ASSUME IInv, TypeOK', NEW r \in Requests, DeleteIndexed(r)
    PROVE  IInv'
<1> USE DEF At, Pending
<1>1. /\ req' = [q \in Requests |-> IF q = r THEN req'[r] ELSE req[q]]
      /\ req'[r].pc = "idle"
      /\ UNCHANGED <<messages, lastMessage, deleting>>
  BY DEF DeleteIndexed, Finish, Goto, Idle, channelVars, IInv, TypeOK, EngineTypeOK
<1>2. /\ DOMAIN files' \subseteq DOMAIN files
      /\ \A i \in DOMAIN files' : files'[i] = files[i]
      /\ UNCHANGED lastId
  BY DEF DeleteIndexed, DeleteRow, NoSuchRow, Restrict, indexVars
<1>3. RowsOwnMessages' /\ RowsMatchDocuments' /\ NoFileLost'
  BY <1>1, <1>2 DEF IInv, RowsOwnMessages, RowsMatchDocuments, NoFileLost, Backed
<1>4. ASSUME NEW i, NEW by, HeldRow(i, by) PROVE HeldRow(i, by)'
  BY <1>2, <1>4 DEF HeldRow
<1>5. ASSUME NEW m, HeldMessage(m) PROVE HeldMessage(m)'
  BY <1>1, <1>5 DEF HeldMessage
<1>6. ASSUME NEW q \in Requests
      PROVE  (InsertInv(q) /\ RenameInv(q) /\ EditInv(q) /\ DeleteInv(q) /\ ReadInv(q))'
  <2>0. InsertInv(q) /\ RenameInv(q) /\ EditInv(q) /\ DeleteInv(q) /\ ReadInv(q)
    BY DEF IInv, RequestInv
  <2>1. CASE q = r
    BY <1>1, <2>1 DEF InsertInv, RenameInv, EditInv, DeleteInv, ReadInv
  <2>2. CASE q # r
    <3>0. req'[q] = req[q]
      BY <1>1, <2>2
    <3>1. InsertInv(q)'
      BY <1>1, <1>2, <2>0, <3>0 DEF InsertInv
    <3>2. RenameInv(q)'
      BY <1>4, <2>0, <3>0 DEF RenameInv
    <3>3. EditInv(q)'
      BY <1>2, <1>5, <2>0, <3>0 DEF EditInv
    <3>4. DeleteInv(q)'
      BY <1>1, <1>2, <1>4, <1>5, <2>0, <3>0 DEF DeleteInv
    <3>5. ReadInv(q)'
      BY <1>1, <1>2, <2>0, <3>0 DEF ReadInv
    <3> QED
      BY <3>1, <3>2, <3>3, <3>4, <3>5
  <2> QED
    BY <2>1, <2>2
<1> QED
  BY <1>3, <1>6 DEF IInv, RequestInv

LEMMA InvStep == IInv /\ [Next]_vars => IInv'
<1> SUFFICES ASSUME IInv, [Next]_vars PROVE IInv'
  OBVIOUS
<1>0. TypeOK'
  BY TypeStep DEF IInv
<1>1. ASSUME NEW r \in Requests, Issue(r) PROVE IInv'
  <2>1. ASSUME NEW id \in DOMAIN files, NEW owner \in Profiles,
               \/ \E filename \in Names : RenameGet(r, owner, id, filename)
               \/ DeleteGet(r, owner, id)
               \/ ServeRecord(r, owner, id)
        PROVE  IInv'
    BY <1>0, <2>1, RenameGetStep, DeleteGetStep, ServeRecordStep
  <2> QED
    BY <1>0, <1>1, <2>1, UploadFindStep, DownloadGetStep DEF Issue
<1>2. ASSUME NEW r \in Requests, Proceed(r) PROVE IInv'
  <2>1. CASE Respond(r)
    BY <1>0, <2>1, EndingStep DEF Respond
  <2> QED
    BY <1>0, <1>2, <2>1, UploadSendStep, UploadInsertStep, RenameUpdateStep,
       RenameRereadStep, RenameEditStep, DeleteMessageStep, DeleteIndexedStep,
       LocateStep, FetchStep
    DEF Proceed
<1>3. ASSUME NEW r \in Requests, Fail(r) PROVE IInv'
  BY <1>0, <1>3, EndingStep DEF Fail
<1>4. CASE UNCHANGED vars
  <2>1. RowsOwnMessages' /\ RowsMatchDocuments' /\ NoFileLost'
    BY <1>4
    DEF vars, IInv, RowsOwnMessages, RowsMatchDocuments, NoFileLost, Backed
  <2>2. RequestInv'
    BY <1>4
    DEF vars, IInv, RequestInv, InsertInv, RenameInv, EditInv, DeleteInv, ReadInv,
        HeldRow, HeldMessage, Pending, At
  <2> QED
    BY <1>0, <2>1, <2>2 DEF IInv
<1> QED
  BY <1>1, <1>2, <1>3, <1>4 DEF Next, Quiescent

THEOREM Invariance == Spec => []IInv
  BY InvInit, InvStep, PTL DEF Spec

-----------------------------------------------------------------------------
(* Safety *)

\* No interleaving, failure or crash of requests leaves a row that nobody
\* asked to delete without a message of its own content and recovery data.
THEOREM FilesKept == Spec => []NoFileLost
<1>1. IInv => NoFileLost
  BY DEF IInv
<1> QED
  BY <1>1, Invariance, PTL

\* A response never pairs the headers of one file with another file's bytes.
THEOREM ContentServed == Spec => []ServedContent
<1>1. IInv => ServedContent
  BY DEF IInv, RequestInv, ReadInv, ServedContent
<1> QED
  BY <1>1, Invariance, PTL

\* Steps that leave the index and the channel alone touch nobody's files.
LEMMA ReadingTouchesNothing ==
    ASSUME UNCHANGED <<indexVars, channelVars>>, NEW i \in DOMAIN files
    PROVE  Untouched(i)
  BY DEF Untouched, indexVars, channelVars

LEMMA WritingTouchesOwn ==
    ASSUME IInv, NEW r \in Requests, Proceed(r), NEW i \in DOMAIN files,
           ~Acting(files[i].owner)
    PROVE  Untouched(i)
<1> USE DEF At
<1>0. /\ req[r].by # files[i].owner \/ req'[r] = req[r]
      /\ req[r] \in Request
      /\ RenameInv(r) /\ EditInv(r) /\ DeleteInv(r)
  BY DEF Acting, Proceed, UploadSend, UploadInsert, Respond, RenameUpdate,
         RenameReread, RenameEdit, DeleteMessage, DeleteIndexed, Locate, Fetch,
         IInv, RequestInv, TypeOK, EngineTypeOK
<1>1. ASSUME UploadSend(r) PROVE Untouched(i)
  BY <1>1
  DEF UploadSend, SendFile, Untouched, indexVars, IInv, TypeOK, ChannelTypeOK
<1>2. ASSUME UploadInsert(r) PROVE Untouched(i)
  BY <1>2
  DEF UploadInsert, Insert, InsertRejected, Untouched, indexVars, channelVars,
      IInv, TypeOK, IndexTypeOK
<1>3. ASSUME RenameUpdate(r) PROVE Untouched(i)
  <2>1. CASE NoSuchRow(req[r].id)
    BY <1>3, <2>1, ReadingTouchesNothing DEF RenameUpdate, NoSuchRow
  <2>2. CASE RenameRow(req[r].id, req[r].filename)
    <3>1. req'[r].pc # req[r].pc
      BY <1>0, <1>3, RequestTyping
      DEF RenameUpdate, Goto, Finish, Idle, RenameReq, IInv, TypeOK, EngineTypeOK
    <3>2. req[r].id # i
      BY <1>0, <1>3, <2>2, <3>1 DEF RenameUpdate, RenameRow, RenameInv, HeldRow
    <3> QED
      BY <1>3, <2>2, <3>2
      DEF RenameUpdate, RenameRow, Untouched, channelVars, IInv, TypeOK, IndexTypeOK
  <2> QED
    BY <1>3, <2>1, <2>2 DEF RenameUpdate
<1>4. ASSUME RenameEdit(r) PROVE Untouched(i)
  <2>1. CASE EditRejected(req[r].rec.message_id, EncodeFileMeta(req[r].rec))
    BY <1>4, <2>1, ReadingTouchesNothing DEF RenameEdit, EditRejected
  <2>2. CASE EditCaption(req[r].rec.message_id, EncodeFileMeta(req[r].rec))
    <3>1. req'[r].pc # req[r].pc
      BY <1>4 DEF RenameEdit, Goto, Finish, Idle, IInv, TypeOK, EngineTypeOK
    <3>2. req[r].rec.message_id # files[i].message_id
      BY <1>0, <1>4, <3>1 DEF RenameEdit, EditInv
    <3> QED
      BY <1>4, <2>2, <3>2
      DEF RenameEdit, EditCaption, Untouched, indexVars, IInv, TypeOK, ChannelTypeOK
  <2> QED
    BY <1>4, <2>1, <2>2 DEF RenameEdit
<1>5. ASSUME DeleteMessage(r) PROVE Untouched(i)
  <2>1. req'[r].pc # req[r].pc
    BY <1>0, <1>5, RequestTyping
    DEF DeleteMessage, Goto, DeleteReq, IInv, TypeOK, EngineTypeOK
  <2>2. req[r].message_id # files[i].message_id
    BY <1>0, <1>5, <2>1 DEF DeleteMessage, DeleteInv, HeldRow
  <2> QED
    BY <1>5, <2>2 DEF DeleteMessage, DeleteMessages, Restrict, Untouched, indexVars
<1>6. ASSUME DeleteIndexed(r) PROVE Untouched(i)
  <2>1. req'[r].pc # req[r].pc
    BY <1>6 DEF DeleteIndexed, Goto, Finish, Idle, IInv, TypeOK, EngineTypeOK
  <2>2. req[r].id # i
    BY <1>0, <1>6, <2>1 DEF DeleteIndexed, DeleteInv, HeldRow
  <2> QED
    BY <1>6, <2>2
    DEF DeleteIndexed, DeleteRow, NoSuchRow, Restrict, Untouched, indexVars,
        channelVars
<1> QED
  BY <1>1, <1>2, <1>3, <1>4, <1>5, <1>6, ReadingTouchesNothing
  DEF Proceed, Respond, RenameReread, Locate, Fetch

\* Whatever ids and message ids a request still holds from earlier reads, it
\* changes only files of the profile it acts for.
THEOREM OwnersIsolated == Spec => OthersUntouched
<1>1. IInv /\ [Next]_vars =>
        [\A i \in DOMAIN files : ~Acting(files[i].owner) => Untouched(i)]_vars
  <2> SUFFICES ASSUME IInv, Next, NEW i \in DOMAIN files, ~Acting(files[i].owner)
               PROVE  Untouched(i)
    OBVIOUS
  <2>1. ASSUME NEW r \in Requests, Issue(r) PROVE Untouched(i)
    BY <2>1, ReadingTouchesNothing
    DEF Issue, UploadFind, RenameGet, DeleteGet, ServeRecord, DownloadGet
  <2>2. ASSUME NEW r \in Requests, Proceed(r) PROVE Untouched(i)
    BY <2>2, WritingTouchesOwn
  <2>3. ASSUME NEW r \in Requests, Fail(r) PROVE Untouched(i)
    BY <2>3, ReadingTouchesNothing DEF Fail
  <2>4. CASE Quiescent
    BY <2>4, ReadingTouchesNothing DEF Quiescent, vars, indexVars, channelVars
  <2> QED
    BY <2>1, <2>2, <2>3, <2>4 DEF Next
<1> QED
  BY <1>1, Invariance, PTL DEF Spec, OthersUntouched
=============================================================================
