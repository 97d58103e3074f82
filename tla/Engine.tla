-------------------------------- MODULE Engine --------------------------------
(***************************************************************************)
(* internal/core's Engine, as the HTTP handlers of internal/web and the    *)
(* CLI commands drive it.  Every request runs in its own goroutine or      *)
(* process; between two statements on the index or two Telegram calls any  *)
(* other request may run, so each of those is one step here and a request  *)
(* remembers only what the handler holds in local variables.               *)
(*                                                                         *)
(* A request whose checks fail before it has changed anything (ErrNotFound *)
(* from the first Get, an empty path, an invalid id) leaves no trace: it   *)
(* is a stuttering step.                                                   *)
(***************************************************************************)
EXTENDS Channel

CONSTANTS
    Requests,       \* slots for requests in flight at the same time
    MaxRequests,    \* bound: requests that clients issue in a behaviour
    MayFail         \* whether calls may fail and requests may be cut short

ASSUME EngineAssumption ==
    /\ MaxRequests \in Nat
    /\ MayFail \in BOOLEAN

VARIABLES
    req,        \* the state of each slot
    started,    \* requests begun so far
    deleting    \* history: ids whose deletion was accepted by a request

engineVars == <<req, started, deleting>>
vars == <<files, lastId, messages, lastMessage, req, started, deleting>>

Idle == [pc |-> "idle"]

\* One set per group of program points; "by" is the profile of the request,
\* the remaining fields are the handler's locals.
UploadReq   == [pc : {"send", "insert"}, by : Owners, rec : Record]
UploadedReq == [pc : {"uploaded"}, by : Owners, id : Nat, rec : Record]
RenameReq   == [pc : {"rename", "reread"}, by : Owners, id : Nat, filename : Names]
EditReq     == [pc : {"edit"}, by : Owners, rec : Record]
DeleteReq   == [pc : {"unsend", "unindex"}, by : Owners, id : Nat, message_id : Nat]
LocateReq   == [pc : {"locate"}, by : Owners, id : Nat, hdr : Record]
FetchReq    == [pc : {"fetch"}, by : Owners, hdr : Record, rec : Record]
StreamReq   == [pc : {"stream"}, by : Owners, hdr : Record, body : Hashes]

Request == {Idle} \cup UploadReq \cup UploadedReq \cup RenameReq \cup EditReq
             \cup DeleteReq \cup LocateReq \cup FetchReq \cup StreamReq

EngineTypeOK ==
    /\ req \in [Requests -> Request]
    /\ started \in 0..MaxRequests
    /\ deleting \subseteq 1..lastId

TypeOK == IndexTypeOK /\ ChannelTypeOK /\ EngineTypeOK

Init ==
    /\ IndexInit
    /\ ChannelInit
    /\ req = [r \in Requests |-> Idle]
    /\ started = 0
    /\ deleting = {}

Begin(r, state) ==
    /\ req[r] = Idle
    /\ started < MaxRequests
    /\ started' = started + 1
    /\ req' = [req EXCEPT ![r] = state]

Goto(r, state) ==
    /\ req' = [req EXCEPT ![r] = state]
    /\ UNCHANGED started

Finish(r) == Goto(r, Idle)

At(r, pc) == req[r].pc = pc

AllIdle == \A r \in Requests : At(r, "idle")

-----------------------------------------------------------------------------
(* Upload *)

\* Hash the staged file and look for an earlier upload of it by this owner;
\* when there is one it is returned as it is.
UploadFind(r, owner, path, hash) ==
    /\ \/ \E i \in FindByHash(hash, owner) :
            Begin(r, [pc |-> "uploaded", by |-> owner, id |-> i, rec |-> files[i]])
       \/ /\ FindByHash(hash, owner) = {}
          /\ Begin(r, [pc |-> "send", by |-> owner,
                       rec |-> [path |-> path, filename |-> Base(path),
                                owner |-> owner, hash |-> hash, message_id |-> 0]])
    /\ UNCHANGED <<indexVars, channelVars, deleting>>

\* Upload the parts and send the document with its recovery caption.
UploadSend(r) ==
    /\ At(r, "send")
    /\ SendFile(req[r].rec.hash, EncodeFileMeta(req[r].rec))
    /\ Goto(r, [pc |-> "insert", by |-> req[r].by,
                rec |-> [req[r].rec EXCEPT !.message_id = lastMessage + 1]])
    /\ UNCHANGED <<indexVars, deleting>>

\* Faulty variant: the message is taken to be the newest of the channel.
UploadInsertNewest(r) ==
    /\ At(r, "insert")
    /\ LET rec == [req[r].rec EXCEPT !.message_id = lastMessage] IN
       \/ /\ Insert(rec)
          /\ Goto(r, [pc |-> "uploaded", by |-> req[r].by, id |-> lastId + 1,
                      rec |-> rec])
       \/ /\ InsertRejected(rec)
          /\ Finish(r)
    /\ UNCHANGED <<channelVars, deleting>>

\* Record the upload; a row of the same owner and content that appeared in
\* the meantime makes the insertion, and the request, fail.
UploadInsert(r) ==
    /\ At(r, "insert")
    /\ \/ /\ Insert(req[r].rec)
          /\ Goto(r, [pc |-> "uploaded", by |-> req[r].by, id |-> lastId + 1,
                      rec |-> req[r].rec])
       \/ /\ InsertRejected(req[r].rec)
          /\ Finish(r)
    /\ UNCHANGED <<channelVars, deleting>>

\* Answer the client: 201 with the record, or the last byte of a stream.
Respond(r) ==
    /\ At(r, "uploaded") \/ At(r, "stream")
    /\ Finish(r)
    /\ UNCHANGED <<indexVars, channelVars, deleting>>

-----------------------------------------------------------------------------
(* Rename *)

RenameGet(r, owner, id, filename) ==
    /\ Visible(id, owner)
    /\ Begin(r, [pc |-> "rename", by |-> owner, id |-> id, filename |-> filename])
    /\ UNCHANGED <<indexVars, channelVars, deleting>>

RenameUpdate(r) ==
    /\ At(r, "rename")
    /\ \/ /\ RenameRow(req[r].id, req[r].filename)
          /\ Goto(r, [req[r] EXCEPT !.pc = "reread"])
       \/ /\ NoSuchRow(req[r].id)
          /\ Finish(r)
    /\ UNCHANGED <<channelVars, deleting>>

RenameReread(r) ==
    /\ At(r, "reread")
    /\ \/ /\ req[r].id \in DOMAIN files
          /\ Goto(r, [pc |-> "edit", by |-> req[r].by, rec |-> files[req[r].id]])
       \/ /\ req[r].id \notin DOMAIN files
          /\ Finish(r)
    /\ UNCHANGED <<indexVars, channelVars, deleting>>

\* Faulty variant: the index is renamed, the caption is forgotten.
RenameEditNothing(r) ==
    /\ At(r, "edit")
    /\ Finish(r)
    /\ UNCHANGED <<indexVars, channelVars, deleting>>

\* Best effort: an error is logged and the rename succeeds all the same.
RenameEdit(r) ==
    /\ At(r, "edit")
    /\ \/ EditCaption(req[r].rec.message_id, EncodeFileMeta(req[r].rec))
       \/ EditRejected(req[r].rec.message_id, EncodeFileMeta(req[r].rec))
    /\ Finish(r)
    /\ UNCHANGED <<indexVars, deleting>>

-----------------------------------------------------------------------------
(* Delete: the message first, then the row *)

DeleteGet(r, owner, id) ==
    /\ Visible(id, owner)
    /\ Begin(r, [pc |-> "unsend", by |-> owner, id |-> id,
                 message_id |-> files[id].message_id])
    /\ deleting' = deleting \cup {id}
    /\ UNCHANGED <<indexVars, channelVars>>

DeleteMessage(r) ==
    /\ At(r, "unsend")
    /\ DeleteMessages(req[r].message_id)
    /\ Goto(r, [req[r] EXCEPT !.pc = "unindex"])
    /\ UNCHANGED <<indexVars, deleting>>

DeleteIndexed(r) ==
    /\ At(r, "unindex")
    /\ DeleteRow(req[r].id) \/ NoSuchRow(req[r].id)
    /\ Finish(r)
    /\ UNCHANGED <<channelVars, deleting>>

-----------------------------------------------------------------------------
(* Download and Stream *)

\* serveFile: the record whose name and size become the response headers.
ServeRecord(r, owner, id) ==
    /\ Visible(id, owner)
    /\ Begin(r, [pc |-> "locate", by |-> owner, id |-> id, hdr |-> files[id]])
    /\ UNCHANGED <<indexVars, channelVars, deleting>>

\* locateDocument under Stream: the row is read a second time.
Locate(r) ==
    /\ At(r, "locate")
    /\ \/ /\ Visible(req[r].id, req[r].by)
          /\ Goto(r, [pc |-> "fetch", by |-> req[r].by, hdr |-> req[r].hdr,
                      rec |-> files[req[r].id]])
       \/ /\ ~Visible(req[r].id, req[r].by)
          /\ Finish(r)
    /\ UNCHANGED <<indexVars, channelVars, deleting>>

\* locateDocument under Download, which has no headers to send.
DownloadGet(r, id) ==
    /\ Visible(id, NoOwner)
    /\ Begin(r, [pc |-> "fetch", by |-> NoOwner, hdr |-> files[id], rec |-> files[id]])
    /\ UNCHANGED <<indexVars, channelVars, deleting>>

\* channels.getMessages, then the document's bytes; a deleted message comes
\* back empty and the request fails.
Fetch(r) ==
    /\ At(r, "fetch")
    /\ LET m == req[r].rec.message_id IN
       \/ /\ m \in DOMAIN messages
          /\ Goto(r, [pc |-> "stream", by |-> req[r].by, hdr |-> req[r].hdr,
                      body |-> messages[m].document])
       \/ /\ m \notin DOMAIN messages
          /\ Finish(r)
    /\ UNCHANGED <<indexVars, channelVars, deleting>>

-----------------------------------------------------------------------------

\* The request ends here: the next statement or call returns an error, the
\* client goes away and its context is cancelled, or the process dies.  A
\* call that took effect but whose answer was lost is this step after it.
Fail(r) ==
    /\ MayFail
    /\ ~At(r, "idle")
    /\ Finish(r)
    /\ UNCHANGED <<indexVars, channelVars, deleting>>

\* Every request is answered and the bound is used up.
Quiescent ==
    /\ started = MaxRequests
    /\ \A r \in Requests : At(r, "idle")
    /\ UNCHANGED vars

\* The requests that clients may issue: "nuage upload" and "nuage get" act
\* for no profile, the handlers of the web server for the one logged in.
Issue(r) ==
    \/ \E owner \in Owners, path \in Paths, hash \in Hashes :
            UploadFind(r, owner, path, hash)
    \/ \E id \in DOMAIN files :
        \/ DownloadGet(r, id)
        \/ \E owner \in Profiles :
            \/ \E filename \in Names : RenameGet(r, owner, id, filename)
            \/ DeleteGet(r, owner, id)
            \/ ServeRecord(r, owner, id)

\* The next step of a request in flight.
Proceed(r) ==
    \/ UploadSend(r) \/ UploadInsert(r) \/ Respond(r)
    \/ RenameUpdate(r) \/ RenameReread(r) \/ RenameEdit(r)
    \/ DeleteMessage(r) \/ DeleteIndexed(r)
    \/ Locate(r) \/ Fetch(r)

Next ==
    \/ \E r \in Requests :
        \/ Issue(r)
        \/ Proceed(r)
        \/ Fail(r)
    \/ Quiescent

Spec == Init /\ [][Next]_vars

-----------------------------------------------------------------------------
(* Properties *)

\* The message a row refers to is live, holds the row's content, and its
\* caption would give back the row's path, owner and hash.
Backed(i) ==
    LET m == files[i].message_id IN
    /\ m \in DOMAIN messages
    /\ messages[m].document = files[i].hash
    /\ messages[m].caption.path = files[i].path
    /\ messages[m].caption.owner = files[i].owner
    /\ messages[m].caption.hash = files[i].hash

\* A file nobody asked to delete can be downloaded and recovered: its row
\* never refers to a message that is gone or that belongs to another upload,
\* whatever requests interleave with it and wherever they are cut short
\* (Upload, Rename and Delete write the channel and the index in separate
\* steps).
NoFileLost == \A i \in DOMAIN files \ deleting : Backed(i)

\* serveFile reads the row twice and the channel once, without a lock: the
\* bytes it streams are those its headers announced, also when the file is
\* renamed, deleted or re-uploaded between the reads.
ServedContent ==
    \A r \in Requests : At(r, "stream") => req[r].body = req[r].hdr.hash

\* This step is taken by a request in flight on behalf of owner.
Acting(owner) ==
    \E r \in Requests : /\ req'[r] # req[r]
                        /\ ~At(r, "idle")
                        /\ req[r].by = owner

\* The step leaves the row and its message as they are.
Untouched(i) ==
    LET m == files[i].message_id IN
    /\ i \in DOMAIN files'
    /\ files'[i] = files[i]
    /\ m \in DOMAIN messages =>
          m \in DOMAIN messages' /\ messages'[m] = messages[m]

\* "Deleting one never affects the other's": while nobody acts for a row's
\* owner, neither the row nor the message it refers to changes.  Requests
\* act on ids and message ids they read earlier, so this is about every
\* stale value a handler may hold.
OthersUntouched ==
    [][\A i \in DOMAIN files : ~Acting(files[i].owner) => Untouched(i)]_vars
=============================================================================
