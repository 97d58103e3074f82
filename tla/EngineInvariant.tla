--------------------------- MODULE EngineInvariant ---------------------------
(***************************************************************************)
(* The inductive invariant behind NoFileLost, ServedContent and            *)
(* OthersUntouched.  None of the three is inductive: they depend on what   *)
(* the requests in flight still hold.  The invariant says that the ids and *)
(* message ids held in local variables keep denoting the file they were    *)
(* read for, although the index and the channel move on.                   *)
(***************************************************************************)
EXTENDS Engine

\* Two rows never share a message, and every row's message was sent.
RowsOwnMessages ==
    /\ \A i \in DOMAIN files : files[i].message_id \in 1..lastMessage
    /\ \A i, j \in DOMAIN files :
          files[i].message_id = files[j].message_id => i = j

\* A row's message, while it lives, holds the row's content.
RowsMatchDocuments ==
    \A i \in DOMAIN files : files[i].message_id \in DOMAIN messages =>
        messages[files[i].message_id].document = files[i].hash

Pending(r) == At(r, "insert")

\* An id that a request of profile "by" was allowed to act on.
HeldRow(id, by) ==
    /\ id \in 1..lastId
    /\ id \in DOMAIN files => files[id].owner = by

\* A message taken from a row: it belongs to no upload still in flight.
HeldMessage(m) ==
    /\ m \in 1..lastMessage
    /\ \A q \in Requests : Pending(q) => req[q].rec.message_id # m

\* Between sending and recording, an upload is alone with its message.
InsertInv(r) == Pending(r) =>
    LET rec == req[r].rec IN
    /\ rec.message_id \in DOMAIN messages
    /\ messages[rec.message_id].document = rec.hash
    /\ messages[rec.message_id].caption = EncodeFileMeta(rec)
    /\ \A i \in DOMAIN files : files[i].message_id # rec.message_id
    /\ \A q \in Requests : Pending(q) /\ q # r => req[q].rec.message_id # rec.message_id

RenameInv(r) == At(r, "rename") \/ At(r, "reread") => HeldRow(req[r].id, req[r].by)

\* The caption about to be written differs from the row at most in the name.
EditInv(r) == At(r, "edit") =>
    LET rec == req[r].rec IN
    /\ HeldMessage(rec.message_id)
    /\ \A i \in DOMAIN files : files[i].message_id = rec.message_id =>
          /\ files[i].path = rec.path
          /\ files[i].owner = rec.owner
          /\ files[i].hash = rec.hash
          /\ files[i].owner = req[r].by

\* The message about to be deleted is that of the row about to be deleted.
DeleteInv(r) ==
    /\ At(r, "unsend") \/ At(r, "unindex") => HeldRow(req[r].id, req[r].by)
    /\ At(r, "unsend") =>
          /\ req[r].id \in deleting
          /\ HeldMessage(req[r].message_id)
          /\ \A i \in DOMAIN files :
                files[i].message_id = req[r].message_id => i = req[r].id

\* What a download has read so far is about one and the same content.
ReadInv(r) ==
    /\ At(r, "locate") =>
          /\ req[r].id \in 1..lastId
          /\ req[r].id \in DOMAIN files => files[req[r].id].hash = req[r].hdr.hash
    /\ At(r, "fetch") =>
          /\ req[r].rec.message_id \in 1..lastMessage
          /\ req[r].rec.message_id \in DOMAIN messages =>
                messages[req[r].rec.message_id].document = req[r].hdr.hash
    /\ At(r, "stream") => req[r].body = req[r].hdr.hash

RequestInv ==
    \A r \in Requests :
        InsertInv(r) /\ RenameInv(r) /\ EditInv(r) /\ DeleteInv(r) /\ ReadInv(r)

IInv ==
    /\ TypeOK
    /\ RowsOwnMessages
    /\ RowsMatchDocuments
    /\ NoFileLost
    /\ RequestInv
=============================================================================
