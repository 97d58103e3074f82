------------------------------- MODULE Browser -------------------------------
(***************************************************************************)
(* app.js in one tab, against the index.  A handler runs up to an await;   *)
(* the request it sent is served some time later, with the cookie it was   *)
(* sent with, and its answer arrives later still, in any order with        *)
(* respect to the answers of other requests, or never.  A request that the *)
(* tab has given up on, for a broken connection or because the page was    *)
(* loaded again, may be served nevertheless.  What the engine does for a   *)
(* request is one step on the index here, because the engine implements a  *)
(* store of files (EngineStore).  Other tabs may log in or out under the   *)
(* tab's cookie, other devices may change the same files.                  *)
(***************************************************************************)
EXTENDS FileIndex, VirtualPath

CONSTANTS
    NoOne,          \* the cookie of a browser that is not logged in
    Calls,          \* slots for requests in flight at the same time
    Uploads,        \* the files a user may drop, as pairs of content and name
    NewNames,       \* folder names a user may type
    MaxDepth,       \* bound: depth of the folders a user opens
    MaxClicks,      \* bound: what a user does in a behaviour
    MaxOthers,      \* bound: changes by other tabs and devices
    MayLose         \* whether requests may fail or be lost

ASSUME BrowserAssumption ==
    /\ NoOne \notin Owners
    /\ MaxDepth \in Nat /\ MaxClicks \in Nat /\ MaxOthers \in Nat
    /\ MayLose \in BOOLEAN

\* What a folder a user can open is made of.
Segments == NewNames \cup UNION {Range(folder) : folder \in Folders}

\* Folders and Names are large enough for what can be uploaded, with every
\* "." and ".." resolved.
ASSUME UploadsAssumption ==
    /\ Uploads \subseteq [hash : Hashes, name : Names]
    /\ Root \in Folders /\ Folders \subseteq Seq(Segments)
    /\ \A folder \in BoundedSeq(Segments, MaxDepth), file \in Uploads :
          LET path == CleanRooted(Joined(folder, file.name))
          IN  <<Front(path), Last(path)>> \in Paths

VARIABLES
    cookie,     \* whose session the browser's cookie is
    view,       \* the view on screen
    current,    \* currentFolder
    records,    \* allRecords: a function from ids, or NotAList
    shown,      \* the file and folder rows on screen
    calls,      \* the request each slot waits for
    answers,    \* what the server has answered to it
    heldRows,   \* the slots whose row element is still on screen
    heldRecs,   \* the slots whose record is still in allRecords
    adrift,     \* the slots whose request only the server still knows of
    clicks,     \* things the user has done so far
    others,     \* changes by others so far
    sync,       \* history: what the tab can know, see ListInSync
    unpainted   \* history: an answer changed a row that was not on screen any more

callVars == <<calls, answers, heldRows, heldRecs, adrift>>
tabVars == <<cookie, view, current, records, shown, callVars>>
historyVars == <<sync, unpainted>>
browserVars == <<indexVars, tabVars, clicks, others, historyVars>>

Cookies == Profiles \cup {NoOne}
NoCall == [op |-> "none"]
NoAnswer == [status |-> "none"]

\* What a record of the list is used for.
Entry(i) == [path |-> files[i].path, filename |-> files[i].filename]
ListFor(owner) == [i \in {j \in DOMAIN files : files[j].owner = owner} |-> Entry(i)]
NoRecords == [i \in {} |-> {}]

\* allRecords after the body of an error was taken for a list: no id is 0.
NotAList == [i \in {0} |-> {}]

-----------------------------------------------------------------------------
(* Rendering *)

PathsOf(recs) == {recs[i].path : i \in DOMAIN recs}

\* The rows of renderFiles.
Rendered(recs, folder) ==
    [files   |-> Restrict(recs, {i \in DOMAIN recs : Dirname(recs[i].path) = folder}),
     folders |-> SubFolders(PathsOf(recs), folder)]

\* A record or a row with another name.
Renaming(recs, i, name) ==
    [j \in DOMAIN recs |-> IF j = i THEN [path |-> recs[j].path, filename |-> name]
                           ELSE recs[j]]

Without(recs, i) == Restrict(recs, DOMAIN recs \ {i})

ListOn == records # NotAList

Idle == \A c \in Calls : calls[c] = NoCall

-----------------------------------------------------------------------------
(* Requests *)

ListCall       == [op |-> "list", by |-> cookie]
LoginCall(p)   == [op |-> "login", user |-> p]
LogoutCall     == [op |-> "logout"]
DeleteCall(i)  == [op |-> "delete", by |-> cookie, id |-> i, seen |-> shown.files[i].path]
RenameCall(i, name) ==
    [op |-> "rename", by |-> cookie, id |-> i, seen |-> shown.files[i].path, name |-> name]

\* uploadFile reads currentFolder when the file's turn comes.
UploadCall(batch) ==
    [op |-> "upload", by |-> cookie, file |-> Head(batch), folder |-> current,
     rest |-> Tail(batch)]

\* Requests whose order does not matter to the list: about different files.
Independent(a, b) ==
    /\ {a.op, b.op} \subseteq {"upload", "rename", "delete"}
    /\ "upload" \in {a.op, b.op} \/ a.id # b.id

\* A list asked for while nothing else is in flight will be what the server
\* has; a request that overlaps with one it depends on makes that uncertain.
SyncAfterSending(c, call) ==
    IF \E d \in Calls \ {c} : calls[d] # NoCall /\ ~Independent(call, calls[d])
    THEN "unknown"
    ELSE IF call.op = "list" THEN "asked" ELSE sync

\* The slots are interchangeable.
FreeSlot == CHOOSE c \in Calls : calls[c] = NoCall

\* The page asks for the list when it is loaded.
OnlyList(slots) ==
    LET slot == CHOOSE c \in slots : TRUE IN
    [c \in Calls |-> IF c = slot THEN ListCall ELSE NoCall]

NoAnswers == [c \in Calls |-> NoAnswer]


Click ==
    /\ clicks < MaxClicks
    /\ clicks' = clicks + 1

\* The handlers of renameFile and deleteFile hold the row of the click, the
\* former also its record, if allRecords has one.
Send(call) ==
    /\ Click
    /\ \E c \in Calls : calls[c] = NoCall
    /\ calls' = [calls EXCEPT ![FreeSlot] = call]
    /\ heldRows' = IF call.op \in {"rename", "delete"}
                   THEN heldRows \cup {FreeSlot} ELSE heldRows
    /\ heldRecs' = IF ListOn /\ call.op = "rename" /\ call.id \in DOMAIN records
                   THEN heldRecs \cup {FreeSlot} ELSE heldRecs
    /\ sync' = SyncAfterSending(FreeSlot, call)
    /\ UNCHANGED <<indexVars, cookie, view, current, records, shown, answers, adrift, others,
                   unpainted>>

BrowserInit ==
    /\ IndexInit
    /\ cookie \in Cookies
    /\ view = "blank"
    /\ current = Root
    /\ records = NoRecords
    /\ shown = Rendered(NoRecords, Root)
    /\ calls = OnlyList(Calls)
    /\ answers = NoAnswers
    /\ heldRows = {} /\ heldRecs = {} /\ adrift = {}
    /\ clicks = 0 /\ others = 0
    /\ sync = "asked"
    /\ unpainted = FALSE

-----------------------------------------------------------------------------
(* What the user does *)

OldName(i) ==
    IF ListOn /\ i \in DOMAIN records
    THEN records[i].filename ELSE shown.files[i].filename

RenameFile ==
    /\ view = "app"
    /\ \E i \in DOMAIN shown.files, name \in Names :
        name # OldName(i) /\ Send(RenameCall(i, name))

DeleteFile ==
    /\ view = "app"
    /\ \E i \in DOMAIN shown.files : Send(DeleteCall(i))

UploadFiles ==
    /\ view = "app"
    /\ \E f, g \in Uploads : Send(UploadCall(<<f>>)) \/ Send(UploadCall(<<f, g>>))

LoginSubmit == view = "login" /\ \E p \in Profiles : Send(LoginCall(p))

LogoutClick == view = "app" /\ Send(LogoutCall)

\* navigateTo and renderFiles, which throws after the assignment to
\* currentFolder when allRecords is not a list.
NavigateTo(folder) ==
    /\ view = "app"
    /\ Click
    /\ Len(folder) <= MaxDepth
    /\ folder # current
    /\ current' = folder
    /\ IF ListOn
       THEN /\ shown' = Rendered(records, folder)
            /\ heldRows' = {}
            /\ unpainted' = FALSE
       ELSE UNCHANGED <<shown, heldRows, unpainted>>
    /\ UNCHANGED <<indexVars, cookie, view, records, calls, answers, heldRecs, adrift, others,
                   sync>>

\* A folder row, a breadcrumb, or a new folder, which exists here only.
Navigate ==
    \/ \E name \in shown.folders \cup NewNames : NavigateTo(Append(current, name))
    \/ \E k \in 0..Len(current) : NavigateTo(SubSeq(current, 1, k))

\* The server may still execute the request: it has not, and will not refuse
\* it for want of a cookie.  The tab still waits for it.
Unserved(c) ==
    /\ c \notin adrift
    /\ calls[c].op \in {"upload", "rename", "delete"} /\ calls[c].by # NoOne
    /\ answers[c] = NoAnswer

\* The page is loaded again; what was in flight is not waited for, but the
\* server may have any of it.  Bound: one slot is left for the list.
Reload ==
    /\ Click
    /\ \E left \in SUBSET {c \in Calls : Unserved(c)} :
          /\ adrift' = adrift \cup left
          /\ adrift' # Calls
    /\ calls' = [c \in Calls |-> IF c \in adrift' THEN calls[c]
                                ELSE OnlyList(Calls \ adrift')[c]]
    /\ view' = "blank"
    /\ current' = Root
    /\ records' = NoRecords
    /\ shown' = Rendered(NoRecords, Root)
    /\ answers' = NoAnswers
    /\ heldRows' = {} /\ heldRecs' = {}
    /\ sync' = IF adrift' = {} THEN "asked" ELSE "unknown"
    /\ unpainted' = FALSE
    /\ UNCHANGED <<indexVars, cookie, others>>

-----------------------------------------------------------------------------
(* What the server does *)

Ok(body) == [status |-> "ok", body |-> body]
Unauthorized == [status |-> "unauthorized"]
Failed == [status |-> "failed"]
Rereading == [status |-> "rereading"]

Waiting(c, op) == c \notin adrift /\ calls[c].op = op /\ answers[c] = NoAnswer

Answer(c, answer) == answers' = [answers EXCEPT ![c] = answer]

\* handleList: the rows of the profile the request is from.
ServeList(c) ==
    /\ Waiting(c, "list") /\ calls[c].by # NoOne
    /\ Answer(c, Ok(ListFor(calls[c].by)))
    /\ UNCHANGED indexVars

\* handleUpload: the folder sent with the file and the file's name.
ApplyUpload(call) ==
    LET path == UploadPath(call.folder, call.file.name) IN
    \/ FindByHash(call.file.hash, call.by) # {} /\ UNCHANGED indexVars
    \/ Insert([path |-> path, filename |-> Base(path), owner |-> call.by,
               hash |-> call.file.hash, message_id |-> 0])

ApplyRename(call) == Visible(call.id, call.by) /\ RenameRow(call.id, call.name)

ApplyDelete(call) == Visible(call.id, call.by) /\ DeleteRow(call.id)

ServeUpload(c) ==
    /\ Waiting(c, "upload") /\ calls[c].by # NoOne
    /\ ApplyUpload(calls[c])
    /\ Answer(c, Ok({}))

ServeRename(c) ==
    /\ Waiting(c, "rename")
    /\ ApplyRename(calls[c])
    /\ Answer(c, Rereading)

\* The row that answers a renaming is read in a statement of its own.
ServeReread(c) ==
    /\ calls[c].op = "rename" /\ answers[c] = Rereading
    /\ Answer(c, IF calls[c].id \in DOMAIN files
                 THEN Ok(files[calls[c].id].filename) ELSE Failed)
    /\ UNCHANGED indexVars

\* That statement fails: the file has its new name, the answer is an error.
RereadFails(c) ==
    /\ MayLose
    /\ calls[c].op = "rename" /\ answers[c] = Rereading
    /\ Answer(c, Failed)
    /\ sync' = "unknown"
    /\ UNCHANGED indexVars

ServeDelete(c) ==
    /\ Waiting(c, "delete")
    /\ ApplyDelete(calls[c])
    /\ Answer(c, Ok({}))

\* handleLogin with the right password, handleLogout.
ServeSession(c) ==
    /\ Waiting(c, "login") \/ Waiting(c, "logout")
    /\ Answer(c, Ok({}))
    /\ UNCHANGED indexVars

\* requireAuth.
Reject(c) ==
    /\ calls[c].op \in {"list", "upload", "rename", "delete"}
    /\ Waiting(c, calls[c].op) /\ calls[c].by = NoOne
    /\ Answer(c, Unauthorized)
    /\ UNCHANGED indexVars

\* ErrNotFound, a wrong password or, where failures are modelled, any error.
Refuse(c) ==
    /\ calls[c].op # "none" /\ Waiting(c, calls[c].op)
    /\ \/ MayLose
       \/ calls[c].op \in {"rename", "delete"} /\ ~Visible(calls[c].id, calls[c].by)
    /\ Answer(c, Failed)
    /\ UNCHANGED indexVars

Serve(c) ==
    /\ \/ /\ \/ ServeList(c) \/ ServeUpload(c) \/ ServeRename(c) \/ ServeReread(c)
             \/ ServeDelete(c) \/ ServeSession(c) \/ Reject(c) \/ Refuse(c)
          /\ UNCHANGED sync
       \/ RereadFails(c)
    /\ UNCHANGED <<cookie, view, current, records, shown, calls, heldRows, heldRecs, adrift,
                   clicks, others, unpainted>>

\* A request that nobody waits for is executed after all, or never.
ServeAdrift(c) ==
    /\ c \in adrift
    /\ \/ calls[c].op = "upload" /\ ApplyUpload(calls[c])
       \/ calls[c].op = "rename" /\ ApplyRename(calls[c])
       \/ calls[c].op = "delete" /\ ApplyDelete(calls[c])
       \/ UNCHANGED indexVars
    /\ calls' = [calls EXCEPT ![c] = NoCall]
    /\ adrift' = adrift \ {c}
    /\ UNCHANGED <<cookie, view, current, records, shown, answers, heldRows, heldRecs,
                   clicks, others, historyVars>>

-----------------------------------------------------------------------------
(* What the handlers do with an answer *)

Answered(c, op) ==
    calls[c].op = op /\ answers[c].status \in {"ok", "unauthorized", "failed"}

Status(c) == answers[c].status

\* The slot waits for another request, or for none.
Resend(c, call) ==
    /\ calls' = [calls EXCEPT ![c] = call]
    /\ answers' = [answers EXCEPT ![c] = NoAnswer]

Drop(c) ==
    /\ Resend(c, NoCall)
    /\ heldRows' = heldRows \ {c}
    /\ heldRecs' = heldRecs \ {c}

ShowLogin(c) ==
    /\ Status(c) = "unauthorized"
    /\ view' = "login"
    /\ Drop(c)
    /\ UNCHANGED <<cookie, current, records, shown, historyVars>>

Alert(c) ==
    /\ Status(c) = "failed"
    /\ Drop(c)
    /\ UNCHANGED <<cookie, view, current, records, shown, historyVars>>

\* The body of an error is an object: renderFiles throws before it has
\* changed anything but the breadcrumb.
Listed(c) ==
    /\ Answered(c, "list")
    /\ \/ ShowLogin(c)
       \/ /\ Status(c) = "failed"
          /\ view' = "app"
          /\ records' = NotAList
          /\ Resend(c, NoCall)
          /\ heldRecs' = {}
          /\ sync' = "unknown"
          /\ UNCHANGED <<cookie, current, shown, heldRows, unpainted>>
       \/ /\ Status(c) = "ok"
          /\ view' = "app"
          /\ records' = answers[c].body
          /\ shown' = Rendered(answers[c].body, current)
          /\ Resend(c, NoCall)
          /\ heldRows' = {} /\ heldRecs' = {}
          /\ sync' = IF sync = "asked" THEN "known" ELSE sync
          /\ unpainted' = FALSE
          /\ UNCHANGED <<cookie, current>>

\* The record and the row of the click are updated, wherever they are by now.
Renamed(c) ==
    /\ Answered(c, "rename")
    /\ \/ ShowLogin(c)
       \/ Alert(c)
       \/ /\ Status(c) = "ok"
          /\ LET i == calls[c].id
                 name == answers[c].body
             IN  /\ records' = IF ListOn /\ c \in heldRecs
                               THEN Renaming(records, i, name) ELSE records
                 /\ shown' = IF c \in heldRows
                             THEN [files   |-> Renaming(shown.files, i, name),
                                   folders |-> shown.folders]
                             ELSE shown
                 /\ unpainted' = (unpainted \/ ((c \in heldRecs /\ i \in DOMAIN records)
                                               # (c \in heldRows /\ i \in DOMAIN shown.files)))
          /\ Drop(c)
          /\ UNCHANGED <<cookie, view, current, sync>>

\* Faulty variant: the row stays on screen.
DeletedFromList(c) ==
    /\ Answered(c, "delete")
    /\ \/ ShowLogin(c)
       \/ Alert(c)
       \/ /\ Status(c) = "ok"
          /\ Drop(c)
          /\ records' = IF ListOn THEN Without(records, calls[c].id) ELSE records
          /\ UNCHANGED <<cookie, view, current, shown, historyVars>>

\* The record is taken out of allRecords, which throws when that is not a
\* list, and then the row of the click off the screen.
Deleted(c) ==
    /\ Answered(c, "delete")
    /\ \/ ShowLogin(c)
       \/ Alert(c)
       \/ /\ Status(c) = "ok"
          /\ Drop(c)
          /\ LET i == calls[c].id IN
             IF ListOn
             THEN /\ records' = Without(records, i)
                  /\ shown' = IF c \in heldRows
                              THEN [files   |-> Without(shown.files, i),
                                    folders |-> shown.folders]
                              ELSE shown
                  /\ unpainted' = (unpainted \/ c \notin heldRows)
             ELSE UNCHANGED <<records, shown, unpainted>>
          /\ UNCHANGED <<cookie, view, current, sync>>

\* uploadFiles goes on with the next file, or loads the list after the last.
NextCall(c) == IF calls[c].rest = <<>> THEN ListCall ELSE UploadCall(calls[c].rest)

NextOfBatch(c) ==
    /\ Resend(c, NextCall(c))
    /\ sync' = SyncAfterSending(c, NextCall(c))

Uploaded(c) ==
    /\ Answered(c, "upload")
    /\ view' = IF Status(c) = "unauthorized" THEN "login" ELSE view
    /\ NextOfBatch(c)
    /\ UNCHANGED <<cookie, current, records, shown, heldRows, heldRecs, unpainted>>

LoggedIn(c) ==
    /\ Answered(c, "login")
    /\ \/ Alert(c)
       \/ /\ Status(c) = "ok"
          /\ cookie' = calls[c].user
          /\ Resend(c, [op |-> "list", by |-> calls[c].user])
          /\ sync' = SyncAfterSending(c, ListCall)
          /\ UNCHANGED <<view, current, records, shown, heldRows, heldRecs, unpainted>>

LoggedOut(c) ==
    /\ Answered(c, "logout")
    /\ cookie' = IF Status(c) = "ok" THEN NoOne ELSE cookie
    /\ view' = "login"
    /\ Drop(c)
    /\ UNCHANGED <<current, records, shown, historyVars>>

Deliver(c) ==
    /\ \/ Listed(c) \/ Renamed(c) \/ Deleted(c) \/ Uploaded(c)
       \/ LoggedIn(c) \/ LoggedOut(c)
    /\ UNCHANGED <<indexVars, adrift, clicks, others>>

\* Faulty variant: an upload that ends in xhr.onerror does not resolve.
LoseForGood(c) ==
    /\ MayLose
    /\ calls[c] # NoCall /\ c \notin adrift
    /\ Drop(c)
    /\ sync' = IF calls[c].op = "upload" THEN sync ELSE "unknown"
    /\ UNCHANGED <<indexVars, cookie, view, current, records, shown, adrift, clicks, others,
                   unpainted>>

\* The request never reached the server, or its answer never the tab.
NeverAnswered(c) ==
    /\ IF calls[c].op = "upload"
       THEN NextOfBatch(c) /\ UNCHANGED <<heldRows, heldRecs>>
       ELSE /\ Drop(c)
            /\ sync' = "unknown"
    /\ UNCHANGED adrift

\* The server has the request and may execute it at any time from now on.
\* Bound: one slot is left for what the handler of an upload sends next.
LeftAdrift(c) ==
    /\ Unserved(c)
    /\ adrift' = adrift \cup {c}
    /\ IF calls[c].op = "upload"
       THEN /\ \E d \in Calls : calls[d] = NoCall
            /\ calls' = [calls EXCEPT ![FreeSlot] = NextCall(c)]
       ELSE UNCHANGED calls
    /\ heldRows' = heldRows \ {c} /\ heldRecs' = heldRecs \ {c}
    /\ sync' = "unknown"
    /\ UNCHANGED answers

\* The connection breaks: fetch throws and the handler ends, but an upload
\* goes on with the batch.
Lose(c) ==
    /\ MayLose
    /\ calls[c] # NoCall /\ c \notin adrift
    /\ NeverAnswered(c) \/ LeftAdrift(c)
    /\ UNCHANGED <<indexVars, cookie, view, current, records, shown, clicks, others,
                   unpainted>>

-----------------------------------------------------------------------------
(* Other tabs and devices *)

OtherTab ==
    /\ cookie' \in Cookies \ {cookie}
    /\ UNCHANGED indexVars

OtherDevice ==
    /\ \/ \E owner \in Profiles, file \in Uploads :
            Insert([path |-> <<Root, file.name>>, filename |-> file.name,
                    owner |-> owner, hash |-> file.hash, message_id |-> 0])
       \/ \E i \in DOMAIN files :
            DeleteRow(i) \/ \E name \in Names : RenameRow(i, name)
    /\ UNCHANGED cookie

Others ==
    /\ others < MaxOthers
    /\ others' = others + 1
    /\ OtherTab \/ OtherDevice
    /\ sync' = "unknown"
    /\ UNCHANGED <<view, current, records, shown, callVars, clicks, unpainted>>

\* The tab is left alone.
Rest == Idle /\ UNCHANGED browserVars

User ==
    \/ RenameFile \/ DeleteFile \/ UploadFiles
    \/ LoginSubmit \/ LogoutClick \/ Navigate \/ Reload

BrowserNext ==
    \/ User
    \/ \E c \in Calls : Serve(c) \/ ServeAdrift(c) \/ Deliver(c) \/ Lose(c)
    \/ Others
    \/ Rest

BrowserSpec == BrowserInit /\ [][BrowserNext]_browserVars

-----------------------------------------------------------------------------
(* Properties *)

Openable == {folder \in Seq(Segments) : Len(folder) <= MaxDepth}

\* The ids that were ever assigned.
Ids == 1..lastId

IsListing(recs, ids) ==
    /\ DOMAIN recs \subseteq ids
    /\ recs \in [DOMAIN recs -> [path : Paths, filename : Names]]

IsScreen(screen, ids) ==
    /\ screen = [files |-> screen.files, folders |-> screen.folders]
    /\ IsListing(screen.files, ids)
    /\ screen.folders \subseteq Segments

IsCall(call, ids) ==
    \/ call = NoCall
    \/ call = LogoutCall
    \/ call \in [op : {"list"}, by : Cookies]
    \/ call \in [op : {"login"}, user : Profiles]
    \/ call \in [op : {"delete"}, by : Cookies, id : ids, seen : Paths]
    \/ call \in [op : {"rename"}, by : Cookies, id : ids, seen : Paths, name : Names]
    \/ call \in [op : {"upload"}, by : Cookies, file : Uploads, folder : Openable,
                 rest : Seq(Uploads)]

\* What may be in a slot whose request is op.
IsAnswer(answer, op, ids) ==
    \/ answer = NoAnswer
    \/ answer = Failed /\ op # "none"
    \/ answer = Unauthorized /\ op \in {"list", "upload", "rename", "delete"}
    \/ answer = Rereading /\ op = "rename"
    \/ /\ answer.status = "ok" /\ answer = Ok(answer.body)
       /\ \/ op = "list" /\ IsListing(answer.body, ids)
          \/ op = "rename" /\ answer.body \in Names
          \/ op \in {"upload", "delete", "login", "logout"} /\ answer.body = {}

BrowserTypeOK ==
    /\ IndexTypeOK
    /\ cookie \in Cookies
    /\ view \in {"blank", "login", "app"}
    /\ current \in Openable
    /\ ListOn => IsListing(records, Ids)
    /\ IsScreen(shown, Ids)
    /\ DOMAIN calls = Calls /\ DOMAIN answers = Calls
    /\ \A c \in Calls : IsCall(calls[c], Ids) /\ IsAnswer(answers[c], calls[c].op, Ids)
    /\ heldRows \subseteq Calls /\ heldRecs \subseteq Calls /\ adrift \subseteq Calls
    /\ clicks \in 0..MaxClicks /\ others \in 0..MaxOthers
    /\ sync \in {"unknown", "asked", "known"}
    /\ unpainted \in BOOLEAN

\* After a list that was alone in flight, and any number of uploads, renamings
\* and deletions of different files that overlapped, failed or were refused,
\* the tab holds exactly what the server would list for its cookie, although
\* only uploads make it ask again.  Not so after a renaming that took effect
\* and was answered with an error, nor after a request was given up on while
\* the server may still execute it, until a list is asked for after it.
ListInSync ==
    Idle /\ sync = "known" /\ view = "app" => records = ListFor(cookie)

\* What is on screen is what renderFiles would draw, although rename and
\* delete change record and row each on its own, both held since the click;
\* the exception is an answer to a row that was drawn again in the meantime.
PaintedAsListed ==
    ListOn /\ ~unpainted => shown = Rendered(records, current)

\* The step is the server's and changes the index for request c, which the
\* tab waits for or has given up on.
TakesEffect(c) ==
    /\ files' # files
    /\ answers'[c] # answers[c] \/ c \in adrift \ adrift'

\* A renaming or deletion changes the file whose row was clicked, and only if
\* it belongs to the profile of the cookie, however old the list on screen is
\* and whoever has logged in, deleted and uploaded since, even if the tab has
\* given up on the request or was loaded again.
HitsWhatWasShown ==
    [][\A c \in Calls : TakesEffect(c) /\ calls[c].op # "upload" =>
          LET i == calls[c].id IN
          /\ files[i].path = calls[c].seen
          /\ files[i].owner = calls[c].by
          /\ \A j \in DOMAIN files \ {i} : j \in DOMAIN files' /\ files'[j] = files[j]
      ]_browserVars

\* An upload is stored in the folder it was sent to, ".." and "." resolved as
\* in a directory tree whose root has no parent.
StoredAsMeant ==
    [][\A c \in Calls : TakesEffect(c) /\ calls[c].op = "upload" =>
          LET meant == Meant(Append(calls[c].folder, calls[c].file.name)) IN
          \A i \in DOMAIN files' \ DOMAIN files :
              files'[i].path = <<Front(meant), Last(meant)>>]_browserVars
=============================================================================
