---------------------------- MODULE BrowserProofs ----------------------------
(***************************************************************************)
(* The safety properties of Browser but for StoredAsMeant, for every value *)
(* of its constants.  What the tab knows of a file may be arbitrarily old  *)
(* and from another session; BInv says that an id it knows still denotes   *)
(* the file it was read for, if it denotes any, and gives HitsWhatWasShown.*)
(* PaintInv relates the list and the screen, SyncInv the list and the      *)
(* server, TypedInv is what BrowserTypeOK needs.                           *)
(***************************************************************************)
EXTENDS Browser, TLAPS

\* An id and the path it was listed with, some time ago.
Known(i, path) ==
    /\ i \in 1..lastId
    /\ i \in DOMAIN files => files[i].path = path

KnownList(recs) == \A i \in DOMAIN recs : Known(i, recs[i].path)

IsRow(r) == r = [path |-> r.path, filename |-> r.filename, owner |-> r.owner,
                 hash |-> r.hash, message_id |-> r.message_id]

TableInv ==
    /\ lastId \in Nat
    /\ DOMAIN files \subseteq 1..lastId
    /\ \A i \in DOMAIN files : IsRow(files[i])

CallInv(c) ==
    /\ calls[c].op = "none" => answers[c] = NoAnswer
    /\ c \in adrift => calls[c].op # "none" /\ answers[c] = NoAnswer
    /\ calls[c].op \in {"rename", "delete"} =>
          calls[c].by \in Cookies /\ Known(calls[c].id, calls[c].seen)
    /\ calls[c].op = "login" => calls[c].user \in Profiles
    /\ calls[c].op = "list" /\ answers[c].status = "ok" => KnownList(answers[c].body)

CallsInv ==
    /\ DOMAIN calls = Calls /\ DOMAIN answers = Calls
    /\ adrift \subseteq Calls
    /\ \A c \in Calls : CallInv(c)

TabInv ==
    /\ cookie \in Cookies
    /\ ListOn => KnownList(records)
    /\ KnownList(shown.files)

BInv == TableInv /\ CallsInv /\ TabInv

\* What a statement on the index may do to the ids that are in use.
Evolves ==
    /\ lastId' \in Nat /\ lastId <= lastId'
    /\ \A i \in 1..lastId : i \in DOMAIN files' =>
          i \in DOMAIN files /\ files'[i].path = files[i].path

-----------------------------------------------------------------------------
(* The index *)

LEMMA InsertEvolves ==
    ASSUME TableInv, NEW r, IsRow(r), Insert(r)
    PROVE  TableInv' /\ Evolves
  BY DEF TableInv, Insert, Evolves, IsRow

LEMMA DeleteEvolves ==
    ASSUME TableInv, NEW i, DeleteRow(i)
    PROVE  TableInv' /\ Evolves
  BY DEF TableInv, DeleteRow, Evolves, IsRow, Restrict

LEMMA RenameEvolves ==
    ASSUME TableInv, NEW i, NEW name, RenameRow(i, name)
    PROVE  TableInv' /\ Evolves
  <1>1. files' = [j \in DOMAIN files |->
                    IF j = i THEN [files[i] EXCEPT !.filename = name] ELSE files[j]]
    BY DEF RenameRow
  <1>2. LET r == [files[i] EXCEPT !.filename = name] IN IsRow(r) /\ r.path = files[i].path
    BY DEF TableInv, IsRow, RenameRow
  <1> QED
    BY <1>1, <1>2 DEF TableInv, Evolves, RenameRow

LEMMA UnchangedEvolves ==
    ASSUME TableInv, UNCHANGED indexVars
    PROVE  TableInv' /\ Evolves
  BY DEF TableInv, Evolves, indexVars, IsRow

\* What is known stays known.
LEMMA KnownStays ==
    ASSUME TableInv, Evolves, NEW i, NEW path, Known(i, path)
    PROVE  i \in 1..lastId' /\ (i \in DOMAIN files' => files'[i].path = path)
  BY DEF TableInv, Evolves, Known

LEMMA KnownListStays ==
    ASSUME TableInv, Evolves, NEW recs, KnownList(recs)
    PROVE  \A i \in DOMAIN recs :
              i \in 1..lastId' /\ (i \in DOMAIN files' => files'[i].path = recs[i].path)
  BY KnownStays DEF KnownList

\* A list that was read just now is known.
LEMMA ListForKnown ==
    ASSUME TableInv, NEW owner
    PROVE  KnownList(ListFor(owner))
  BY DEF TableInv, KnownList, Known, ListFor, Entry
-----------------------------------------------------------------------------
(* Steps *)

LEMMA NoCallOp ==
    /\ NoCall.op = "none"
    /\ \A call : call.op # "none" => call # NoCall
  BY DEF NoCall

\* A slot that the step leaves alone, or whose request is given up on.
LEMMA CallStays ==
    ASSUME TableInv, Evolves, NEW c, CallInv(c),
           calls'[c] = calls[c], answers'[c] = answers[c],
           c \in adrift' => c \in adrift \/ Unserved(c)
    PROVE  CallInv(c)'
  <1>1. calls[c].op \in {"rename", "delete"} =>
            calls'[c].by \in Cookies /\ Known(calls[c].id, calls[c].seen)'
    BY KnownStays DEF CallInv, Known
  <1>2. calls[c].op = "list" /\ answers[c].status = "ok" => KnownList(answers[c].body)'
    BY KnownListStays DEF CallInv, KnownList, Known
  <1>3. c \in adrift' => calls[c].op # "none" /\ answers[c] = NoAnswer
    BY DEF CallInv, Unserved
  <1> QED
    BY <1>1, <1>2, <1>3 DEF CallInv

\* A slot that waits for an answer from now on, or for nothing.
LEMMA NewCall ==
    ASSUME TableInv, Evolves, NEW c, answers'[c] = NoAnswer, c \notin adrift',
           calls'[c].op \in {"rename", "delete"} =>
              calls'[c].by \in Cookies /\ Known(calls'[c].id, calls'[c].seen),
           calls'[c].op = "login" => calls'[c].user \in Profiles
    PROVE  CallInv(c)'
  <1>1. calls'[c].op \in {"rename", "delete"} => Known(calls[c].id, calls[c].seen)'
    BY KnownStays DEF Known
  <1> QED
    BY <1>1 DEF CallInv, NoAnswer

\* The tab's lists, if the step leaves them alone.
LEMMA TabStays ==
    ASSUME TableInv, TabInv, Evolves, cookie' \in Cookies,
           UNCHANGED <<records, shown>>
    PROVE  TabInv'
  <1>1. ListOn => KnownList(records)'
    BY KnownListStays DEF TabInv, KnownList, Known
  <1>2. KnownList(shown.files)'
    BY KnownListStays DEF TabInv, KnownList, Known
  <1> QED
    BY <1>1, <1>2 DEF TabInv, ListOn

\* The rows that are rendered were listed.
LEMMA RenderedKnown ==
    ASSUME NEW recs, NEW folder, KnownList(recs)
    PROVE  KnownList(Rendered(recs, folder).files)
  BY DEF KnownList, Rendered, Restrict

LEMMA RenamingKnown ==
    ASSUME NEW recs, NEW i, NEW name, KnownList(recs)
    PROVE  KnownList(Renaming(recs, i, name))
  BY DEF KnownList, Renaming

LEMMA WithoutKnown ==
    ASSUME NEW recs, NEW i, KnownList(recs)
    PROVE  KnownList(Without(recs, i))
  BY DEF KnownList, Without, Restrict

-----------------------------------------------------------------------------
(* The invariant is inductive *)

LEMMA InvInit == BrowserInit => BInv
  <1> SUFFICES ASSUME BrowserInit PROVE BInv
    OBVIOUS
  <1> USE DEF BrowserInit, NoRecords
  <1>1. TableInv
    BY DEF IndexInit, TableInv
  <1>2. CallsInv
    <2>1. \A c \in Calls : calls[c] \in {ListCall, NoCall} /\ answers[c] = NoAnswer
      BY DEF OnlyList, NoAnswers
    <2>2. \A c \in Calls : calls[c].op \in {"list", "none"} /\ answers[c].status = "none"
      BY <2>1 DEF ListCall, NoCall, NoAnswer
    <2> QED
      BY <2>1, <2>2 DEF CallsInv, CallInv, OnlyList, NoAnswers
  <1>3. KnownList(NoRecords)
    BY DEF KnownList
  <1>4. KnownList(shown.files)
    BY <1>3, RenderedKnown
  <1> QED
    BY <1>1, <1>2, <1>3, <1>4 DEF BInv, TabInv, ListOn

LEMMA SendInv ==
    ASSUME BInv, NEW call, Send(call),
           call.op \in {"rename", "delete"} =>
              call.by \in Cookies /\ Known(call.id, call.seen),
           call.op = "login" => call.user \in Profiles
    PROVE  BInv'
  <1> USE DEF BInv
  <1>1. TableInv' /\ Evolves
    BY UnchangedEvolves DEF Send
  <1>2. FreeSlot \in Calls /\ calls[FreeSlot] = NoCall
    BY DEF Send, FreeSlot
  <1>3. CallsInv'
    <2>1. DOMAIN calls' = Calls /\ DOMAIN answers' = Calls /\ adrift' = adrift
      BY DEF Send, CallsInv
    <2>2. ASSUME NEW c \in Calls PROVE CallInv(c)'
      <3>1. CASE c = FreeSlot
        <4>1. calls'[c] = call
          BY <1>2, <3>1 DEF Send, CallsInv
        <4>2. UNCHANGED <<files, lastId, answers>>
          BY DEF Send, indexVars
        <4>3. answers'[c] = NoAnswer /\ c \notin adrift'
          BY <1>2, <2>1, <3>1, <4>2 DEF CallsInv, CallInv, NoCall
        <4> QED
          BY <1>1, <4>1, <4>2, <4>3, NewCall DEF Known
      <3>2. CASE c # FreeSlot
        BY <1>1, <3>2, CallStays DEF Send, CallsInv
      <3> QED
        BY <3>1, <3>2
    <2> QED
      BY <2>1, <2>2 DEF CallsInv
  <1>4. TabInv'
    <2>1. UNCHANGED <<files, lastId, cookie, records, shown>>
      BY DEF Send, indexVars
    <2> QED
      BY <2>1 DEF TabInv, KnownList, Known, ListOn
  <1> QED
    BY <1>1, <1>3, <1>4

LEMMA NavigateInv ==
    ASSUME BInv, NEW folder, NavigateTo(folder)
    PROVE  BInv'
  <1> USE DEF BInv
  <1>1. UNCHANGED <<files, lastId, cookie, records, calls, answers, adrift>>
    BY DEF NavigateTo, indexVars
  <1>2. TableInv' /\ CallsInv'
    BY <1>1 DEF TableInv, IsRow, CallsInv, CallInv, KnownList, Known
  <1>3. TabInv'
    <2>1. CASE ListOn
      <3>1. shown' = Rendered(records, folder)
        BY <2>1 DEF NavigateTo
      <3>2. KnownList(shown'.files)
        BY <2>1, <3>1, RenderedKnown DEF TabInv
      <3> QED
        BY <1>1, <3>2 DEF TabInv, ListOn, KnownList, Known
    <2>2. CASE ~ListOn
      BY <1>1, <2>2 DEF NavigateTo, TabInv, ListOn, KnownList, Known
    <2> QED
      BY <2>1, <2>2
  <1> QED
    BY <1>2, <1>3

\* What is in flight after the page was loaded again.
LEMMA ReloadCalls ==
    ASSUME BInv, Reload
    PROVE  /\ DOMAIN calls' = Calls /\ DOMAIN answers' = Calls
           /\ adrift' \subseteq Calls
           /\ \A c \in Calls : answers'[c] = NoAnswer
           /\ \A c \in adrift' : /\ calls'[c] = calls[c] /\ answers[c] = NoAnswer
                                /\ calls[c].op # "none"
           /\ \A c \in Calls \ adrift' : calls'[c] \in {ListCall, NoCall}
  <1>1. PICK left \in SUBSET {c \in Calls : Unserved(c)} : adrift' = adrift \cup left
    BY DEF Reload
  <1>2. adrift' \subseteq Calls
    BY <1>1 DEF BInv, CallsInv
  <1>3. \A c \in adrift' : answers[c] = NoAnswer /\ calls[c].op # "none"
    BY <1>1 DEF BInv, CallsInv, CallInv, Unserved
  <1>4. \A c \in Calls : answers'[c] = NoAnswer
    BY DEF Reload, NoAnswers
  <1>5. DOMAIN calls' = Calls /\ DOMAIN answers' = Calls
    BY DEF Reload, NoAnswers
  <1>6. \A c \in Calls : calls'[c] = IF c \in adrift' THEN calls[c]
                                    ELSE OnlyList(Calls \ adrift')[c]
    BY DEF Reload
  <1>7. \A slots : \A c \in Calls : OnlyList(slots)[c] \in {ListCall, NoCall}
    BY DEF OnlyList
  <1> QED
    BY <1>2, <1>3, <1>4, <1>5, <1>6, <1>7

LEMMA ReloadInv ==
    ASSUME BInv, Reload
    PROVE  BInv'
  <1> USE DEF BInv
  <1>1. UNCHANGED <<files, lastId, cookie>>
    BY DEF Reload, indexVars
  <1>2. TableInv' /\ Evolves
    BY UnchangedEvolves DEF Reload
  <1>3. CallsInv'
    <2>1. ASSUME NEW c \in Calls PROVE CallInv(c)'
      <3>1. CASE c \in adrift'
        <4>1. calls'[c] = calls[c] /\ answers'[c] = answers[c]
          BY <3>1, ReloadCalls
        <4>2. c \in adrift \/ Unserved(c)
          BY <3>1 DEF Reload
        <4> QED
          BY <1>2, <4>1, <4>2, CallStays DEF CallsInv
      <3>2. CASE c \notin adrift'
        <4>1. calls'[c] \in {ListCall, NoCall} /\ answers'[c] = NoAnswer
          BY <3>2, ReloadCalls
        <4>2. calls'[c].op \in {"list", "none"}
          BY <4>1 DEF ListCall, NoCall
        <4> QED
          BY <1>2, <3>2, <4>1, <4>2, NewCall
      <3> QED
        BY <3>1, <3>2
    <2> QED
      BY <2>1, ReloadCalls DEF CallsInv
  <1>4. TabInv'
    <2>1. KnownList(NoRecords)
      BY DEF KnownList, NoRecords
    <2>2. KnownList(Rendered(NoRecords, Root).files)
      BY <2>1, RenderedKnown
    <2> QED
      BY <1>1, <2>1, <2>2 DEF Reload, TabInv, ListOn, KnownList, Known
  <1> QED
    BY <1>2, <1>3, <1>4

LEMMA UserInv ==
    ASSUME BInv, User
    PROVE  BInv'
  <1>1. CASE RenameFile
    <2>1. PICK i \in DOMAIN shown.files, name \in Names : Send(RenameCall(i, name))
      BY <1>1 DEF RenameFile
    <2>2. /\ RenameCall(i, name).op = "rename"
          /\ RenameCall(i, name).by = cookie
          /\ RenameCall(i, name).id = i
          /\ RenameCall(i, name).seen = shown.files[i].path
      BY DEF RenameCall
    <2> QED
      BY <2>1, <2>2, SendInv DEF BInv, TabInv, KnownList
  <1>2. CASE DeleteFile
    <2>1. PICK i \in DOMAIN shown.files : Send(DeleteCall(i))
      BY <1>2 DEF DeleteFile
    <2>2. /\ DeleteCall(i).op = "delete"
          /\ DeleteCall(i).by = cookie
          /\ DeleteCall(i).id = i
          /\ DeleteCall(i).seen = shown.files[i].path
      BY DEF DeleteCall
    <2> QED
      BY <2>1, <2>2, SendInv DEF BInv, TabInv, KnownList
  <1>3. CASE UploadFiles
    <2>1. PICK batch : Send(UploadCall(batch))
      BY <1>3 DEF UploadFiles
    <2>2. UploadCall(batch).op = "upload"
      BY DEF UploadCall
    <2> QED
      BY <2>1, <2>2, SendInv
  <1>4. CASE LoginSubmit
    <2>1. PICK p \in Profiles : Send(LoginCall(p))
      BY <1>4 DEF LoginSubmit
    <2>2. LoginCall(p).op = "login" /\ LoginCall(p).user = p
      BY DEF LoginCall
    <2> QED
      BY <2>1, <2>2, SendInv
  <1>5. CASE LogoutClick
    <2>1. LogoutCall.op = "logout"
      BY DEF LogoutCall
    <2> QED
      BY <1>5, <2>1, SendInv DEF LogoutClick
  <1>6. CASE Navigate
    BY <1>6, NavigateInv DEF Navigate
  <1>7. CASE Reload
    BY <1>7, ReloadInv
  <1> QED
    BY <1>1, <1>2, <1>3, <1>4, <1>5, <1>6, <1>7 DEF User

\* What the server does to the index for a request.
LEMMA ApplyEvolves ==
    ASSUME TableInv, NEW call,
           ApplyUpload(call) \/ ApplyRename(call) \/ ApplyDelete(call)
    PROVE  TableInv' /\ Evolves
  <1>1. CASE ApplyUpload(call)
    <2> DEFINE path == UploadPath(call.folder, call.file.name)
               row == [path |-> path, filename |-> Base(path), owner |-> call.by,
                       hash |-> call.file.hash, message_id |-> 0]
    <2>1. UNCHANGED indexVars \/ Insert(row)
      BY <1>1 DEF ApplyUpload
    <2>2. IsRow(row)
      BY DEF IsRow
    <2> HIDE DEF row
    <2> QED
      BY <2>1, <2>2, InsertEvolves, UnchangedEvolves
  <1>2. CASE ApplyRename(call)
    BY <1>2, RenameEvolves DEF ApplyRename
  <1>3. CASE ApplyDelete(call)
    BY <1>3, DeleteEvolves DEF ApplyDelete
  <1> QED
    BY <1>1, <1>2, <1>3

\* What it does to the index, and to the answer of the request.
LEMMA ServeIndex ==
    ASSUME BInv, NEW c \in Calls, Serve(c)
    PROVE  /\ TableInv' /\ Evolves
           /\ calls[c].op # "none" /\ c \notin adrift
           /\ \E answer :
                 /\ answers' = [answers EXCEPT ![c] = answer]
                 /\ calls[c].op = "list" /\ answer.status = "ok" =>
                       KnownList(answer.body)
  <1> USE DEF BInv, Answer, Waiting
  <1>0. answers[c] = Rereading => c \notin adrift
    <2>1. Rereading # NoAnswer
      <3>1. Rereading.status # NoAnswer.status
        BY DEF Rereading, NoAnswer
      <3> QED
        BY <3>1
    <2> QED
      BY <2>1 DEF CallsInv, CallInv
  <1>1. CASE ServeList(c)
    <2>1. TableInv' /\ Evolves
      BY <1>1, UnchangedEvolves DEF ServeList
    <2>2. KnownList(ListFor(calls[c].by))
      BY ListForKnown
    <2>3. Ok(ListFor(calls[c].by)).body = ListFor(calls[c].by)
      BY DEF Ok
    <2> QED
      BY <1>1, <2>1, <2>2, <2>3 DEF ServeList
  <1>2. CASE ServeUpload(c)
    <2>1. TableInv' /\ Evolves
      BY <1>2, ApplyEvolves DEF ServeUpload
    <2> QED
      BY <1>2, <2>1 DEF ServeUpload
  <1>3. CASE ServeRename(c)
    <2>1. TableInv' /\ Evolves
      BY <1>3, ApplyEvolves DEF ServeRename
    <2> QED
      BY <1>3, <2>1 DEF ServeRename
  <1>4. CASE ServeReread(c) \/ RereadFails(c)
    <2>1. TableInv' /\ Evolves
      BY <1>4, UnchangedEvolves DEF ServeReread, RereadFails
    <2> QED
      BY <1>0, <1>4, <2>1 DEF ServeReread, RereadFails
  <1>5. CASE ServeDelete(c)
    <2>1. TableInv' /\ Evolves
      BY <1>5, ApplyEvolves DEF ServeDelete
    <2> QED
      BY <1>5, <2>1 DEF ServeDelete
  <1>6. CASE ServeSession(c)
    <2>1. TableInv' /\ Evolves
      BY <1>6, UnchangedEvolves DEF ServeSession
    <2> QED
      BY <1>6, <2>1 DEF ServeSession
  <1>7. CASE Reject(c)
    <2>1. TableInv' /\ Evolves
      BY <1>7, UnchangedEvolves DEF Reject
    <2>2. Unauthorized.status # "ok"
      BY DEF Unauthorized
    <2> QED
      BY <1>7, <2>1, <2>2 DEF Reject
  <1>8. CASE Refuse(c)
    <2>1. TableInv' /\ Evolves
      BY <1>8, UnchangedEvolves DEF Refuse
    <2>2. Failed.status # "ok"
      BY DEF Failed
    <2> QED
      BY <1>8, <2>1, <2>2 DEF Refuse
  <1> QED
    BY <1>1, <1>2, <1>3, <1>4, <1>5, <1>6, <1>7, <1>8 DEF Serve

LEMMA ServeInv ==
    ASSUME BInv, NEW c \in Calls, Serve(c)
    PROVE  BInv'
  <1> USE DEF BInv
  <1>1. TableInv' /\ Evolves /\ calls[c].op # "none" /\ c \notin adrift
    BY ServeIndex
  <1>2. PICK answer :
            /\ answers' = [answers EXCEPT ![c] = answer]
            /\ calls[c].op = "list" /\ answer.status = "ok" => KnownList(answer.body)
    BY ServeIndex
  <1>3. UNCHANGED <<cookie, records, shown, calls, adrift>>
    BY DEF Serve
  <1>4. CallsInv'
    <2>1. DOMAIN calls' = Calls /\ DOMAIN answers' = Calls /\ adrift' \subseteq Calls
      BY <1>2, <1>3 DEF CallsInv
    <2>2. ASSUME NEW d \in Calls PROVE CallInv(d)'
      <3>1. CASE d # c
        BY <1>1, <1>2, <1>3, <3>1, CallStays DEF CallsInv
      <3>2. CASE d = c
        <4>1. calls[c].op \in {"rename", "delete"} =>
                 calls'[c].by \in Cookies /\ Known(calls[c].id, calls[c].seen)'
          BY <1>1, <1>3, KnownStays DEF CallsInv, CallInv, Known
        <4>2. answers'[c] = answer
          BY <1>2 DEF CallsInv
        <4>3. calls[c].op = "list" /\ answer.status = "ok" => KnownList(answers[c].body)'
          BY <1>1, <1>2, <4>2, KnownListStays DEF KnownList, Known
        <4> QED
          BY <1>1, <1>3, <3>2, <4>1, <4>2, <4>3 DEF CallsInv, CallInv
      <3> QED
        BY <3>1, <3>2
    <2> QED
      BY <2>1, <2>2 DEF CallsInv
  <1>5. TabInv'
    BY <1>1, <1>3, TabStays DEF TabInv
  <1> QED
    BY <1>1, <1>4, <1>5

\* A request that was given up on, executed after all or never.
LEMMA AdriftSlot ==
    ASSUME BInv, NEW c \in Calls, ServeAdrift(c)
    PROVE  /\ TableInv' /\ Evolves
           /\ calls'[c] = NoCall /\ answers[c] = NoAnswer
           /\ \A d \in Calls \ {c} : calls'[d] = calls[d]
           /\ answers' = answers
           /\ adrift' = adrift \ {c} /\ c \in adrift
  <1>1. TableInv' /\ Evolves
    BY ApplyEvolves, UnchangedEvolves DEF ServeAdrift, BInv
  <1> QED
    BY <1>1 DEF ServeAdrift, BInv, CallsInv, CallInv

LEMMA ServeAdriftInv ==
    ASSUME BInv, NEW c \in Calls, ServeAdrift(c)
    PROVE  BInv'
  <1> USE DEF BInv
  <1>1. TableInv' /\ Evolves
    BY AdriftSlot
  <1>2. CallsInv'
    <2>1. DOMAIN calls' = Calls /\ DOMAIN answers' = Calls /\ adrift' \subseteq Calls
      BY DEF ServeAdrift, CallsInv
    <2>2. ASSUME NEW d \in Calls PROVE CallInv(d)'
      <3>1. CASE d # c
        BY <1>1, <3>1, AdriftSlot, CallStays DEF CallsInv
      <3>2. CASE d = c
        <4>1. NoCall.op = "none"
          BY DEF NoCall
        <4> QED
          BY <1>1, <3>2, <4>1, AdriftSlot, NewCall
      <3> QED
        BY <3>1, <3>2
    <2> QED
      BY <2>1, <2>2 DEF CallsInv
  <1>3. TabInv'
    BY <1>1, TabStays DEF ServeAdrift, TabInv
  <1> QED
    BY <1>1, <1>2, <1>3

\* A slot is freed, or waits for a list or an upload.
LEMMA ResendInv ==
    ASSUME BInv, UNCHANGED indexVars, NEW c \in Calls, NEW call, Resend(c, call),
           call.op \in {"none", "list", "upload"}, c \notin adrift, adrift' = adrift
    PROVE  TableInv' /\ Evolves /\ CallsInv'
  <1> USE DEF BInv
  <1>1. TableInv' /\ Evolves
    BY UnchangedEvolves
  <1>2. DOMAIN calls' = Calls /\ DOMAIN answers' = Calls
    BY DEF Resend, CallsInv
  <1>3. ASSUME NEW d \in Calls PROVE CallInv(d)'
    <2>1. CASE d = c
      <3>1. calls'[c] = call /\ answers'[c] = NoAnswer
        BY DEF Resend, CallsInv
      <3> QED
        BY <1>1, <2>1, <3>1, NewCall
    <2>2. CASE d # c
      BY <1>1, <2>2, CallStays DEF Resend, CallsInv
    <2> QED
      BY <2>1, <2>2
  <1> QED
    BY <1>1, <1>2, <1>3 DEF CallsInv

\* The handlers that end without touching the tab's lists.
LEMMA DropInv ==
    ASSUME BInv, UNCHANGED indexVars, NEW c \in Calls, Drop(c),
           c \notin adrift, adrift' = adrift,
           cookie' \in Cookies, UNCHANGED <<records, shown>>
    PROVE  BInv'
  <1>1. NoCall.op = "none"
    BY DEF NoCall
  <1>2. TableInv' /\ Evolves /\ CallsInv'
    BY <1>1, ResendInv DEF Drop
  <1> QED
    BY <1>2, TabStays DEF BInv

LEMMA NextCallOp == \A c : NextCall(c).op \in {"list", "upload"}
  BY DEF NextCall, ListCall, UploadCall

\* A request of the same batch, or the list after the last.
LEMMA NextOfBatchInv ==
    ASSUME BInv, UNCHANGED indexVars, NEW c \in Calls, NextOfBatch(c),
           c \notin adrift, adrift' = adrift, UNCHANGED <<cookie, records, shown>>
    PROVE  BInv'
  <1>1. PICK call : Resend(c, call) /\ call.op \in {"list", "upload"}
    BY NextCallOp DEF NextOfBatch
  <1>2. TableInv' /\ Evolves /\ CallsInv'
    BY <1>1, ResendInv
  <1> QED
    BY <1>2, TabStays DEF BInv, TabInv

LEMMA ListedInv ==
    ASSUME BInv, UNCHANGED <<indexVars, adrift>>, NEW c \in Calls, c \notin adrift,
           Listed(c)
    PROVE  BInv'
  <1> USE DEF BInv
  <1>1. CASE ShowLogin(c)
    BY <1>1, DropInv DEF ShowLogin, TabInv
  <1>2. CASE ~ShowLogin(c)
    <2>1. Resend(c, NoCall) /\ NoCall.op = "none"
      BY <1>2 DEF Listed, NoCall
    <2>2. TableInv' /\ Evolves /\ CallsInv'
      BY <2>1, ResendInv
    <2>3. UNCHANGED <<files, lastId>>
      BY DEF indexVars
    <2>4. CASE Status(c) = "failed"
      <3>1. records' = NotAList /\ UNCHANGED <<cookie, shown>>
        BY <1>2, <2>4 DEF Listed
      <3> QED
        BY <2>2, <2>3, <3>1 DEF TabInv, ListOn, KnownList, Known
    <2>5. CASE Status(c) = "ok"
      <3>1. /\ records' = answers[c].body
            /\ shown' = Rendered(answers[c].body, current)
            /\ UNCHANGED cookie
        BY <1>2, <2>5 DEF Listed
      <3>2. KnownList(answers[c].body)
        BY <2>5 DEF Listed, Answered, Status, CallsInv, CallInv
      <3>3. KnownList(shown'.files)
        BY <3>1, <3>2, RenderedKnown
      <3> QED
        BY <2>2, <2>3, <3>1, <3>2, <3>3 DEF TabInv, KnownList, Known
    <2> QED
      BY <1>2, <2>4, <2>5 DEF Listed
  <1> QED
    BY <1>1, <1>2

\* Renaming and deleting change lists that are known.
LEMMA RenamedInv ==
    ASSUME BInv, UNCHANGED <<indexVars, adrift>>, NEW c \in Calls, c \notin adrift,
           Renamed(c)
    PROVE  BInv'
  <1> USE DEF BInv
  <1>1. CASE ShowLogin(c) \/ Alert(c)
    BY <1>1, DropInv DEF ShowLogin, Alert, TabInv
  <1>2. CASE ~(ShowLogin(c) \/ Alert(c))
    <2> DEFINE i == calls[c].id
               name == answers[c].body
    <2>1. Drop(c) /\ UNCHANGED cookie
      BY <1>2 DEF Renamed
    <2>2. TableInv' /\ Evolves /\ CallsInv'
      BY <2>1, ResendInv DEF Drop, NoCall
    <2>3. UNCHANGED <<files, lastId>>
      BY DEF indexVars
    <2>4. records' = IF ListOn /\ c \in heldRecs
                     THEN Renaming(records, i, name) ELSE records
      BY <1>2 DEF Renamed
    <2>5. \/ shown' = [files |-> Renaming(shown.files, i, name), folders |-> shown.folders]
          \/ shown' = shown
      BY <1>2 DEF Renamed
    <2>6. ListOn' => KnownList(records')
      BY <2>4, RenamingKnown DEF TabInv, ListOn
    <2>7. KnownList(shown'.files)
      BY <2>5, RenamingKnown DEF TabInv
    <2> QED
      BY <2>1, <2>2, <2>3, <2>6, <2>7 DEF TabInv, KnownList, Known
  <1> QED
    BY <1>1, <1>2

LEMMA DeletedInv ==
    ASSUME BInv, UNCHANGED <<indexVars, adrift>>, NEW c \in Calls, c \notin adrift,
           Deleted(c)
    PROVE  BInv'
  <1> USE DEF BInv
  <1>1. CASE ShowLogin(c) \/ Alert(c)
    BY <1>1, DropInv DEF ShowLogin, Alert, TabInv
  <1>2. CASE ~(ShowLogin(c) \/ Alert(c))
    <2> DEFINE i == calls[c].id
    <2>1. Drop(c) /\ UNCHANGED cookie
      BY <1>2 DEF Deleted
    <2>2. TableInv' /\ Evolves /\ CallsInv'
      BY <2>1, ResendInv DEF Drop, NoCall
    <2>3. UNCHANGED <<files, lastId>>
      BY DEF indexVars
    <2>4. records' = IF ListOn THEN Without(records, i) ELSE records
      BY <1>2 DEF Deleted
    <2>5. \/ shown' = [files |-> Without(shown.files, i), folders |-> shown.folders]
          \/ shown' = shown
      BY <1>2 DEF Deleted
    <2>6. ListOn' => KnownList(records')
      BY <2>4, WithoutKnown DEF TabInv, ListOn
    <2>7. KnownList(shown'.files)
      BY <2>5, WithoutKnown DEF TabInv
    <2> QED
      BY <2>1, <2>2, <2>3, <2>6, <2>7 DEF TabInv, KnownList, Known
  <1> QED
    BY <1>1, <1>2

LEMMA LoggedInInv ==
    ASSUME BInv, UNCHANGED <<indexVars, adrift>>, NEW c \in Calls, c \notin adrift,
           LoggedIn(c)
    PROVE  BInv'
  <1> USE DEF BInv
  <1>1. CASE Alert(c)
    BY <1>1, DropInv DEF Alert, TabInv
  <1>2. CASE ~Alert(c)
    <2>1. Resend(c, [op |-> "list", by |-> calls[c].user]) /\ UNCHANGED <<records, shown>>
      BY <1>2 DEF LoggedIn
    <2>2. TableInv' /\ Evolves /\ CallsInv'
      BY <2>1, ResendInv
    <2>3. cookie' \in Cookies
      BY <1>2 DEF LoggedIn, Answered, CallsInv, CallInv, Cookies
    <2> QED
      BY <2>1, <2>2, <2>3, TabStays
  <1> QED
    BY <1>1, <1>2

\* Nobody delivers an answer that nobody waits for.
LEMMA AnsweredSlot ==
    ASSUME BInv, NEW c \in Calls, Deliver(c)
    PROVE  c \notin adrift
  <1>1. answers[c].status # "none"
    BY DEF Deliver, Listed, Renamed, Deleted, Uploaded, LoggedIn, LoggedOut, Answered
  <1> QED
    BY <1>1 DEF BInv, CallsInv, CallInv, NoAnswer

LEMMA DeliverInv ==
    ASSUME BInv, NEW c \in Calls, Deliver(c)
    PROVE  BInv'
  <1>1. UNCHANGED <<indexVars, adrift>> /\ cookie \in Cookies /\ c \notin adrift
    BY AnsweredSlot DEF Deliver, BInv, TabInv
  <1>2. CASE Uploaded(c)
    BY <1>1, <1>2, NextOfBatchInv DEF Uploaded
  <1>3. CASE LoggedOut(c)
    BY <1>1, <1>3, DropInv DEF LoggedOut, Cookies
  <1> QED
    BY <1>1, <1>2, <1>3, ListedInv, RenamedInv, DeletedInv, LoggedInInv DEF Deliver

\* What a request leaves behind that is given up on: itself, and in another
\* slot the request that the handler of an upload goes on with.
LEMMA AdriftCalls ==
    ASSUME BInv, NEW c \in Calls, LeftAdrift(c)
    PROVE  /\ DOMAIN calls' = Calls /\ answers' = answers
           /\ adrift' = adrift \cup {c} /\ Unserved(c)
           /\ \/ calls' = calls
              \/ \E d \in Calls \ {c} :
                    /\ calls[d] = NoCall /\ calls'[d] = NextCall(c)
                    /\ \A e \in Calls \ {d} : calls'[e] = calls[e]
                    /\ calls[c].op = "upload"
  <1>1. DOMAIN calls' = Calls /\ answers' = answers
        /\ adrift' = adrift \cup {c} /\ Unserved(c)
    BY DEF LeftAdrift, BInv, CallsInv
  <1>2. CASE calls[c].op # "upload"
    BY <1>1, <1>2 DEF LeftAdrift
  <1>3. CASE calls[c].op = "upload"
    <2>1. FreeSlot \in Calls /\ calls[FreeSlot] = NoCall
      BY <1>3 DEF LeftAdrift, FreeSlot
    <2>2. FreeSlot # c
      BY <1>3, <2>1 DEF NoCall
    <2>3. calls' = [calls EXCEPT ![FreeSlot] = NextCall(c)]
      BY <1>3 DEF LeftAdrift
    <2> QED
      BY <1>1, <1>3, <2>1, <2>2, <2>3 DEF BInv, CallsInv
  <1> QED
    BY <1>2, <1>3

LEMMA LeftAdriftInv ==
    ASSUME BInv, NEW c \in Calls, LeftAdrift(c), UNCHANGED indexVars,
           UNCHANGED <<cookie, records, shown>>
    PROVE  BInv'
  <1> USE DEF BInv
  <1>1. TableInv' /\ Evolves
    BY UnchangedEvolves
  <1>2. ASSUME NEW d \in Calls PROVE CallInv(d)'
    <2>1. CASE calls'[d] = calls[d]
      BY <1>1, <2>1, AdriftCalls, CallStays DEF CallsInv
    <2>2. CASE calls'[d] # calls[d]
      <3>1. calls[d] = NoCall /\ calls'[d] = NextCall(c) /\ d # c
        BY <2>2, AdriftCalls
      <3>2. answers'[d] = NoAnswer /\ d \notin adrift'
        BY <3>1, AdriftCalls DEF CallsInv, CallInv, NoCall
      <3> QED
        BY <1>1, <3>1, <3>2, NextCallOp, NewCall
    <2> QED
      BY <2>1, <2>2
  <1>3. CallsInv'
    BY <1>2, AdriftCalls DEF CallsInv
  <1> QED
    BY <1>1, <1>3, TabStays DEF TabInv

LEMMA LoseInv ==
    ASSUME BInv, NEW c \in Calls, Lose(c)
    PROVE  BInv'
  <1>1. UNCHANGED <<indexVars, cookie, records, shown>> /\ cookie' \in Cookies
        /\ c \notin adrift
    BY DEF Lose, BInv, TabInv
  <1>2. CASE NeverAnswered(c)
    BY <1>1, <1>2, NextOfBatchInv, DropInv DEF NeverAnswered
  <1>3. CASE LeftAdrift(c)
    BY <1>1, <1>3, LeftAdriftInv
  <1> QED
    BY <1>2, <1>3 DEF Lose

LEMMA OthersEvolve ==
    ASSUME TableInv, Others
    PROVE  TableInv' /\ Evolves
  <1>1. CASE OtherTab
    BY <1>1, UnchangedEvolves DEF OtherTab
  <1>2. CASE OtherDevice
    <2>1. ASSUME NEW owner \in Profiles, NEW file \in Uploads,
                 Insert([path |-> <<Root, file.name>>, filename |-> file.name,
                         owner |-> owner, hash |-> file.hash, message_id |-> 0])
          PROVE  TableInv' /\ Evolves
      <3> DEFINE row == [path |-> <<Root, file.name>>, filename |-> file.name,
                         owner |-> owner, hash |-> file.hash, message_id |-> 0]
      <3>1. IsRow(row)
        BY DEF IsRow
      <3> QED
        BY <2>1, <3>1, InsertEvolves
    <2> QED
      BY <1>2, <2>1, DeleteEvolves, RenameEvolves DEF OtherDevice
  <1> QED
    BY <1>1, <1>2 DEF Others

LEMMA OthersInv ==
    ASSUME BInv, Others
    PROVE  BInv'
  <1> USE DEF BInv
  <1>1. TableInv' /\ Evolves
    BY OthersEvolve
  <1>2. UNCHANGED <<records, shown, calls, answers, adrift>> /\ cookie' \in Cookies
    BY DEF Others, OtherTab, OtherDevice, callVars, TabInv
  <1>3. CallsInv'
    BY <1>1, <1>2, CallStays DEF CallsInv
  <1>4. TabInv'
    BY <1>1, <1>2, TabStays
  <1> QED
    BY <1>1, <1>3, <1>4

LEMMA InvStep == BInv /\ [BrowserNext]_browserVars => BInv'
  <1> SUFFICES ASSUME BInv, [BrowserNext]_browserVars PROVE BInv'
    OBVIOUS
  <1>1. CASE UNCHANGED browserVars
    <2>1. UNCHANGED <<files, lastId, cookie, records, shown, calls, answers, adrift>>
      BY <1>1 DEF browserVars, indexVars, tabVars, callVars
    <2> QED
      BY <2>1 DEF BInv, TableInv, IsRow, CallsInv, CallInv, TabInv, ListOn,
                  KnownList, Known
  <1>2. CASE User
    BY <1>2, UserInv
  <1>3. CASE \E c \in Calls : Serve(c) \/ ServeAdrift(c) \/ Deliver(c) \/ Lose(c)
    BY <1>3, ServeInv, ServeAdriftInv, DeliverInv, LoseInv
  <1>4. CASE Others
    BY <1>4, OthersInv
  <1>5. CASE Rest
    BY <1>1, <1>5 DEF Rest
  <1> QED
    BY <1>1, <1>2, <1>3, <1>4, <1>5 DEF BrowserNext

-----------------------------------------------------------------------------
(* HitsWhatWasShown *)

LEMMA RowHit ==
    ASSUME BInv, NEW c \in Calls, calls[c].op \in {"rename", "delete"},
           Visible(calls[c].id, calls[c].by)
    PROVE  /\ files[calls[c].id].path = calls[c].seen
           /\ files[calls[c].id].owner = calls[c].by
  <1>1. calls[c].by \in Cookies /\ Known(calls[c].id, calls[c].seen)
    BY DEF BInv, CallsInv, CallInv
  <1>2. NoOwner \notin Cookies
    BY NoOwnerAssumption, BrowserAssumption DEF Cookies, Owners
  <1> QED
    BY <1>1, <1>2 DEF Visible, Known

LEMMA OnlyThatRow ==
    ASSUME NEW i, NEW name, DeleteRow(i) \/ RenameRow(i, name)
    PROVE  \A j \in DOMAIN files \ {i} : j \in DOMAIN files' /\ files'[j] = files[j]
  BY DEF DeleteRow, RenameRow, Restrict

\* HitsWhatWasShown: only the server changes the index for a request, the one
\* it answers or one that was given up on, and what it changes is the row it
\* looked up for that request.
THEOREM ClicksHitTheirFile == BrowserSpec => HitsWhatWasShown
  <1> DEFINE Hit(c) ==
                LET i == calls[c].id IN
                /\ files[i].path = calls[c].seen
                /\ files[i].owner = calls[c].by
                /\ \A j \in DOMAIN files \ {i} : j \in DOMAIN files' /\ files'[j] = files[j]
  <1>1. ASSUME BInv, [BrowserNext]_browserVars, NEW c \in Calls,
               TakesEffect(c), calls[c].op # "upload"
        PROVE  Hit(c)
    <2>1. files' # files /\ (answers'[c] # answers[c] \/ c \in adrift \ adrift')
      BY <1>1 DEF TakesEffect
    <2>2. PICK d \in Calls : Serve(d) \/ ServeAdrift(d)
      <3>1. ~UNCHANGED browserVars /\ ~UNCHANGED files /\ ~UNCHANGED <<answers, adrift>>
        BY <2>1 DEF browserVars, indexVars
      <3>2. ~User
        BY <3>1 DEF User, RenameFile, DeleteFile, UploadFiles, LoginSubmit, LogoutClick,
                    Navigate, NavigateTo, Reload, Send, indexVars
      <3>3. ~Others
        BY <3>1 DEF Others, callVars
      <3>4. \A d \in Calls : ~Deliver(d) /\ ~Lose(d)
        BY <3>1 DEF Deliver, Lose, indexVars
      <3> QED
        BY <1>1, <3>1, <3>2, <3>3, <3>4 DEF BrowserNext, Rest
    <2>3. d = c
      <3>1. CASE Serve(d)
        <4>1. PICK answer : answers' = [answers EXCEPT ![d] = answer]
          BY <1>1, <3>1, ServeIndex
        <4>2. adrift' = adrift
          BY <3>1 DEF Serve
        <4> QED
          BY <1>1, <2>1, <4>1, <4>2 DEF BInv, CallsInv
      <3>2. CASE ServeAdrift(d)
        BY <1>1, <2>1, <3>2, AdriftSlot
      <3> QED
        BY <2>2, <3>1, <3>2
    <2>4. CASE calls[c].op = "rename" /\ ApplyRename(calls[c])
      BY <1>1, <2>4, RowHit, OnlyThatRow DEF ApplyRename
    <2>5. CASE calls[c].op = "delete" /\ ApplyDelete(calls[c])
      BY <1>1, <2>5, RowHit, OnlyThatRow DEF ApplyDelete
    <2>6. CASE Serve(c)
      BY <1>1, <2>1, <2>4, <2>5, <2>6
         DEF Serve, ServeList, ServeUpload, ServeRename, ServeReread, RereadFails,
             ServeDelete, ServeSession, Reject, Refuse, Waiting, indexVars
    <2>7. CASE ServeAdrift(c)
      BY <1>1, <2>1, <2>4, <2>5, <2>7 DEF ServeAdrift, indexVars
    <2> QED
      BY <2>2, <2>3, <2>6, <2>7
  <1>2. BInv /\ [BrowserNext]_browserVars =>
           [\A c \in Calls : TakesEffect(c) /\ calls[c].op # "upload" => Hit(c)]_browserVars
    BY <1>1
  <1> QED
    BY <1>2, InvInit, InvStep, PTL DEF BrowserSpec, HitsWhatWasShown

-----------------------------------------------------------------------------
(* What is on screen *)

IsList(r) == r = [i \in DOMAIN r |-> r[i]]

AnswersAreLists ==
    \A c \in Calls :
        calls[c].op = "list" /\ answers[c].status = "ok" => IsList(answers[c].body)

ListsAreLists ==
    /\ ListOn => IsList(records)
    /\ shown = [files |-> shown.files, folders |-> shown.folders]
    /\ IsList(shown.files)
    /\ AnswersAreLists

\* A row that is held since the click is on screen while its file is listed,
\* so that taking both away leaves the folders on screen as they are.
RowHeld(c) ==
    ListOn /\ calls[c].op \in {"rename", "delete"} /\ calls[c].id \in DOMAIN records
        => calls[c].id \in DOMAIN shown.files

RowsHeld == \A c \in Calls \cap heldRows : RowHeld(c)

PaintInv == ListsAreLists /\ RowsHeld /\ PaintedAsListed

LEMMA RenderedRenaming ==
    ASSUME NEW recs, NEW i, NEW name, NEW folder
    PROVE  Rendered(Renaming(recs, i, name), folder) =
              [files   |-> Renaming(Rendered(recs, folder).files, i, name),
               folders |-> Rendered(recs, folder).folders]
  <1> DEFINE new == Renaming(recs, i, name)
             here == {j \in DOMAIN recs : Dirname(recs[j].path) = folder}
  <1>1. DOMAIN new = DOMAIN recs /\ \A j \in DOMAIN recs : new[j].path = recs[j].path
    BY DEF Renaming
  <1>2. PathsOf(new) = PathsOf(recs)
    BY <1>1 DEF PathsOf
  <1>3. {j \in DOMAIN new : Dirname(new[j].path) = folder} = here
    BY <1>1
  <1>4. Restrict(new, here) = Renaming(Restrict(recs, here), i, name)
    BY DEF Restrict, Renaming
  <1>5. Rendered(new, folder) = [files   |-> Restrict(new, here),
                                 folders |-> SubFolders(PathsOf(new), folder)]
    BY <1>3 DEF Rendered
  <1>6. /\ Rendered(recs, folder).files = Restrict(recs, here)
        /\ Rendered(recs, folder).folders = SubFolders(PathsOf(recs), folder)
    BY DEF Rendered
  <1> HIDE DEF new, here
  <1> QED
    BY <1>2, <1>4, <1>5, <1>6 DEF new

\* Without a file of this folder, the folders in it are the same.
LEMMA RenderedWithout ==
    ASSUME NEW recs, NEW i, NEW folder,
           i \in DOMAIN recs => Dirname(recs[i].path) = folder
    PROVE  Rendered(Without(recs, i), folder) =
              [files   |-> Without(Rendered(recs, folder).files, i),
               folders |-> Rendered(recs, folder).folders]
  <1> DEFINE new == Without(recs, i)
             here == {j \in DOMAIN recs : Dirname(recs[j].path) = folder}
             below(paths) == {q \in paths : IsStrictPrefix(folder, Dirname(q))}
  <1>1. DOMAIN new = DOMAIN recs \ {i} /\ \A j \in DOMAIN new : new[j] = recs[j]
    BY DEF Without, Restrict
  <1>2. {j \in DOMAIN new : Dirname(new[j].path) = folder} = here \ {i}
    BY <1>1
  <1>3. Restrict(new, here \ {i}) = Without(Restrict(recs, here), i)
    BY DEF Restrict, Without
  <1>4. below(PathsOf(new)) = below(PathsOf(recs))
    <2>1. ~IsStrictPrefix(folder, folder)
      BY DEF IsStrictPrefix
    <2>2. \A q : IsStrictPrefix(folder, Dirname(q)) => Dirname(q) # folder
      BY <2>1
    <2> HIDE DEF new
    <2>3. ASSUME NEW q, IsStrictPrefix(folder, Dirname(q))
          PROVE  q \in PathsOf(new) <=> q \in PathsOf(recs)
      BY <1>1, <2>2, <2>3 DEF PathsOf
    <2> QED
      BY <2>3
  <1>5. SubFolders(PathsOf(new), folder) = SubFolders(PathsOf(recs), folder)
    BY <1>4 DEF SubFolders
  <1>6. Rendered(new, folder) = [files   |-> Restrict(new, here \ {i}),
                                 folders |-> SubFolders(PathsOf(new), folder)]
    BY <1>2 DEF Rendered
  <1>7. /\ Rendered(recs, folder).files = Restrict(recs, here)
        /\ Rendered(recs, folder).folders = SubFolders(PathsOf(recs), folder)
    BY DEF Rendered
  <1> HIDE DEF new, here
  <1> QED
    BY <1>3, <1>5, <1>6, <1>7 DEF new

\* Lists stay lists.
LEMMA ListOps ==
    ASSUME NEW recs, IsList(recs), NEW i, NEW name
    PROVE  /\ IsList(Renaming(recs, i, name)) /\ IsList(Without(recs, i))
           /\ DOMAIN Renaming(recs, i, name) = DOMAIN recs
           /\ DOMAIN Without(recs, i) = DOMAIN recs \ {i}
           /\ i \notin DOMAIN recs => Renaming(recs, i, name) = recs
  BY DEF IsList, Renaming, Without, Restrict

LEMMA RenderedLists ==
    ASSUME NEW recs, NEW folder
    PROVE  LET r == Rendered(recs, folder) IN
           /\ r = [files |-> r.files, folders |-> r.folders]
           /\ IsList(r.files)
           /\ DOMAIN r.files \subseteq DOMAIN recs
           /\ \A i \in DOMAIN r.files : Dirname(recs[i].path) = folder
  BY DEF Rendered, IsList, Restrict

\* Slots that the step leaves alone, or that wait for an answer from now on.
LEMMA AnswersStayLists ==
    ASSUME AnswersAreLists,
           \A c \in Calls : \/ calls'[c] = calls[c] /\ answers'[c] = answers[c]
                            \/ answers'[c] = NoAnswer
    PROVE  AnswersAreLists'
  BY DEF AnswersAreLists, NoAnswer

\* Steps that leave list and screen alone.
LEMMA ScreenStays ==
    ASSUME PaintInv, UNCHANGED <<current, records, shown, unpainted>>,
           AnswersAreLists',
           \A c \in Calls \cap heldRows' :
              \/ c \in heldRows /\ calls'[c] = calls[c]
              \/ calls'[c].op \notin {"rename", "delete"}
              \/ calls'[c].id \in DOMAIN shown.files
    PROVE  PaintInv'
  <1>1. ListsAreLists'
    BY DEF PaintInv, ListsAreLists, ListOn, IsList
  <1>2. RowsHeld'
    BY DEF PaintInv, RowsHeld, RowHeld, ListOn
  <1>3. PaintedAsListed'
    BY DEF PaintInv, PaintedAsListed, ListOn, Rendered, PathsOf
  <1> QED
    BY <1>1, <1>2, <1>3 DEF PaintInv

\* Steps that draw the list, or that leave none to draw.
LEMMA ScreenDrawn ==
    ASSUME AnswersAreLists',
           \/ /\ IsList(records')
              /\ shown' = Rendered(records', current')
              /\ heldRows' = {}
           \/ /\ records' = NotAList
              /\ shown' = shown
              /\ PaintInv
    PROVE  PaintInv'
  <1>1. CASE /\ IsList(records') /\ shown' = Rendered(records', current') /\ heldRows' = {}
    <2>1. /\ shown' = [files |-> shown'.files, folders |-> shown'.folders]
          /\ IsList(shown'.files)
      BY <1>1, RenderedLists
    <2>2. ListsAreLists'
      BY <1>1, <2>1 DEF ListsAreLists, IsList
    <2>3. RowsHeld'
      BY <1>1 DEF RowsHeld
    <2>4. PaintedAsListed'
      BY <1>1 DEF PaintedAsListed, Rendered, PathsOf
    <2> QED
      BY <2>2, <2>3, <2>4 DEF PaintInv
  <1>2. CASE records' = NotAList /\ shown' = shown /\ PaintInv
    BY <1>2 DEF PaintInv, ListsAreLists, RowsHeld, RowHeld, PaintedAsListed, ListOn, NotAList,
                IsList
  <1> QED
    BY <1>1, <1>2

-----------------------------------------------------------------------------
(* PaintedAsListed is kept *)

LEMMA PaintInit == BrowserInit => PaintInv
  <1> SUFFICES ASSUME BrowserInit PROVE PaintInv
    OBVIOUS
  <1> USE DEF BrowserInit
  <1>1. \A c \in Calls : answers[c] = NoAnswer
    BY DEF NoAnswers
  <1>2. AnswersAreLists
    BY <1>1 DEF AnswersAreLists, NoAnswer
  <1>3. IsList(NoRecords)
    BY DEF IsList, NoRecords
  <1>4. /\ shown = [files |-> shown.files, folders |-> shown.folders]
        /\ IsList(shown.files)
    BY RenderedLists
  <1> QED
    BY <1>2, <1>3, <1>4 DEF PaintInv, ListsAreLists, RowsHeld, PaintedAsListed

LEMMA PaintSend ==
    ASSUME BInv, PaintInv, NEW call, Send(call),
           call.op \in {"rename", "delete"} => call.id \in DOMAIN shown.files
    PROVE  PaintInv'
  <1>1. FreeSlot \in Calls /\ DOMAIN calls = Calls
    BY DEF Send, FreeSlot, BInv, CallsInv
  <1>2. calls[FreeSlot] = NoCall
    BY DEF Send, FreeSlot
  <1>3. calls' = [calls EXCEPT ![FreeSlot] = call] /\ answers' = answers
        /\ UNCHANGED <<current, records, shown, unpainted>>
    BY DEF Send
  <1>4. answers[FreeSlot] = NoAnswer
    BY <1>1, <1>2 DEF BInv, CallsInv, CallInv, NoCall
  <1>5. AnswersAreLists'
    BY <1>1, <1>3, <1>4, AnswersStayLists DEF PaintInv, ListsAreLists
  <1>6. \A c \in Calls \cap heldRows' :
           \/ c \in heldRows /\ calls'[c] = calls[c]
           \/ calls'[c].op \notin {"rename", "delete"}
           \/ calls'[c].id \in DOMAIN shown.files
    <2>1. \A c \in Calls : c # FreeSlot /\ c \in heldRows' => c \in heldRows
      BY DEF Send
    <2> QED
      BY <1>1, <1>3, <2>1
  <1> QED
    BY <1>3, <1>5, <1>6, ScreenStays

LEMMA PaintNavigate ==
    ASSUME BInv, PaintInv, NEW folder, NavigateTo(folder)
    PROVE  PaintInv'
  <1>1. UNCHANGED <<records, calls, answers>> /\ current' = folder
    BY DEF NavigateTo
  <1>2. AnswersAreLists'
    BY <1>1 DEF PaintInv, ListsAreLists, AnswersAreLists, IsList
  <1>3. CASE ListOn
    <2>1. IsList(records') /\ shown' = Rendered(records', current') /\ heldRows' = {}
      BY <1>1, <1>3 DEF NavigateTo, PaintInv, ListsAreLists, IsList
    <2> QED
      BY <1>2, <2>1, ScreenDrawn
  <1>4. CASE ~ListOn
    BY <1>1, <1>2, <1>4, ScreenDrawn DEF NavigateTo, ListOn
  <1> QED
    BY <1>3, <1>4

LEMMA PaintReload ==
    ASSUME BInv, Reload
    PROVE  PaintInv'
  <1>1. IsList(NoRecords)
    BY DEF IsList, NoRecords
  <1>2. \A c \in Calls : answers'[c] = NoAnswer
    BY ReloadCalls
  <1>3. AnswersAreLists'
    BY <1>2 DEF AnswersAreLists, NoAnswer
  <1> QED
    BY <1>1, <1>3, ScreenDrawn DEF Reload

LEMMA OtherCalls ==
    /\ \A batch : UploadCall(batch).op = "upload"
    /\ \A p : LoginCall(p).op = "login"
    /\ LogoutCall.op = "logout"
  BY DEF UploadCall, LoginCall, LogoutCall

LEMMA PaintUser ==
    ASSUME BInv, PaintInv, User
    PROVE  PaintInv'
  <1>1. CASE RenameFile
    <2>1. PICK i \in DOMAIN shown.files, name \in Names : Send(RenameCall(i, name))
      BY <1>1 DEF RenameFile
    <2>2. RenameCall(i, name).id = i
      BY DEF RenameCall
    <2> QED
      BY <2>1, <2>2, PaintSend
  <1>2. CASE DeleteFile
    <2>1. PICK i \in DOMAIN shown.files : Send(DeleteCall(i))
      BY <1>2 DEF DeleteFile
    <2>2. DeleteCall(i).id = i
      BY DEF DeleteCall
    <2> QED
      BY <2>1, <2>2, PaintSend
  <1>3. CASE UploadFiles \/ LoginSubmit \/ LogoutClick
    BY <1>3, PaintSend, OtherCalls DEF UploadFiles, LoginSubmit, LogoutClick
  <1>4. CASE Navigate
    BY <1>4, PaintNavigate DEF Navigate
  <1>5. CASE Reload
    BY <1>5, PaintReload
  <1> QED
    BY <1>1, <1>2, <1>3, <1>4, <1>5 DEF User

LEMMA PaintServe ==
    ASSUME BInv, PaintInv, NEW c \in Calls, Serve(c)
    PROVE  PaintInv'
  <1>1. UNCHANGED <<current, records, shown, calls, heldRows, unpainted>>
    BY DEF Serve
  <1>2. PICK answer :
           /\ answers' = [answers EXCEPT ![c] = answer]
           /\ calls[c].op = "list" /\ answer.status = "ok" => IsList(answer.body)
    <2>1. ASSUME NEW owner PROVE IsList(Ok(ListFor(owner)).body)
      BY DEF IsList, Ok, ListFor
    <2>2. CASE ServeList(c)
      BY <2>1, <2>2 DEF ServeList, Answer
    <2>3. CASE ServeUpload(c) \/ ServeRename(c) \/ ServeReread(c) \/ RereadFails(c)
                              \/ ServeDelete(c) \/ ServeSession(c)
      <3>1. calls[c].op # "list"
        BY <2>3 DEF ServeUpload, ServeRename, ServeReread, RereadFails, ServeDelete,
                    ServeSession, Waiting
      <3> QED
        BY <2>3, <3>1
           DEF ServeUpload, ServeRename, ServeReread, RereadFails, ServeDelete,
               ServeSession, Answer
    <2>4. CASE Reject(c) \/ Refuse(c)
      <3>1. Unauthorized.status # "ok" /\ Failed.status # "ok"
        BY DEF Unauthorized, Failed
      <3> QED
        BY <2>4, <3>1 DEF Reject, Refuse, Answer
    <2> QED
      BY <2>2, <2>3, <2>4 DEF Serve
  <1>3. DOMAIN answers = Calls
    BY DEF BInv, CallsInv
  <1>4. AnswersAreLists'
    BY <1>1, <1>2, <1>3 DEF PaintInv, ListsAreLists, AnswersAreLists, IsList
  <1> QED
    BY <1>1, <1>4, ScreenStays

LEMMA PaintAdrift ==
    ASSUME BInv, PaintInv, NEW c \in Calls, ServeAdrift(c)
    PROVE  PaintInv'
  <1>1. UNCHANGED <<current, records, shown, heldRows, unpainted>>
    BY DEF ServeAdrift, historyVars
  <1>2. /\ calls'[c] = NoCall /\ answers[c] = NoAnswer /\ answers' = answers
        /\ \A d \in Calls \ {c} : calls'[d] = calls[d]
    BY AdriftSlot
  <1>3. AnswersAreLists'
    BY <1>2, AnswersStayLists DEF PaintInv, ListsAreLists
  <1> QED
    BY <1>1, <1>2, <1>3, ScreenStays, NoCallOp

\* The slot of an answer waits for something else, or for nothing.
LEMMA PaintResend ==
    ASSUME BInv, PaintInv, NEW c \in Calls, NEW call, Resend(c, call)
    PROVE  /\ AnswersAreLists'
           /\ calls'[c] = call
           /\ \A d \in Calls \ {c} : calls'[d] = calls[d]
  <1>1. DOMAIN calls = Calls /\ DOMAIN answers = Calls
    BY DEF BInv, CallsInv
  <1> QED
    BY <1>1, AnswersStayLists DEF Resend, PaintInv, ListsAreLists

LEMMA PaintDrop ==
    ASSUME BInv, PaintInv, NEW c \in Calls, Drop(c),
           UNCHANGED <<current, records, shown, unpainted>>
    PROVE  PaintInv'
  <1>1. AnswersAreLists' /\ \A d \in Calls \ {c} : calls'[d] = calls[d]
    BY PaintResend DEF Drop
  <1>2. heldRows' = heldRows \ {c}
    BY DEF Drop
  <1> QED
    BY <1>1, <1>2, ScreenStays

LEMMA PaintNextOfBatch ==
    ASSUME BInv, PaintInv, NEW c \in Calls, NextOfBatch(c),
           UNCHANGED <<current, records, shown, heldRows, unpainted>>
    PROVE  PaintInv'
  <1>1. PICK call : Resend(c, call) /\ call.op \in {"list", "upload"}
    BY NextCallOp DEF NextOfBatch
  <1>2. /\ AnswersAreLists' /\ calls'[c] = call
        /\ \A d \in Calls \ {c} : calls'[d] = calls[d]
    BY <1>1, PaintResend
  <1> QED
    BY <1>1, <1>2, ScreenStays

LEMMA PaintListed ==
    ASSUME BInv, PaintInv, NEW c \in Calls, Listed(c)
    PROVE  PaintInv'
  <1>1. CASE ShowLogin(c)
    BY <1>1, PaintDrop DEF ShowLogin, historyVars
  <1>2. CASE ~ShowLogin(c)
    <2>1. AnswersAreLists'
      BY <1>2, PaintResend DEF Listed
    <2>2. CASE Status(c) = "failed"
      BY <1>2, <2>1, <2>2, ScreenDrawn DEF Listed
    <2>3. CASE Status(c) = "ok"
      <3>1. IsList(answers[c].body)
        BY <2>3 DEF Listed, Answered, Status, PaintInv, ListsAreLists, AnswersAreLists
      <3>2. /\ records' = answers[c].body /\ current' = current
            /\ shown' = Rendered(answers[c].body, current) /\ heldRows' = {}
        BY <1>2, <2>3 DEF Listed
      <3> QED
        BY <2>1, <3>1, <3>2, ScreenDrawn
    <2> QED
      BY <1>2, <2>2, <2>3 DEF Listed
  <1> QED
    BY <1>1, <1>2

\* A list that is renamed in or shortened: its rows are either drawn again the
\* same way, or what was on screen does not count any more.
LEMMA ListChanged ==
    ASSUME BInv, PaintInv, NEW c \in Calls, Drop(c),
           IsList(shown'.files),
           shown' = [files |-> shown'.files, folders |-> shown'.folders],
           ListOn => IsList(records'), ListOn' => ListOn,
           \A d \in Calls \ {c} : RowHeld(d) => RowHeld(d)',
           ListOn' /\ ~unpainted' => shown' = Rendered(records', current')
    PROVE  PaintInv'
  <1>1. AnswersAreLists' /\ heldRows' = heldRows \ {c}
    BY PaintResend DEF Drop
  <1>2. ListsAreLists'
    BY <1>1 DEF ListsAreLists, IsList
  <1>3. RowsHeld'
    BY <1>1 DEF PaintInv, RowsHeld
  <1>4. PaintedAsListed'
    BY DEF PaintedAsListed, Rendered, PathsOf
  <1> QED
    BY <1>2, <1>3, <1>4 DEF PaintInv

LEMMA PaintRenamed ==
    ASSUME BInv, PaintInv, NEW c \in Calls, Renamed(c)
    PROVE  PaintInv'
  <1>1. CASE ShowLogin(c) \/ Alert(c)
    BY <1>1, PaintDrop DEF ShowLogin, Alert, historyVars
  <1>2. CASE ~(ShowLogin(c) \/ Alert(c))
    <2>0. PICK i, name : i = calls[c].id /\ name = answers[c].body
      OBVIOUS
    <2> DEFINE rows == shown.files
               inList == c \in heldRecs /\ i \in DOMAIN records
               inRows == c \in heldRows /\ i \in DOMAIN rows
    <2>1. /\ Drop(c) /\ current' = current
          /\ records' = IF ListOn /\ c \in heldRecs
                        THEN Renaming(records, i, name) ELSE records
          /\ shown' = IF c \in heldRows
                      THEN [files |-> Renaming(rows, i, name), folders |-> shown.folders]
                      ELSE shown
          /\ unpainted' = (unpainted \/ (inList # inRows))
      BY <1>2, <2>0 DEF Renamed
    <2>2. IsList(rows) /\ shown = [files |-> rows, folders |-> shown.folders]
      BY DEF PaintInv, ListsAreLists
    <2>3. /\ DOMAIN shown'.files = DOMAIN rows /\ IsList(shown'.files)
          /\ shown' = [files |-> shown'.files, folders |-> shown'.folders]
          /\ shown'.files = IF inRows THEN Renaming(rows, i, name) ELSE rows
          /\ shown'.folders = shown.folders
      <3> DEFINE new == Renaming(rows, i, name)
      <3>1. IsList(new) /\ DOMAIN new = DOMAIN rows /\ (i \notin DOMAIN rows => new = rows)
        BY <2>2, ListOps
      <3>2. shown' = IF c \in heldRows THEN [files |-> new, folders |-> shown.folders]
                     ELSE shown
        BY <2>1
      <3> HIDE DEF new
      <3>3. CASE c \in heldRows
        <4>1. shown' = [files |-> new, folders |-> shown.folders]
          BY <3>2, <3>3
        <4>2. shown'.files = new /\ shown'.folders = shown.folders
          BY <4>1
        <4>3. new = IF inRows THEN Renaming(rows, i, name) ELSE rows
          BY <3>1, <3>3 DEF new
        <4> QED
          BY <3>1, <4>1, <4>2, <4>3
      <3>4. CASE c \notin heldRows
        BY <2>2, <3>2, <3>4
      <3> QED
        BY <3>3, <3>4 DEF new
    <2>4. ListOn => /\ IsList(records) /\ IsList(records')
                    /\ DOMAIN records' = DOMAIN records
                    /\ records' = IF inList THEN Renaming(records, i, name) ELSE records
      <3>1. ListOn => IsList(records)
        BY DEF PaintInv, ListsAreLists
      <3> QED
        BY <2>1, <3>1, ListOps
    <2>5. ListOn' => ListOn
      BY <2>1 DEF ListOn
    <2>6. ASSUME NEW d \in Calls \ {c}, RowHeld(d) PROVE RowHeld(d)'
      <3>1. calls'[d] = calls[d]
        BY <2>1, PaintResend DEF Drop
      <3> QED
        BY <2>3, <2>4, <2>5, <2>6, <3>1 DEF RowHeld
    <2>7. ASSUME ListOn', ~unpainted'
          PROVE  shown' = Rendered(records', current')
      <3>1. ~unpainted /\ (inList <=> inRows) /\ ListOn
        BY <2>1, <2>5, <2>7
      <3>2. shown = Rendered(records, current)
        BY <3>1 DEF PaintInv, PaintedAsListed
      <3>3. CASE inList
        <4>1. records' = Renaming(records, i, name)
          BY <2>4, <3>1, <3>3
        <4>2. shown' = [files |-> Renaming(rows, i, name), folders |-> shown.folders]
          BY <2>3, <3>1, <3>3
        <4> QED
          BY <2>1, <3>2, <4>1, <4>2, RenderedRenaming
      <3>4. CASE ~inList
        <4>1. records' = records
          BY <2>4, <3>1, <3>4
        <4>2. shown' = shown
          BY <2>2, <2>3, <3>1, <3>4
        <4> QED
          BY <2>1, <3>2, <4>1, <4>2
      <3> QED
        BY <3>3, <3>4
    <2> QED
      BY <2>1, <2>3, <2>4, <2>5, <2>6, <2>7, ListChanged
  <1> QED
    BY <1>1, <1>2

LEMMA PaintDeleted ==
    ASSUME BInv, PaintInv, NEW c \in Calls, Deleted(c)
    PROVE  PaintInv'
  <1>1. CASE ShowLogin(c) \/ Alert(c)
    BY <1>1, PaintDrop DEF ShowLogin, Alert, historyVars
  <1>2. CASE ~(ShowLogin(c) \/ Alert(c)) /\ ~ListOn
    BY <1>2, PaintDrop DEF Deleted
  <1>3. CASE ~(ShowLogin(c) \/ Alert(c)) /\ ListOn
    <2>0. PICK i : i = calls[c].id
      OBVIOUS
    <2> DEFINE rows == shown.files
    <2>1. /\ Drop(c) /\ current' = current
          /\ records' = Without(records, i)
          /\ shown' = IF c \in heldRows
                      THEN [files |-> Without(rows, i), folders |-> shown.folders]
                      ELSE shown
          /\ unpainted' = (unpainted \/ c \notin heldRows)
      BY <1>3, <2>0 DEF Deleted
    <2>2. /\ IsList(rows) /\ shown = [files |-> rows, folders |-> shown.folders]
          /\ IsList(records)
      BY <1>3 DEF PaintInv, ListsAreLists
    <2>3. /\ IsList(shown'.files) /\ DOMAIN rows \ {i} \subseteq DOMAIN shown'.files
          /\ shown' = [files |-> shown'.files, folders |-> shown'.folders]
      <3> DEFINE new == Without(rows, i)
      <3>1. IsList(new) /\ DOMAIN new = DOMAIN rows \ {i}
        BY <2>2, ListOps
      <3>2. shown' = IF c \in heldRows THEN [files |-> new, folders |-> shown.folders]
                     ELSE shown
        BY <2>1
      <3> HIDE DEF new
      <3> QED
        BY <2>2, <3>1, <3>2
    <2>4. IsList(records') /\ DOMAIN records' = DOMAIN records \ {i}
      BY <2>1, <2>2, ListOps
    <2>5. ASSUME NEW d \in Calls \ {c}, RowHeld(d) PROVE RowHeld(d)'
      <3>1. calls'[d] = calls[d]
        BY <2>1, PaintResend DEF Drop
      <3> QED
        BY <1>3, <2>3, <2>4, <2>5, <3>1 DEF RowHeld
    <2>6. ASSUME ~unpainted'
          PROVE  shown' = Rendered(records', current')
      <3>1. ~unpainted /\ c \in heldRows
        BY <2>1, <2>6
      <3>2. shown = Rendered(records, current)
        BY <1>3, <3>1 DEF PaintInv, PaintedAsListed
      <3>3. i \in DOMAIN records => i \in DOMAIN rows
        BY <1>3, <2>0, <3>1 DEF PaintInv, RowsHeld, RowHeld, Deleted, Answered
      <3>4. i \in DOMAIN records => Dirname(records[i].path) = current
        BY <3>2, <3>3, RenderedLists
      <3> QED
        BY <2>1, <3>1, <3>2, <3>4, RenderedWithout
    <2> QED
      BY <1>3, <2>1, <2>3, <2>4, <2>5, <2>6, ListChanged
  <1> QED
    BY <1>1, <1>2, <1>3

LEMMA PaintLoggedIn ==
    ASSUME BInv, PaintInv, NEW c \in Calls, LoggedIn(c)
    PROVE  PaintInv'
  <1>1. CASE Alert(c)
    BY <1>1, PaintDrop DEF Alert, historyVars
  <1>2. CASE ~Alert(c)
    <2> DEFINE call == [op |-> "list", by |-> calls[c].user]
    <2>1. Resend(c, call) /\ UNCHANGED <<current, records, shown, heldRows, unpainted>>
      BY <1>2 DEF LoggedIn
    <2>2. /\ AnswersAreLists' /\ calls'[c] = call
          /\ \A d \in Calls \ {c} : calls'[d] = calls[d]
      BY <2>1, PaintResend
    <2>3. call.op = "list"
      OBVIOUS
    <2> HIDE DEF call
    <2> QED
      BY <2>1, <2>2, <2>3, ScreenStays
  <1> QED
    BY <1>1, <1>2

LEMMA PaintDeliver ==
    ASSUME BInv, PaintInv, NEW c \in Calls, Deliver(c)
    PROVE  PaintInv'
  <1>1. CASE Uploaded(c)
    BY <1>1, PaintNextOfBatch DEF Uploaded
  <1>2. CASE LoggedOut(c)
    BY <1>2, PaintDrop DEF LoggedOut, historyVars
  <1> QED
    BY <1>1, <1>2, PaintListed, PaintRenamed, PaintDeleted, PaintLoggedIn DEF Deliver

LEMMA PaintLeft ==
    ASSUME BInv, PaintInv, NEW c \in Calls, LeftAdrift(c),
           UNCHANGED <<current, records, shown, unpainted>>
    PROVE  PaintInv'
  <1>1. \A d \in Calls : \/ calls'[d] = calls[d]
                        \/ /\ calls'[d].op \in {"list", "upload"}
                           /\ calls[d] = NoCall
    BY AdriftCalls, NextCallOp
  <1>2. answers' = answers /\ \A d \in Calls : calls[d] = NoCall => answers[d] = NoAnswer
    BY AdriftCalls, NoCallOp DEF BInv, CallsInv, CallInv
  <1>3. AnswersAreLists'
    BY <1>1, <1>2, AnswersStayLists DEF PaintInv, ListsAreLists
  <1>4. heldRows' \subseteq heldRows
    BY DEF LeftAdrift
  <1> QED
    BY <1>1, <1>3, <1>4, ScreenStays

LEMMA PaintStep ==
    ASSUME BInv, PaintInv, [BrowserNext]_browserVars
    PROVE  PaintInv'
  <1>1. CASE /\ UNCHANGED <<current, records, shown, unpainted>>
             /\ UNCHANGED <<calls, answers, heldRows>>
    <2>1. AnswersAreLists'
      BY <1>1 DEF PaintInv, ListsAreLists, AnswersAreLists, IsList
    <2> QED
      BY <1>1, <2>1, ScreenStays
  <1>2. CASE Others \/ Rest \/ UNCHANGED browserVars
    BY <1>1, <1>2 DEF Others, Rest, browserVars, tabVars, callVars, historyVars
  <1>3. ASSUME NEW c \in Calls, Lose(c) PROVE PaintInv'
    <2>1. UNCHANGED <<current, records, shown, unpainted>>
      BY <1>3 DEF Lose
    <2>2. CASE NeverAnswered(c)
      BY <2>1, <2>2, PaintDrop, PaintNextOfBatch DEF NeverAnswered
    <2>3. CASE LeftAdrift(c)
      BY <2>1, <2>3, PaintLeft
    <2> QED
      BY <1>3, <2>2, <2>3 DEF Lose
  <1> QED
    BY <1>2, <1>3, PaintUser, PaintServe, PaintAdrift, PaintDeliver DEF BrowserNext

\* PaintedAsListed: rename and delete change the record and the row each on
\* its own; as long as no answer came to a row drawn again since the click,
\* the screen is what renderFiles would draw, its folders included.
THEOREM ScreenShowsList == BrowserSpec => []PaintedAsListed
  <1>1. BrowserInit => BInv /\ PaintInv
    BY InvInit, PaintInit
  <1>2. BInv /\ PaintInv /\ [BrowserNext]_browserVars => (BInv /\ PaintInv)'
    BY InvStep, PaintStep
  <1>3. PaintInv => PaintedAsListed
    BY DEF PaintInv
  <1> QED
    BY <1>1, <1>2, <1>3, PTL DEF BrowserSpec

-----------------------------------------------------------------------------
(* What the tab can know *)

Mine == {i \in DOMAIN files : files[i].owner = cookie}

\* Two requests in flight are about different files.
Apart ==
    \A c, d \in Calls :
        c # d /\ calls[c] # NoCall /\ calls[d] # NoCall => Independent(calls[c], calls[d])

\* The list that is asked for is the one of the cookie.
AskedInv ==
    /\ \A c \in Calls : calls[c] # NoCall => calls[c].op \in {"list", "login"}
    /\ \A c \in Calls : calls[c].op = "list" =>
          /\ calls[c].by = cookie
          /\ answers[c].status = "ok" => answers[c].body = ListFor(cookie)
    /\ view = "app" => \E c \in Calls : calls[c].op = "list"

\* Requests that the list does not show yet.
Deleting(i) ==
    \E c \in Calls : calls[c].op = "delete" /\ calls[c].id = i /\ answers[c].status = "ok"

Uploading == \E c \in Calls : calls[c].op = "upload"

Renames(c, i) ==
    calls[c].op = "rename" /\ calls[c].id = i /\ answers[c].status \in {"rereading", "ok"}

\* The list is that of the cookie but for requests that are still in flight.
UpToDate ==
    /\ ListOn
    /\ \A i \in DOMAIN records \ Mine : Deleting(i)
    /\ \A i \in Mine \ DOMAIN records : Uploading
    /\ \A i \in Mine \cap DOMAIN records :
          records[i] = Entry(i) \/ \E c \in Calls : Renames(c, i)
    /\ \A c \in Calls :
          calls[c].op = "rename" /\ calls[c].id \in DOMAIN records => c \in heldRecs

KnownInv ==
    /\ \A c \in Calls : calls[c].op # "list"
    /\ \A c \in Calls :
          calls[c].op = "rename" /\ answers[c].status = "ok" /\ calls[c].id \in DOMAIN files
            => answers[c].body = files[calls[c].id].filename
    /\ view = "app" => UpToDate

\* The id of a deleted file stays unused, whoever deleted it and whenever the
\* answer is read.
DeletedGone ==
    \A c \in Calls :
        calls[c].op = "delete" /\ answers[c].status = "ok" => calls[c].id \notin DOMAIN files

SyncInv ==
    /\ sync # "unknown" => Apart /\ adrift = {}
    /\ sync = "asked" => AskedInv
    /\ sync = "known" => KnownInv

\* Every answer frees its slot or makes it wait again.
LEMMA DeliveredOrLost ==
    ASSUME BInv, NEW c \in Calls, Deliver(c) \/ (Lose(c) /\ NeverAnswered(c))
    PROVE  /\ answers'[c] = NoAnswer
           /\ \A d \in Calls \ {c} : calls'[d] = calls[d] /\ answers'[d] = answers[d]
           /\ UNCHANGED <<indexVars, adrift>>
  <1>1. \E call : Resend(c, call)
    BY DEF Deliver, Listed, Renamed, Deleted, Uploaded, LoggedIn, LoggedOut, ShowLogin, Alert,
           NeverAnswered, NextOfBatch, Drop
  <1>2. UNCHANGED <<indexVars, adrift>>
    BY DEF Deliver, Lose, NeverAnswered
  <1> QED
    BY <1>1, <1>2 DEF Resend, BInv, CallsInv

LEMMA GoneStays ==
    ASSUME BInv, Evolves, DeletedGone,
           \A c \in Calls : \/ calls'[c] = calls[c] /\ answers'[c] = answers[c]
                            \/ answers'[c].status # "ok"
                            \/ calls'[c].op # "delete"
                            \/ calls'[c].id \notin DOMAIN files'
    PROVE  DeletedGone'
  <1> SUFFICES ASSUME NEW c \in Calls, calls'[c] = calls[c], answers'[c] = answers[c],
                      calls[c].op = "delete", answers[c].status = "ok"
               PROVE  calls[c].id \notin DOMAIN files'
    BY DEF DeletedGone
  <1>1. calls[c].id \in 1..lastId
    BY DEF BInv, CallsInv, CallInv, Known
  <1>2. calls[c].id \notin DOMAIN files
    BY DEF DeletedGone
  <1> QED
    BY <1>1, <1>2 DEF Evolves

LEMMA GoneStep ==
    ASSUME BInv, DeletedGone, [BrowserNext]_browserVars
    PROVE  DeletedGone'
  <1>0. NoAnswer.status # "ok" /\ DOMAIN answers = Calls /\ DOMAIN calls = Calls
    BY DEF NoAnswer, BInv, CallsInv
  <1>1. CASE UNCHANGED <<files, calls, answers>>
    BY <1>1 DEF DeletedGone
  <1>2. CASE Navigate \/ Rest \/ UNCHANGED browserVars
    BY <1>1, <1>2 DEF Navigate, NavigateTo, Rest, browserVars, tabVars, callVars, indexVars
  <1>3. CASE Reload
    <2>1. \A c \in Calls : answers'[c] = NoAnswer
      BY <1>3, ReloadCalls
    <2> QED
      BY <1>0, <2>1 DEF DeletedGone
  <1>4. ASSUME NEW call, Send(call) PROVE DeletedGone'
    <2>1. FreeSlot \in Calls /\ calls[FreeSlot] = NoCall
      BY <1>4 DEF Send, FreeSlot
    <2>2. answers[FreeSlot] = NoAnswer
      BY <2>1 DEF BInv, CallsInv, CallInv, NoCall
    <2>3. /\ calls' = [calls EXCEPT ![FreeSlot] = call]
          /\ UNCHANGED <<files, answers>>
      BY <1>4 DEF Send, indexVars
    <2> QED
      BY <1>0, <2>2, <2>3 DEF DeletedGone
  <1>5. CASE User
    BY <1>2, <1>3, <1>4, <1>5
       DEF User, RenameFile, DeleteFile, UploadFiles, LoginSubmit, LogoutClick
  <1>6. ASSUME NEW c \in Calls, Serve(c) PROVE DeletedGone'
    <2>1. Evolves /\ \E answer : answers' = [answers EXCEPT ![c] = answer]
      BY <1>6, ServeIndex
    <2>2. calls' = calls
      BY <1>6 DEF Serve
    <2>3. \/ answers'[c].status # "ok"
          \/ calls'[c].op # "delete"
          \/ calls'[c].id \notin DOMAIN files'
      <3>1. Unauthorized.status # "ok" /\ Failed.status # "ok"
        BY DEF Unauthorized, Failed
      <3>2. ServeDelete(c) => calls[c].id \notin DOMAIN files'
        BY DEF ServeDelete, ApplyDelete, DeleteRow, Restrict
      <3> QED
        BY <1>0, <1>6, <2>2, <3>1, <3>2
           DEF Serve, ServeList, ServeUpload, ServeRename, ServeReread, RereadFails,
               ServeSession, Reject, Refuse, Answer, Waiting
    <2> QED
      BY <1>0, <2>1, <2>2, <2>3, GoneStays
  <1>7. ASSUME NEW c \in Calls, Deliver(c) \/ Lose(c) PROVE DeletedGone'
    <2>1. Evolves
      BY <1>7, UnchangedEvolves DEF Deliver, Lose, BInv
    <2>2. CASE Deliver(c) \/ (Lose(c) /\ NeverAnswered(c))
      BY <1>0, <2>1, <2>2, DeliveredOrLost, GoneStays
    <2>3. CASE LeftAdrift(c)
      <3>1. \A d \in Calls : calls'[d] = calls[d] \/ calls'[d].op # "delete"
        BY <2>3, AdriftCalls, NextCallOp
      <3>2. answers' = answers
        BY <2>3, AdriftCalls
      <3> QED
        BY <2>1, <3>1, <3>2, GoneStays
    <2> QED
      BY <1>7, <2>2, <2>3 DEF Lose
  <1>8. CASE Others
    <2>1. Evolves
      BY <1>8, OthersEvolve DEF BInv
    <2>2. calls' = calls /\ answers' = answers
      BY <1>8 DEF Others, callVars
    <2> QED
      BY <2>1, <2>2, GoneStays
  <1>9. ASSUME NEW c \in Calls, ServeAdrift(c) PROVE DeletedGone'
    BY <1>9, AdriftSlot, NoCallOp, GoneStays
  <1> QED
    BY <1>2, <1>5, <1>6, <1>7, <1>8, <1>9 DEF BrowserNext

-----------------------------------------------------------------------------
(* ListInSync is kept *)

\* The list that the page asks for when it is loaded.
LEMMA LoadedSync ==
    ASSUME calls = OnlyList(Calls), answers = NoAnswers, adrift = {}, sync = "asked",
           view = "blank"
    PROVE  SyncInv
  <1> DEFINE first == CHOOSE d \in Calls : TRUE
  <1>1. \A c \in Calls : calls[c] = IF c = first THEN ListCall ELSE NoCall
    BY DEF OnlyList
  <1>2. \A c \in Calls : answers[c].status # "ok"
    BY DEF NoAnswers, NoAnswer
  <1>3. /\ ListCall.op = "list" /\ ListCall.by = cookie /\ NoCall.op = "none"
    BY DEF ListCall, NoCall
  <1> HIDE DEF first
  <1>4. Apart
    BY <1>1 DEF Apart
  <1>5. AskedInv
    BY <1>1, <1>2, <1>3 DEF AskedInv
  <1> QED
    BY <1>4, <1>5 DEF SyncInv

LEMMA SyncUnchanged ==
    ASSUME SyncInv,
           UNCHANGED <<files, cookie, view, records, calls, answers, heldRecs, adrift, sync>>
    PROVE  SyncInv'
  BY DEF SyncInv, Apart, AskedInv, KnownInv, UpToDate, Deleting, Uploading, Renames, Mine,
         ListFor, Entry, ListOn

\* Nothing is claimed of an uncertain list.
LEMMA SyncUnknown ==
    ASSUME sync' = "unknown"
    PROVE  SyncInv'
  BY DEF SyncInv

LEMMA SentApart ==
    ASSUME NEW c, NEW call, sync' = SyncAfterSending(c, call), sync' # "unknown"
    PROVE  /\ \A d \in Calls \ {c} : calls[d] # NoCall => Independent(call, calls[d])
           /\ sync' = IF call.op = "list" THEN "asked" ELSE sync
           /\ call.op # "list" => sync # "unknown"
  BY DEF SyncAfterSending

\* Independence is symmetric, and holds of no list, login or logout.
LEMMA IndependentFacts ==
    ASSUME NEW a, NEW b, Independent(a, b)
    PROVE  /\ Independent(b, a)
           /\ a.op \in {"upload", "rename", "delete"}
           /\ b.op \in {"upload", "rename", "delete"}
           /\ a.op # "upload" /\ b.op # "upload" => a.id # b.id
  BY DEF Independent

\* The list asked for alone, whichever request it follows.
LEMMA AskedAlone ==
    ASSUME BInv, NEW c \in Calls, NEW call, NEW like,
           calls'[c] = call, answers'[c] = NoAnswer,
           \A d \in Calls \ {c} : calls'[d] = calls[d], c \notin adrift, adrift' = adrift,
           call.op = "list", call.by = cookie', like.op = "list",
           sync' = SyncAfterSending(c, like)
    PROVE  SyncInv'
  <1> SUFFICES ASSUME sync' # "unknown" PROVE SyncInv'
    BY SyncUnknown
  <1>0. sync' = "asked" /\ \A d \in Calls \ {c} : calls[d] = NoCall
    BY SentApart, IndependentFacts
  <1>1. sync' = "asked" /\ \A d \in Calls \ {c} : calls'[d] = NoCall
    BY <1>0
  <1>2. Apart' /\ adrift' = {}
    <2>1. adrift = {}
      BY <1>0, NoCallOp DEF BInv, CallsInv, CallInv
    <2> QED
      BY <1>1, <2>1 DEF Apart
  <1>3. NoAnswer.status # "ok"
    BY DEF NoAnswer
  <1>4. AskedInv'
    BY <1>1, <1>3, NoCallOp DEF AskedInv
  <1> QED
    BY <1>1, <1>2, <1>4 DEF SyncInv

\* Requests that the list does not show yet are still in flight.
LEMMA UpToDateStays ==
    ASSUME UpToDate, UNCHANGED <<records, files, cookie>>,
           \A c \in Calls :
              /\ calls[c].op = "delete" /\ answers[c].status = "ok" =>
                    calls'[c] = calls[c] /\ answers'[c] = answers[c]
              /\ calls[c].op = "upload" => calls'[c].op = "upload"
              /\ calls[c].op = "rename" /\ answers[c].status \in {"rereading", "ok"} =>
                    /\ calls'[c] = calls[c]
                    /\ answers'[c].status \in {"rereading", "ok"}
              /\ calls'[c].op = "rename" /\ calls'[c].id \in DOMAIN records =>
                    c \in heldRecs'
    PROVE  UpToDate'
  <1>1. \A i : Deleting(i) => Deleting(i)'
    BY DEF Deleting
  <1>2. Uploading => Uploading'
    BY DEF Uploading
  <1>3. \A i : \A c \in Calls : Renames(c, i) => Renames(c, i)'
    BY DEF Renames
  <1>4. ListOn' /\ Mine' = Mine /\ \A i : Entry(i)' = Entry(i)
    BY DEF UpToDate, ListOn, Mine, Entry
  <1> QED
    BY <1>1, <1>2, <1>3, <1>4 DEF UpToDate

LEMMA SyncSend ==
    ASSUME BInv, SyncInv, NEW call, Send(call),
           \/ view = "app" /\ call.op \in {"upload", "rename", "delete", "logout"}
           \/ view = "login" /\ call.op = "login"
    PROVE  SyncInv'
  <1> SUFFICES ASSUME sync' # "unknown" PROVE SyncInv'
    BY SyncUnknown
  <1> DEFINE slot == FreeSlot
  <1>1. slot \in Calls /\ calls[slot] = NoCall /\ calls[slot].op = "none"
    BY NoCallOp DEF Send, FreeSlot
  <1>2. /\ UNCHANGED <<files, cookie, view, records, answers, adrift>>
        /\ sync' = SyncAfterSending(slot, call)
    BY DEF Send, indexVars
  <1>3. calls'[slot] = call /\ \A d \in Calls \ {slot} : calls'[d] = calls[d]
    BY <1>1 DEF Send, BInv, CallsInv
  <1>4. answers[slot].status = "none"
    BY <1>1 DEF BInv, CallsInv, CallInv, NoAnswer
  <1>5. /\ \A d \in Calls \ {slot} : calls[d] # NoCall => Independent(call, calls[d])
        /\ sync' = sync
    BY <1>2, SentApart
  <1>6. heldRecs \subseteq heldRecs'
        /\ (ListOn /\ call.op = "rename" /\ call.id \in DOMAIN records => slot \in heldRecs')
    BY DEF Send
  <1> HIDE DEF slot
  <1>7. Apart' /\ adrift' = {}
    BY <1>2, <1>3, <1>5, IndependentFacts DEF SyncInv, Apart
  <1>8. ASSUME sync' = "asked" PROVE AskedInv'
    <2>1. AskedInv
      BY <1>5, <1>8 DEF SyncInv
    <2>2. view # "app"
      BY <1>1, <1>5, <2>1, IndependentFacts, NoCallOp DEF AskedInv
    <2>3. call.op = "login"
      BY <2>2
    <2>4. ListFor(cookie)' = ListFor(cookie)
      BY <1>2 DEF ListFor, Entry
    <2> QED
      BY <1>2, <1>3, <2>1, <2>2, <2>3, <2>4 DEF AskedInv
  <1>9. ASSUME sync' = "known" PROVE KnownInv'
    <2>1. KnownInv
      BY <1>5, <1>9 DEF SyncInv
    <2>2. view' = "app" => UpToDate'
      <3> SUFFICES ASSUME view = "app" PROVE UpToDate'
        BY <1>2
      <3>1. UpToDate
        BY <2>1 DEF KnownInv
      <3>2. \A c \in Calls :
              /\ calls[c].op # "none" => calls'[c] = calls[c] /\ answers'[c] = answers[c]
              /\ calls'[c].op = "rename" /\ calls'[c].id \in DOMAIN records => c \in heldRecs'
        BY <1>1, <1>2, <1>3, <1>6, <3>1 DEF UpToDate
      <3> QED
        BY <1>2, <3>1, <3>2, UpToDateStays
    <2> QED
      BY <1>2, <1>3, <1>4, <2>1, <2>2 DEF KnownInv
  <1> QED
    BY <1>7, <1>8, <1>9 DEF SyncInv

LEMMA SyncUser ==
    ASSUME BInv, SyncInv, User
    PROVE  SyncInv'
  <1>1. CASE RenameFile \/ DeleteFile
    <2>1. PICK call : Send(call) /\ call.op \in {"rename", "delete"} /\ view = "app"
      <3>1. \A i, name : RenameCall(i, name).op = "rename" /\ DeleteCall(i).op = "delete"
        BY DEF RenameCall, DeleteCall
      <3> QED
        BY <1>1, <3>1 DEF RenameFile, DeleteFile
    <2> QED
      BY <2>1, SyncSend
  <1>2. CASE UploadFiles \/ LoginSubmit \/ LogoutClick
    BY <1>2, SyncSend, OtherCalls DEF UploadFiles, LoginSubmit, LogoutClick
  <1>3. CASE Navigate
    BY <1>3, SyncUnchanged DEF Navigate, NavigateTo, indexVars
  <1>4. CASE Reload
    <2> SUFFICES ASSUME adrift' = {} PROVE SyncInv'
      BY <1>4, SyncUnknown DEF Reload
    <2>1. (calls = OnlyList(Calls) /\ answers = NoAnswers /\ adrift = {} /\ sync = "asked"
             /\ view = "blank" => SyncInv)'
      BY LoadedSync, PTL
    <2>2. OnlyList(Calls)' = OnlyList(Calls) /\ NoAnswers' = NoAnswers
      BY <1>4 DEF Reload, OnlyList, ListCall, NoCall, NoAnswers
    <2>3. calls' = OnlyList(Calls)
      <3>1. calls' = [c \in Calls |-> OnlyList(Calls)[c]]
        BY <1>4 DEF Reload
      <3> QED
        BY <3>1 DEF OnlyList
    <2> QED
      BY <1>4, <2>1, <2>2, <2>3 DEF Reload
  <1> QED
    BY <1>1, <1>2, <1>3, <1>4 DEF User

\* What serving a request may do to the files of the list: leave one alone,
\* delete it, or rename it.
LEMMA UpToDateServed ==
    ASSUME UpToDate, NEW c \in Calls,
           UNCHANGED <<records, cookie, calls, heldRecs>>,
           \A d \in Calls \ {c} : answers'[d] = answers[d],
           answers[c].status # "ok",
           \A i \in Mine' : Renames(c, i) => Renames(c, i)',
           \A i \in DOMAIN records :
              \/ i \in Mine /\ i \in Mine' /\ Entry(i)' = Entry(i)
              \/ i \notin Mine /\ i \notin Mine'
              \/ i \notin Mine' /\ Deleting(i)'
              \/ i \in Mine' /\ Renames(c, i)',
           Mine' \subseteq Mine \/ Uploading
    PROVE  UpToDate'
  <1>1. \A i : Deleting(i) => Deleting(i)'
    BY DEF Deleting
  <1>2. Uploading => Uploading'
    BY DEF Uploading
  <1>3. \A i \in Mine' : \A d \in Calls : Renames(d, i) => Renames(d, i)'
    BY DEF Renames
  <1>4. ListOn' /\ DOMAIN records' = DOMAIN records
    BY DEF UpToDate, ListOn
  <1>5. \A i \in DOMAIN records' \ Mine' : Deleting(i)'
    BY <1>1 DEF UpToDate
  <1>6. \A i \in Mine' \ DOMAIN records' : Uploading'
    BY <1>2 DEF UpToDate
  <1>7. ASSUME NEW i \in Mine' \cap DOMAIN records
        PROVE  records'[i] = Entry(i)' \/ \E d \in Calls : Renames(d, i)'
    BY <1>3 DEF UpToDate
  <1> QED
    BY <1>4, <1>5, <1>6, <1>7 DEF UpToDate

\* What it may do to the names of the files that are being renamed.
ServedRows(c) ==
    /\ answers[c].status # "ok"
    /\ \A i \in Mine' : Renames(c, i) => Renames(c, i)'
    /\ \A i \in DOMAIN records :
          \/ i \in Mine /\ i \in Mine' /\ Entry(i)' = Entry(i)
          \/ i \notin Mine /\ i \notin Mine'
          \/ i \notin Mine' /\ Deleting(i)'
          \/ i \in Mine' /\ Renames(c, i)'
    /\ Mine' \subseteq Mine \/ Uploading
    /\ \A d \in Calls \ {c} :
          calls[d].op = "rename" /\ calls[d].id \in DOMAIN files' =>
             /\ calls[d].id \in DOMAIN files
             /\ files'[calls[d].id].filename = files[calls[d].id].filename
    /\ calls[c].op = "rename" /\ answers'[c].status = "ok" /\ calls[c].id \in DOMAIN files' =>
          answers'[c].body = files'[calls[c].id].filename

LEMMA ServeRows ==
    ASSUME BInv, Apart, NEW c \in Calls, Serve(c), ~RereadFails(c)
    PROVE  ServedRows(c)
  <1>1. UNCHANGED <<cookie, records, calls>> /\ DOMAIN answers = Calls
    BY DEF Serve, BInv, CallsInv
  <1>2. NoAnswer.status = "none" /\ Rereading.status = "rereading"
        /\ Unauthorized.status = "unauthorized" /\ Failed.status = "failed"
    BY DEF NoAnswer, Rereading, Unauthorized, Failed
  <1>3. /\ lastId \in Nat /\ DOMAIN files \subseteq 1..lastId
        /\ \A i \in DOMAIN records : i \in 0..lastId
        /\ \A d \in Calls : calls[d].op \in {"rename", "delete"} => calls[d].id \in 1..lastId
    BY DEF BInv, TableInv, TabInv, KnownList, Known, CallsInv, CallInv, ListOn, NotAList
  <1>4. CASE UNCHANGED files /\ answers[c] = NoAnswer
                            /\ (calls[c].op = "rename" => answers'[c].status # "ok")
    <2>1. Mine' = Mine /\ \A i : Entry(i)' = Entry(i)
      BY <1>1, <1>4 DEF Mine, Entry
    <2>2. \A i : ~Renames(c, i)
      BY <1>2, <1>4 DEF Renames
    <2> QED
      BY <1>2, <1>4, <2>1, <2>2 DEF ServedRows
  <1>5. CASE ServeList(c) \/ ServeSession(c) \/ Reject(c) \/ Refuse(c)
    <2>1. UNCHANGED files /\ answers[c] = NoAnswer
      BY <1>5 DEF ServeList, ServeSession, Reject, Refuse, Waiting, indexVars
    <2>2. calls[c].op = "rename" => answers'[c].status # "ok"
      BY <1>1, <1>2, <1>5 DEF ServeList, ServeSession, Reject, Refuse, Waiting, Answer
    <2> QED
      BY <1>4, <2>1, <2>2
  <1>6. CASE ServeUpload(c)
    <2>1. calls[c].op = "upload" /\ answers[c] = NoAnswer
      BY <1>6 DEF ServeUpload, Waiting
    <2>2. CASE UNCHANGED indexVars
      BY <1>4, <2>1, <2>2 DEF indexVars
    <2>3. CASE ~UNCHANGED indexVars
      <3>1. PICK row : Insert(row)
        BY <1>6, <2>3 DEF ServeUpload, ApplyUpload
      <3>2. \A i \in 0..lastId : /\ i \in DOMAIN files' <=> i \in DOMAIN files
                                 /\ i \in DOMAIN files => files'[i] = files[i]
        BY <1>3, <3>1 DEF Insert
      <3>3. \A i \in 0..lastId : /\ i \in Mine' <=> i \in Mine
                                 /\ i \in Mine => Entry(i)' = Entry(i)
        BY <1>1, <3>2 DEF Mine, Entry
      <3>4. Uploading
        BY <2>1 DEF Uploading
      <3>5. \A i : ~Renames(c, i)
        BY <2>1 DEF Renames
      <3> QED
        BY <1>2, <1>3, <2>1, <3>2, <3>3, <3>4, <3>5 DEF ServedRows
    <2> QED
      BY <2>2, <2>3
  <1>7. CASE ServeRename(c)
    <2>0. PICK id : id = calls[c].id
      OBVIOUS
    <2>1. /\ calls[c].op = "rename" /\ answers[c] = NoAnswer /\ answers'[c] = Rereading
          /\ id \in DOMAIN files
          /\ files' = [files EXCEPT ![id] = [@ EXCEPT !.filename = calls[c].name]]
      BY <1>1, <1>7, <2>0 DEF ServeRename, ApplyRename, Waiting, Answer, RenameRow
    <2>2. /\ DOMAIN files' = DOMAIN files
          /\ \A i \in DOMAIN files : i # id => files'[i] = files[i]
          /\ files'[id].owner = files[id].owner
      <3>1. IsRow(files[id])
        BY <2>1 DEF BInv, TableInv
      <3> QED
        BY <2>1, <3>1 DEF IsRow
    <2>3. Mine' = Mine
      BY <1>1, <2>1, <2>2 DEF Mine
    <2>4. \A i \in Mine : i # id => Entry(i)' = Entry(i)
      BY <2>2 DEF Mine, Entry
    <2>5. Renames(c, id)' /\ \A i : ~Renames(c, i)
      BY <1>1, <1>2, <2>0, <2>1 DEF Renames
    <2>6. \A d \in Calls \ {c} : calls[d].op = "rename" => calls[d].id # id
      BY <2>0, <2>1, IndependentFacts, NoCallOp DEF Apart
    <2> QED
      BY <1>2, <2>1, <2>2, <2>3, <2>4, <2>5, <2>6 DEF ServedRows
  <1>8. CASE ServeReread(c)
    <2>1. /\ UNCHANGED files /\ calls[c].op = "rename" /\ answers[c] = Rereading
          /\ answers'[c] = IF calls[c].id \in DOMAIN files
                           THEN Ok(files[calls[c].id].filename) ELSE Failed
      BY <1>1, <1>8 DEF ServeReread, Answer, indexVars
    <2>2. Mine' = Mine /\ \A i : Entry(i)' = Entry(i)
      BY <1>1, <2>1 DEF Mine, Entry
    <2>3. \A i \in Mine : Renames(c, i) => Renames(c, i)'
      BY <1>1, <2>1 DEF Renames, Mine, Ok
    <2>4. answers'[c].status = "ok" => answers'[c].body = files[calls[c].id].filename
      BY <1>2, <2>1 DEF Ok
    <2> QED
      BY <1>2, <2>1, <2>2, <2>3, <2>4 DEF ServedRows
  <1>9. CASE ServeDelete(c)
    <2>0. PICK id : id = calls[c].id
      OBVIOUS
    <2>1. /\ calls[c].op = "delete" /\ answers[c] = NoAnswer /\ answers'[c] = Ok({})
          /\ files' = Restrict(files, DOMAIN files \ {id})
      BY <1>1, <1>9, <2>0 DEF ServeDelete, ApplyDelete, Waiting, Answer, DeleteRow
    <2>2. /\ DOMAIN files' = DOMAIN files \ {id}
          /\ \A i \in DOMAIN files' : files'[i] = files[i]
      BY <2>1 DEF Restrict
    <2>3. Mine' = Mine \ {id}
      BY <1>1, <2>2 DEF Mine
    <2>4. \A i \in Mine' : Entry(i)' = Entry(i)
      BY <2>2, <2>3 DEF Mine, Entry
    <2>5. Deleting(id)' /\ \A i : ~Renames(c, i)
      BY <1>1, <2>0, <2>1 DEF Deleting, Renames, Ok
    <2> QED
      BY <1>2, <2>1, <2>2, <2>3, <2>4, <2>5 DEF ServedRows
  <1> QED
    BY <1>5, <1>6, <1>7, <1>8, <1>9 DEF Serve

LEMMA SyncServe ==
    ASSUME BInv, SyncInv, NEW c \in Calls, Serve(c)
    PROVE  SyncInv'
  <1> SUFFICES ASSUME ~RereadFails(c) PROVE SyncInv'
    BY SyncUnknown DEF RereadFails
  <1>1. UNCHANGED <<cookie, view, records, calls, heldRecs, adrift, sync>>
    BY DEF Serve
  <1>2. \A d \in Calls \ {c} : answers'[d] = answers[d]
    BY ServeIndex DEF BInv, CallsInv
  <1>3. CASE sync = "unknown"
    BY <1>1, <1>3, SyncUnknown
  <1>4. CASE sync = "asked"
    <2>1. AskedInv /\ Apart
      BY <1>4 DEF SyncInv
    <2>2. calls[c].op \in {"list", "login"}
      BY <2>1, NoCallOp, ServeIndex DEF AskedInv
    <2>3. UNCHANGED files
      BY <2>2 DEF Serve, ServeList, ServeUpload, ServeRename, ServeReread, ServeDelete,
                  ServeSession, Reject, Refuse, Waiting, indexVars
    <2>4. ListFor(cookie)' = ListFor(cookie)
      BY <1>1, <2>3 DEF ListFor, Entry
    <2>5. calls[c].op = "list" /\ answers'[c].status = "ok" =>
             answers'[c].body = ListFor(cookie)
      <3>1. Unauthorized.status # "ok" /\ Failed.status # "ok"
        BY DEF Unauthorized, Failed
      <3>2. Ok(ListFor(cookie)).body = ListFor(cookie) /\ DOMAIN answers = Calls
        BY DEF Ok, BInv, CallsInv
      <3>3. calls[c].op = "list" => calls[c].by = cookie
        BY <2>1 DEF AskedInv
      <3> QED
        BY <3>1, <3>2, <3>3
           DEF Serve, ServeList, ServeUpload, ServeRename, ServeReread, ServeDelete,
               ServeSession, Reject, Refuse, Waiting, Answer
    <2>6. AskedInv'
      BY <1>1, <1>2, <2>1, <2>4, <2>5 DEF AskedInv
    <2> QED
      BY <1>1, <1>4, <2>1, <2>6 DEF SyncInv, Apart
  <1>5. CASE sync = "known"
    <2>1. KnownInv /\ Apart
      BY <1>5 DEF SyncInv
    <2>2. ServedRows(c)
      BY <2>1, ServeRows
    <2>3. view' = "app" => UpToDate'
      BY <1>1, <1>2, <2>1, <2>2, UpToDateServed DEF KnownInv, ServedRows
    <2>4. KnownInv'
      BY <1>1, <1>2, <2>1, <2>2, <2>3 DEF KnownInv, ServedRows
    <2> QED
      BY <1>1, <1>5, <2>1, <2>4 DEF SyncInv, Apart
  <1>6. CASE sync \notin {"unknown", "asked", "known"}
    BY <1>1, <1>6 DEF SyncInv, Apart
  <1> QED
    BY <1>3, <1>4, <1>5, <1>6

\* The handlers that end without touching the list.
LEMMA SyncDrop ==
    ASSUME BInv, SyncInv, NEW c \in Calls, Drop(c),
           UNCHANGED <<files, records, adrift, sync>>,
           \/ view' = "login" /\ (cookie' = cookie \/ calls[c].op = "logout")
           \/ /\ UNCHANGED <<view, cookie>>
              /\ answers[c].status = "failed"
              /\ calls[c].op \in {"rename", "delete", "login"}
    PROVE  SyncInv'
  <1>1. /\ calls'[c] = NoCall /\ answers'[c] = NoAnswer
        /\ \A d \in Calls \ {c} : calls'[d] = calls[d] /\ answers'[d] = answers[d]
        /\ heldRecs' = heldRecs \ {c}
    BY DEF Drop, Resend, BInv, CallsInv
  <1>2. NoCall.op = "none" /\ NoAnswer.status = "none"
    BY DEF NoCall, NoAnswer
  <1>3. sync # "unknown" => Apart' /\ adrift' = {}
    BY <1>1 DEF SyncInv, Apart
  <1>4. ASSUME sync = "asked" PROVE AskedInv'
    <2>1. AskedInv
      BY <1>4 DEF SyncInv
    <2>2. cookie' = cookie
      <3>1. calls[c].op # "logout"
        BY <2>1, NoCallOp DEF AskedInv
      <3> QED
        BY <3>1
    <2>3. ListFor(cookie)' = ListFor(cookie)
      BY <2>2 DEF ListFor, Entry
    <2> QED
      BY <1>1, <1>2, <2>1, <2>2, <2>3 DEF AskedInv
  <1>5. ASSUME sync = "known" PROVE KnownInv'
    <2>1. KnownInv
      BY <1>5 DEF SyncInv
    <2>2. view' = "app" => UpToDate'
      BY <1>1, <1>2, <2>1, UpToDateStays DEF KnownInv, UpToDate
    <2> QED
      BY <1>1, <1>2, <2>1, <2>2 DEF KnownInv
  <1> QED
    BY <1>3, <1>4, <1>5 DEF SyncInv

LEMMA SyncNextOfBatch ==
    ASSUME BInv, SyncInv, NEW c \in Calls, NextOfBatch(c), calls[c].op = "upload",
           UNCHANGED <<files, cookie, records, heldRecs, adrift>>, c \notin adrift,
           view' \in {view, "login"}
    PROVE  SyncInv'
  <1> SUFFICES ASSUME sync' # "unknown" PROVE SyncInv'
    BY SyncUnknown
  <1>1. PICK call :
           /\ \/ call = ListCall
              \/ call.op = "upload"
           /\ Resend(c, call) /\ sync' = SyncAfterSending(c, call)
    BY DEF NextOfBatch, NextCall, UploadCall
  <1>2. /\ calls'[c] = call /\ answers'[c] = NoAnswer
        /\ \A d \in Calls \ {c} : calls'[d] = calls[d] /\ answers'[d] = answers[d]
    BY <1>1 DEF Resend, BInv, CallsInv
  <1>3. CASE call = ListCall
    <2>1. call.op = "list" /\ call.by = cookie'
      BY <1>3 DEF ListCall
    <2> QED
      BY <1>1, <1>2, <2>1, AskedAlone
  <1>4. CASE call.op = "upload"
    <2>1. /\ \A d \in Calls \ {c} : calls[d] # NoCall => Independent(call, calls[d])
          /\ sync' = sync
      BY <1>1, <1>4, SentApart
    <2>2. Apart' /\ adrift' = {}
      BY <1>2, <2>1, IndependentFacts DEF SyncInv, Apart
    <2>3. sync # "asked"
      BY NoCallOp DEF SyncInv, AskedInv
    <2>4. ASSUME sync = "known" PROVE KnownInv'
      <3>1. KnownInv
        BY <2>4 DEF SyncInv
      <3>2. view' = "app" => UpToDate'
        BY <1>2, <1>4, <3>1, UpToDateStays DEF KnownInv, UpToDate
      <3> QED
        BY <1>2, <1>4, <3>1, <3>2 DEF KnownInv
    <2> QED
      BY <2>1, <2>2, <2>3, <2>4 DEF SyncInv
  <1> QED
    BY <1>1, <1>3, <1>4

\* A list that was asked for alone is what the server has.
LEMMA SyncListed ==
    ASSUME BInv, SyncInv, NEW c \in Calls, Listed(c), UNCHANGED <<files, adrift>>
    PROVE  SyncInv'
  <1>1. CASE ShowLogin(c)
    BY <1>1, SyncDrop DEF ShowLogin, historyVars
  <1>2. CASE ~ShowLogin(c) /\ Status(c) = "failed"
    BY <1>2, SyncUnknown DEF Listed
  <1>3. CASE ~ShowLogin(c) /\ Status(c) = "ok" /\ sync = "asked"
    <2>1. /\ calls[c].op = "list" /\ answers[c].status = "ok"
          /\ records' = answers[c].body /\ cookie' = cookie
          /\ Resend(c, NoCall) /\ sync' = "known"
      BY <1>3 DEF Listed, Answered, Status
    <2>2. answers[c].body = ListFor(cookie)
      BY <1>3, <2>1 DEF SyncInv, AskedInv
    <2>3. \A d \in Calls : calls'[d] = NoCall
      <3>1. \A d \in Calls \ {c} : calls[d] = NoCall
        BY <1>3, <2>1, IndependentFacts, NoCallOp DEF SyncInv, Apart
      <3> QED
        BY <2>1, <3>1 DEF Resend, BInv, CallsInv
    <2>4. DOMAIN records' = Mine' /\ \A i \in Mine' : records'[i] = Entry(i)'
      BY <2>1, <2>2 DEF ListFor, Mine, Entry
    <2>5. ListOn'
      <3>1. 0 \notin DOMAIN records'
        BY <2>4 DEF Mine, BInv, TableInv
      <3> QED
        BY <3>1 DEF ListOn, NotAList
    <2>6. UpToDate'
      BY <2>3, <2>4, <2>5, NoCallOp DEF UpToDate
    <2>7. KnownInv'
      BY <2>3, <2>6, NoCallOp DEF KnownInv
    <2>8. Apart' /\ adrift' = {}
      BY <1>3, <2>3 DEF SyncInv, Apart
    <2> QED
      BY <2>1, <2>7, <2>8 DEF SyncInv
  <1>4. CASE ~ShowLogin(c) /\ Status(c) = "ok" /\ sync # "asked"
    <2>1. calls[c].op = "list" /\ sync' = sync
      BY <1>4 DEF Listed, Answered
    <2>2. sync # "known"
      BY <2>1 DEF SyncInv, KnownInv
    <2>3. \A d \in Calls \ {c} : calls'[d] = calls[d]
      BY <1>4 DEF Listed, Resend, BInv, CallsInv
    <2>4. calls'[c] = NoCall
      BY <1>4 DEF Listed, Resend, BInv, CallsInv
    <2>5. sync # "unknown" => Apart' /\ adrift' = {}
      BY <2>3, <2>4 DEF SyncInv, Apart
    <2> QED
      BY <1>4, <2>1, <2>2, <2>5 DEF SyncInv
  <1> QED
    BY <1>1, <1>2, <1>3, <1>4 DEF Listed

\* A renaming or deletion has been answered: the list shows it from now on.
LEMMA SyncChanged ==
    ASSUME BInv, SyncInv, NEW c \in Calls, Drop(c), calls[c].op \in {"rename", "delete"},
           UNCHANGED <<files, cookie, view, adrift, sync>>,
           sync = "known" /\ UpToDate => UpToDate'
    PROVE  SyncInv'
  <1>1. /\ calls'[c] = NoCall /\ answers'[c] = NoAnswer
        /\ \A d \in Calls \ {c} : calls'[d] = calls[d] /\ answers'[d] = answers[d]
    BY DEF Drop, Resend, BInv, CallsInv
  <1>2. NoCall.op = "none" /\ NoAnswer.status = "none"
    BY DEF NoCall, NoAnswer
  <1>3. sync # "unknown" => Apart' /\ adrift' = {}
    BY <1>1 DEF SyncInv, Apart
  <1>4. sync # "asked"
    BY NoCallOp DEF SyncInv, AskedInv
  <1>5. sync = "known" => KnownInv'
    BY <1>1, <1>2 DEF SyncInv, KnownInv
  <1> QED
    BY <1>3, <1>4, <1>5 DEF SyncInv

LEMMA ListKeptOn ==
    ASSUME BInv, ListOn, DOMAIN records' \subseteq DOMAIN records
    PROVE  ListOn'
  <1>1. 0 \notin DOMAIN records
    BY DEF BInv, TableInv, TabInv, KnownList, Known
  <1> QED
    BY <1>1 DEF ListOn, NotAList

LEMMA SyncRenamed ==
    ASSUME BInv, SyncInv, NEW c \in Calls, Renamed(c), UNCHANGED <<files, adrift>>
    PROVE  SyncInv'
  <1>1. CASE ShowLogin(c) \/ Alert(c)
    BY <1>1, SyncDrop DEF ShowLogin, Alert, Renamed, Answered, Status, historyVars
  <1>2. CASE ~(ShowLogin(c) \/ Alert(c))
    <2>0. PICK i, name : i = calls[c].id /\ name = answers[c].body
      OBVIOUS
    <2>1. /\ Drop(c) /\ UNCHANGED <<cookie, view, sync>>
          /\ calls[c].op = "rename" /\ answers[c].status = "ok"
          /\ records' = IF ListOn /\ c \in heldRecs
                        THEN Renaming(records, i, name) ELSE records
      BY <1>2, <2>0 DEF Renamed, Answered, Status
    <2>2. ASSUME sync = "known", UpToDate PROVE UpToDate'
      <3>1. /\ calls'[c] = NoCall /\ heldRecs' = heldRecs \ {c}
            /\ \A d \in Calls \ {c} : calls'[d] = calls[d] /\ answers'[d] = answers[d]
        BY <2>1 DEF Drop, Resend, BInv, CallsInv
      <3>2. /\ DOMAIN records' = DOMAIN records
            /\ \A j \in DOMAIN records \ {i} : records'[j] = records[j]
        BY <2>1 DEF Renaming
      <3>3. ListOn' /\ Mine' = Mine /\ \A j : Entry(j)' = Entry(j)
        BY <2>1, <2>2, <3>2, ListKeptOn DEF UpToDate, Mine, Entry
      <3>4. i \in Mine \cap DOMAIN records => records'[i] = Entry(i)
        <4> SUFFICES ASSUME i \in Mine, i \in DOMAIN records PROVE records'[i] = Entry(i)
          OBVIOUS
        <4>1. c \in heldRecs /\ ListOn
          BY <2>0, <2>1, <2>2 DEF UpToDate
        <4>2. name = files[i].filename
          BY <2>0, <2>1, <2>2 DEF SyncInv, KnownInv, Mine
        <4>3. records[i].path = files[i].path
          BY <4>1 DEF BInv, TabInv, KnownList, Known, Mine
        <4> QED
          BY <2>1, <4>1, <4>2, <4>3 DEF Renaming, Entry
      <3>5. \A j : Deleting(j) => Deleting(j)'
        BY <2>1, <3>1 DEF Deleting
      <3>6. Uploading => Uploading'
        BY <2>1, <3>1 DEF Uploading
      <3>7. \A j : j # i => \A d \in Calls : Renames(d, j) => Renames(d, j)'
        BY <2>0, <3>1 DEF Renames
      <3>8. \A d \in Calls : calls'[d].op = "rename" /\ calls'[d].id \in DOMAIN records' =>
                                d \in heldRecs'
        BY <2>2, <3>1, <3>2, NoCallOp DEF UpToDate
      <3>9. \A j \in Mine \cap DOMAIN records :
               records'[j] = Entry(j) \/ \E d \in Calls : Renames(d, j)'
        BY <2>2, <3>2, <3>4, <3>7 DEF UpToDate
      <3> QED
        BY <2>2, <3>2, <3>3, <3>5, <3>6, <3>8, <3>9 DEF UpToDate
    <2> QED
      BY <2>1, <2>2, SyncChanged
  <1> QED
    BY <1>1, <1>2

LEMMA SyncDeleted ==
    ASSUME BInv, SyncInv, DeletedGone, NEW c \in Calls, Deleted(c),
           UNCHANGED <<files, adrift>>
    PROVE  SyncInv'
  <1>1. CASE ShowLogin(c) \/ Alert(c)
    BY <1>1, SyncDrop DEF ShowLogin, Alert, Deleted, Answered, Status, historyVars
  <1>2. CASE ~(ShowLogin(c) \/ Alert(c))
    <2>0. PICK i : i = calls[c].id
      OBVIOUS
    <2>1. /\ Drop(c) /\ UNCHANGED <<cookie, view, sync>>
          /\ calls[c].op = "delete" /\ answers[c].status = "ok"
          /\ ListOn => records' = Without(records, i)
      BY <1>2, <2>0 DEF Deleted, Answered, Status
    <2>2. ASSUME sync = "known", UpToDate PROVE UpToDate'
      <3>1. /\ calls'[c] = NoCall /\ heldRecs' = heldRecs \ {c}
            /\ \A d \in Calls \ {c} : calls'[d] = calls[d] /\ answers'[d] = answers[d]
        BY <2>1 DEF Drop, Resend, BInv, CallsInv
      <3>2. /\ DOMAIN records' = DOMAIN records \ {i}
            /\ \A j \in DOMAIN records' : records'[j] = records[j]
        BY <2>1, <2>2 DEF UpToDate, Without, Restrict
      <3>3. ListOn' /\ Mine' = Mine /\ \A j : Entry(j)' = Entry(j)
        BY <2>1, <2>2, <3>2, ListKeptOn DEF UpToDate, Mine, Entry
      <3>4. i \notin Mine
        BY <2>0, <2>1 DEF DeletedGone, Mine
      <3>5. \A j : j # i /\ Deleting(j) => Deleting(j)'
        BY <2>0, <3>1 DEF Deleting
      <3>6. Uploading => Uploading'
        BY <2>1, <3>1 DEF Uploading
      <3>7. \A j : \A d \in Calls : Renames(d, j) => Renames(d, j)'
        BY <2>1, <3>1 DEF Renames
      <3>8. \A d \in Calls : calls'[d].op = "rename" /\ calls'[d].id \in DOMAIN records' =>
                                d \in heldRecs'
        BY <2>2, <3>1, <3>2, NoCallOp DEF UpToDate
      <3> QED
        BY <2>2, <3>2, <3>3, <3>4, <3>5, <3>6, <3>7, <3>8 DEF UpToDate
    <2> QED
      BY <2>1, <2>2, SyncChanged
  <1> QED
    BY <1>1, <1>2

LEMMA SyncLoggedIn ==
    ASSUME BInv, SyncInv, NEW c \in Calls, LoggedIn(c), UNCHANGED <<files, adrift>>,
           c \notin adrift
    PROVE  SyncInv'
  <1>1. CASE Alert(c)
    BY <1>1, SyncDrop DEF Alert, LoggedIn, Answered, Status, historyVars
  <1>2. CASE ~Alert(c)
    <2> DEFINE call == [op |-> "list", by |-> calls[c].user]
    <2>1. /\ Resend(c, call) /\ cookie' = calls[c].user
          /\ sync' = SyncAfterSending(c, ListCall)
      BY <1>2 DEF LoggedIn
    <2>2. call.op = "list" /\ call.by = cookie' /\ ListCall.op = "list"
      BY <2>1 DEF ListCall
    <2> HIDE DEF call
    <2>3. /\ calls'[c] = call /\ answers'[c] = NoAnswer
          /\ \A d \in Calls \ {c} : calls'[d] = calls[d]
      BY <2>1 DEF Resend, BInv, CallsInv
    <2> QED
      BY <2>1, <2>2, <2>3, AskedAlone
  <1> QED
    BY <1>1, <1>2

LEMMA SyncStep ==
    ASSUME BInv, SyncInv, DeletedGone, [BrowserNext]_browserVars
    PROVE  SyncInv'
  <1>1. CASE Rest \/ UNCHANGED browserVars
    BY <1>1, SyncUnchanged DEF Rest, browserVars, tabVars, callVars, historyVars, indexVars
  <1>2. CASE Others
    BY <1>2, SyncUnknown DEF Others
  <1>3. ASSUME NEW c \in Calls, Deliver(c) PROVE SyncInv'
    <2>1. UNCHANGED <<files, adrift>> /\ c \notin adrift
      BY <1>3, AnsweredSlot DEF Deliver, indexVars
    <2>2. CASE Uploaded(c)
      BY <2>1, <2>2, SyncNextOfBatch DEF Uploaded, Answered
    <2>3. CASE LoggedOut(c)
      BY <2>1, <2>3, SyncDrop DEF LoggedOut, Answered, historyVars
    <2> QED
      BY <1>3, <2>1, <2>2, <2>3, SyncListed, SyncRenamed, SyncDeleted, SyncLoggedIn DEF Deliver
  <1>4. ASSUME NEW c \in Calls, Lose(c) PROVE SyncInv'
    <2>1. UNCHANGED <<files, cookie, view, records>> /\ c \notin adrift
      BY <1>4 DEF Lose, indexVars
    <2>2. CASE NeverAnswered(c)
      BY <2>1, <2>2, SyncNextOfBatch, SyncUnknown DEF NeverAnswered
    <2>3. CASE LeftAdrift(c)
      BY <2>3, SyncUnknown DEF LeftAdrift
    <2> QED
      BY <1>4, <2>2, <2>3 DEF Lose
  <1>5. ASSUME NEW c \in Calls, ServeAdrift(c) PROVE SyncInv'
    <2>1. sync' = sync /\ adrift # {}
      BY <1>5 DEF ServeAdrift, historyVars
    <2> QED
      BY <2>1, SyncUnknown DEF SyncInv
  <1> QED
    BY <1>1, <1>2, <1>3, <1>4, <1>5, SyncUser, SyncServe DEF BrowserNext

\* ListInSync: at rest, a list that was asked for alone and everything
\* answered since make up what the server would list, without asking again.
THEOREM TabKnowsItsFiles == BrowserSpec => []ListInSync
  <1> DEFINE Inv == BInv /\ PaintInv /\ DeletedGone /\ SyncInv
  <1>1. BrowserInit => Inv
    <2> SUFFICES ASSUME BrowserInit PROVE DeletedGone /\ SyncInv
      BY InvInit, PaintInit
    <2>1. SyncInv
      BY LoadedSync DEF BrowserInit
    <2>2. DeletedGone
      BY DEF BrowserInit, NoAnswers, NoAnswer, DeletedGone
    <2> QED
      BY <2>1, <2>2
  <1>2. Inv /\ [BrowserNext]_browserVars => Inv'
    BY InvStep, PaintStep, GoneStep, SyncStep
  <1>3. Inv => ListInSync
    <2> SUFFICES ASSUME Inv, Idle, sync = "known", view = "app"
                 PROVE  records = ListFor(cookie)
      BY DEF ListInSync
    <2>1. UpToDate /\ \A c \in Calls : calls[c].op = "none"
      BY NoCallOp DEF SyncInv, KnownInv, Idle
    <2>2. DOMAIN records = Mine /\ \A i \in Mine : records[i] = Entry(i)
      BY <2>1 DEF UpToDate, Deleting, Uploading, Renames
    <2>3. records = [i \in DOMAIN records |-> records[i]]
      BY <2>1 DEF UpToDate, PaintInv, ListsAreLists, IsList
    <2>4. ListFor(cookie) = [i \in Mine |-> Entry(i)]
      BY DEF ListFor, Mine
    <2> QED
      BY <2>2, <2>3, <2>4
  <1> HIDE DEF Inv
  <1> QED
    BY <1>1, <1>2, <1>3, PTL DEF BrowserSpec

-----------------------------------------------------------------------------
(* Type correctness: every path that is stored, listed or opened is made of *)
(* the segments there are.                                                  *)

CallTyped(c) == IsCall(calls[c], Ids) /\ IsAnswer(answers[c], calls[c].op, Ids)

FilesTyped == files \in [DOMAIN files -> Record]

ListsTyped ==
    /\ ListOn => IsListing(records, Ids)
    /\ IsScreen(shown, Ids)
    /\ current \in Openable

TabTyped ==
    /\ view \in {"blank", "login", "app"}
    /\ sync \in {"unknown", "asked", "known"}
    /\ unpainted \in BOOLEAN

TypedInv ==
    /\ FilesTyped
    /\ ListsTyped
    /\ TabTyped
    /\ \A c \in Calls : CallTyped(c)

\* A request with its fields.
LEMMA CallFields ==
    ASSUME NEW call, NEW ids, IsCall(call, ids)
    PROVE  /\ call.op \in {"none", "list", "upload", "rename", "delete", "login", "logout"}
           /\ call.op = "login" => call.user \in Profiles
           /\ call.op = "rename" => call.name \in Names
           /\ call.op = "upload" =>
                 /\ call.by \in Cookies /\ call.folder \in Openable
                 /\ call.file \in Uploads /\ call.rest \in Seq(Uploads)
  BY DEF IsCall, NoCall, LogoutCall

\* An answer with its body.
LEMMA AnswerFields ==
    ASSUME NEW answer, NEW op, NEW ids, IsAnswer(answer, op, ids), answer.status = "ok"
    PROVE  /\ op = "list" => IsListing(answer.body, ids)
           /\ op = "rename" => answer.body \in Names
  <1>1. /\ NoAnswer.status # "ok" /\ Failed.status # "ok"
        /\ Unauthorized.status # "ok" /\ Rereading.status # "ok"
    BY DEF NoAnswer, Failed, Unauthorized, Rereading
  <1> QED
    BY <1>1 DEF IsAnswer

\* What is typed stays so when more ids are assigned.
LEMMA Grows ==
    ASSUME NEW ids, NEW more, ids \subseteq more
    PROVE  /\ \A recs : IsListing(recs, ids) => IsListing(recs, more)
           /\ \A screen : IsScreen(screen, ids) => IsScreen(screen, more)
           /\ \A call : IsCall(call, ids) => IsCall(call, more)
           /\ \A answer, op : IsAnswer(answer, op, ids) => IsAnswer(answer, op, more)
  <1>1. \A recs : IsListing(recs, ids) => IsListing(recs, more)
    BY DEF IsListing
  <1>2. \A screen : IsScreen(screen, ids) => IsScreen(screen, more)
    BY <1>1 DEF IsScreen
  <1>3. ASSUME NEW call, IsCall(call, ids) PROVE IsCall(call, more)
    <2>1. CASE call \in [op : {"delete"}, by : Cookies, id : ids, seen : Paths]
      <3>1. call \in [op : {"delete"}, by : Cookies, id : more, seen : Paths]
        BY <2>1
      <3> QED
        BY <3>1 DEF IsCall
    <2>2. CASE call \in [op : {"rename"}, by : Cookies, id : ids, seen : Paths, name : Names]
      <3>1. call \in [op : {"rename"}, by : Cookies, id : more, seen : Paths, name : Names]
        BY <2>2
      <3> QED
        BY <3>1 DEF IsCall
    <2> QED
      BY <1>3, <2>1, <2>2 DEF IsCall
  <1>4. \A answer, op : IsAnswer(answer, op, ids) => IsAnswer(answer, op, more)
    BY <1>1 DEF IsAnswer
  <1> QED
    BY <1>1, <1>2, <1>3, <1>4

LEMMA IdsGrow ==
    ASSUME BInv, Evolves
    PROVE  Ids \subseteq Ids'
  BY DEF Ids, BInv, TableInv, Evolves

LEMMA IdsStay ==
    ASSUME UNCHANGED indexVars
    PROVE  Ids' = Ids /\ files' = files
  BY DEF indexVars, Ids

LEMMA OpenableUploads ==
    ASSUME NEW folder \in Openable, NEW file \in Uploads
    PROVE  UploadPath(folder, file.name) \in Paths
  <1>1. folder \in [1..Len(folder) -> Segments] /\ Len(folder) \in 0..MaxDepth
    BY BrowserAssumption DEF Openable
  <1>2. folder \in BoundedSeq(Segments, MaxDepth)
    BY <1>1 DEF BoundedSeq, SeqOf
  <1> QED
    BY <1>2, UploadsAssumption DEF UploadPath, Normalize

LEMMA Segment ==
    ASSUME NEW s \in Seq(Segments), NEW t \in Seq(Segments), IsStrictPrefix(s, t)
    PROVE  t[Len(s) + 1] \in Segments
  <1> DEFINE A == Segments
  <1>1. Len(s) \in Nat /\ Len(t) \in Nat /\ Len(s) <= Len(t)
    BY DEF IsStrictPrefix, IsPrefix
  <1>2. Len(s) # Len(t)
    <2> SUFFICES ASSUME Len(s) = Len(t) PROVE s = t
      BY DEF IsStrictPrefix
    <2>1. \A k \in 1..Len(s) : SubSeq(s, 1, Len(s))[k] = s[k] /\ SubSeq(t, 1, Len(s))[k] = t[k]
      OBVIOUS
    <2>2. \A k \in 1..Len(s) : s[k] = t[k]
      BY <2>1 DEF IsStrictPrefix, IsPrefix
    <2> HIDE DEF A
    <2> QED
      BY <2>2
  <1> QED
    BY <1>1, <1>2

\* The rows of a listing, and the folder rows derived from its paths.
LEMMA RenderedTyped ==
    ASSUME NEW recs, NEW ids, IsListing(recs, ids), NEW folder \in Openable
    PROVE  IsScreen(Rendered(recs, folder), ids)
  <1>1. ASSUME NEW q \in PathsOf(recs), IsStrictPrefix(folder, Dirname(q))
        PROVE  Dirname(q)[Len(folder) + 1] \in Segments
    <2>1. q \in Paths
      BY DEF PathsOf, IsListing
    <2>2. Dirname(q) \in Seq(Segments) /\ folder \in Seq(Segments)
      BY <2>1, UploadsAssumption DEF Paths, Dirname, Openable
    <2> QED
      BY <1>1, <2>2, Segment
  <1>2. SubFolders(PathsOf(recs), folder) \subseteq Segments
    BY <1>1 DEF SubFolders
  <1> DEFINE rows == Restrict(recs, {i \in DOMAIN recs : Dirname(recs[i].path) = folder})
  <1>3. IsListing(rows, ids)
    BY DEF IsListing, Restrict
  <1>4. Rendered(recs, folder) =
           [files |-> rows, folders |-> SubFolders(PathsOf(recs), folder)]
    BY DEF Rendered
  <1> HIDE DEF rows
  <1> QED
    BY <1>2, <1>3, <1>4 DEF IsScreen

LEMMA NoRecordsTyped ==
    ASSUME NEW ids
    PROVE  IsListing(NoRecords, ids)
  BY DEF IsListing, NoRecords

LEMMA ListingOps ==
    ASSUME NEW recs, NEW ids, IsListing(recs, ids), NEW i, NEW name
    PROVE  /\ name \in Names => IsListing(Renaming(recs, i, name), ids)
           /\ IsListing(Without(recs, i), ids)
  BY DEF IsListing, Renaming, Without, Restrict

LEMMA ListForTyped ==
    ASSUME BInv, FilesTyped, NEW owner
    PROVE  IsListing(ListFor(owner), Ids)
  BY DEF BInv, TableInv, FilesTyped, IsListing, ListFor, Entry, Record, Ids

\* A slot that the step leaves alone, or whose answer it takes.
LEMMA CallTypedStays ==
    ASSUME NEW c, CallTyped(c), calls'[c] = calls[c],
           answers'[c] \in {answers[c], NoAnswer}, Ids \subseteq Ids'
    PROVE  CallTyped(c)'
  <1>1. IsCall(calls[c], Ids') /\ IsAnswer(answers[c], calls[c].op, Ids')
    BY Grows DEF CallTyped
  <1>2. IsAnswer(NoAnswer, calls[c].op, Ids')
    BY DEF IsAnswer
  <1>3. IsCall(calls'[c], Ids') /\ IsAnswer(answers'[c], calls'[c].op, Ids')
    BY <1>1, <1>2
  <1> QED
    BY <1>3 DEF CallTyped

\* A slot that waits from now on, or is free.
LEMMA CallTypedNew ==
    ASSUME NEW c, answers'[c] = NoAnswer, IsCall(calls'[c], Ids')
    PROVE  CallTyped(c)'
  <1>1. IsAnswer(answers'[c], calls'[c].op, Ids')
    BY DEF IsAnswer
  <1> QED
    BY <1>1 DEF CallTyped

LEMMA TypedResend ==
    ASSUME BInv, TypedInv, UNCHANGED indexVars, NEW c \in Calls, NEW call,
           Resend(c, call), IsCall(call, Ids)
    PROVE  \A d \in Calls : CallTyped(d)'
  <1>1. /\ calls'[c] = call /\ answers'[c] = NoAnswer
        /\ \A d \in Calls \ {c} : calls'[d] = calls[d] /\ answers'[d] = answers[d]
    BY DEF Resend, BInv, CallsInv
  <1>2. CallTyped(c)'
    BY <1>1, IdsStay, CallTypedNew
  <1> QED
    BY <1>1, <1>2, IdsStay, CallTypedStays DEF TypedInv

LEMMA SimpleCalls ==
    ASSUME BInv, NEW ids
    PROVE  IsCall(NoCall, ids) /\ IsCall(ListCall, ids)
  BY DEF IsCall, ListCall, BInv, TabInv

\* The next file of a batch goes to the folder that is open by then.
LEMMA NextCallTyped ==
    ASSUME BInv, TypedInv, NEW c \in Calls, calls[c].op = "upload"
    PROVE  IsCall(NextCall(c), Ids)
  <1>0. PICK rest : rest = calls[c].rest
    OBVIOUS
  <1>1. rest \in Seq(Uploads)
    BY <1>0, CallFields DEF TypedInv, CallTyped
  <1>2. CASE rest = <<>>
    BY <1>0, <1>2, SimpleCalls DEF NextCall
  <1>3. CASE rest # <<>>
    <2>1. Head(rest) \in Uploads /\ Tail(rest) \in Seq(Uploads)
      <3> DEFINE A == Uploads
      <3> HIDE DEF A
      <3>1. rest \in Seq(A) => Head(rest) \in A /\ Tail(rest) \in Seq(A)
        BY <1>3
      <3> QED
        BY <1>1, <3>1 DEF A
    <2>2. cookie \in Cookies /\ current \in Openable
      BY DEF BInv, TabInv, TypedInv, ListsTyped
    <2>3. UploadCall(rest) \in [op : {"upload"}, by : Cookies, file : Uploads,
                               folder : Openable, rest : Seq(Uploads)]
      BY <2>1, <2>2 DEF UploadCall
    <2> QED
      BY <1>0, <1>3, <2>3 DEF NextCall, IsCall
  <1> QED
    BY <1>2, <1>3

LEMMA ListsTypedStay ==
    ASSUME ListsTyped, UNCHANGED <<records, shown, current>>, Ids \subseteq Ids'
    PROVE  ListsTyped'
  <1>1. /\ ListOn => IsListing(records, Ids')
        /\ IsScreen(shown, Ids')
    BY Grows DEF ListsTyped
  <1>2. /\ ListOn' => IsListing(records', Ids')
        /\ IsScreen(shown', Ids')
    BY <1>1 DEF ListOn
  <1> QED
    BY <1>2 DEF ListsTyped

LEMMA TypedInit == BrowserInit => TypedInv
  <1> SUFFICES ASSUME BrowserInit PROVE TypedInv
    OBVIOUS
  <1> USE DEF BrowserInit
  <1>1. Root \in Openable
    BY BrowserAssumption DEF Root, Openable
  <1>2. ListsTyped
    BY <1>1, NoRecordsTyped, RenderedTyped DEF ListsTyped
  <1>3. ASSUME NEW c \in Calls PROVE CallTyped(c)
    <2>1. calls[c] \in {ListCall, NoCall} /\ answers[c] = NoAnswer
      BY DEF OnlyList, NoAnswers
    <2>2. IsCall(calls[c], Ids)
      BY <2>1, InvInit, SimpleCalls
    <2> QED
      BY <2>1, <2>2 DEF CallTyped, IsAnswer
  <1>4. FilesTyped
    BY DEF IndexInit, FilesTyped
  <1> QED
    BY <1>2, <1>3, <1>4 DEF TypedInv, TabTyped

LEMMA TypedSend ==
    ASSUME BInv, TypedInv, NEW call, Send(call), IsCall(call, Ids)
    PROVE  TypedInv'
  <1>0. PICK slot : slot = FreeSlot
    OBVIOUS
  <1>1. slot \in Calls /\ calls[slot] = NoCall
    BY <1>0 DEF Send, FreeSlot
  <1>2. answers[slot] = NoAnswer
    BY <1>1, NoCallOp DEF BInv, CallsInv, CallInv
  <1>3. /\ UNCHANGED <<indexVars, view, current, records, shown, answers, unpainted>>
        /\ sync' = SyncAfterSending(slot, call)
    BY <1>0 DEF Send
  <1>4. calls'[slot] = call /\ \A d \in Calls \ {slot} : calls'[d] = calls[d]
    BY <1>0, <1>1 DEF Send, BInv, CallsInv
  <1>5. CallTyped(slot)'
    BY <1>2, <1>3, <1>4, IdsStay, CallTypedNew
  <1>6. \A c \in Calls : CallTyped(c)'
    BY <1>3, <1>4, <1>5, IdsStay, CallTypedStays DEF TypedInv
  <1>7. TabTyped'
    BY <1>3 DEF TypedInv, TabTyped, SyncAfterSending
  <1>8. FilesTyped' /\ ListsTyped'
    BY <1>3, IdsStay, ListsTypedStay DEF TypedInv, FilesTyped
  <1> QED
    BY <1>6, <1>7, <1>8 DEF TypedInv

LEMMA TypedNavigate ==
    ASSUME BInv, TypedInv, Navigate
    PROVE  TypedInv'
  <1>1. PICK folder : NavigateTo(folder) /\ folder \in Seq(Segments)
    <2>1. current \in Seq(Segments) /\ shown.folders \cup NewNames \subseteq Segments
      BY DEF TypedInv, ListsTyped, IsScreen, Openable, Segments
    <2>2. ASSUME NEW name \in Segments PROVE Append(current, name) \in Seq(Segments)
      BY <2>1
    <2>3. ASSUME NEW k \in 0..Len(current) PROVE SubSeq(current, 1, k) \in Seq(Segments)
      BY <2>1
    <2> QED
      BY <2>1, <2>2, <2>3 DEF Navigate
  <1>2. folder \in Openable /\ current' = folder
    BY <1>1 DEF NavigateTo, Openable
  <1>3. /\ UNCHANGED <<indexVars, view, records, calls, answers, sync>>
        /\ unpainted' \in {unpainted, FALSE}
        /\ IF ListOn THEN shown' = Rendered(records, folder) ELSE shown' = shown
    BY <1>1 DEF NavigateTo
  <1>4. IsScreen(shown', Ids)
    BY <1>2, <1>3, RenderedTyped DEF TypedInv, ListsTyped
  <1>5. ListsTyped'
    BY <1>2, <1>3, <1>4, IdsStay DEF TypedInv, ListsTyped, ListOn
  <1>6. FilesTyped' /\ \A c \in Calls : CallTyped(c)'
    BY <1>3, IdsStay, CallTypedStays DEF TypedInv, FilesTyped
  <1>7. TabTyped'
    BY <1>3 DEF TypedInv, TabTyped
  <1> QED
    BY <1>5, <1>6, <1>7 DEF TypedInv

LEMMA TypedReload ==
    ASSUME BInv, TypedInv, Reload
    PROVE  TypedInv'
  <1>0. UNCHANGED indexVars
    BY DEF Reload
  <1>1. Root \in Openable
    BY BrowserAssumption DEF Root, Openable
  <1>2. IsListing(records', Ids') /\ IsScreen(shown', Ids')
    BY <1>1, NoRecordsTyped, RenderedTyped DEF Reload
  <1>3. ListsTyped'
    BY <1>1, <1>2 DEF Reload, ListsTyped
  <1>4. ASSUME NEW c \in Calls PROVE CallTyped(c)'
    <2>1. CASE c \in adrift'
      BY <1>0, <2>1, IdsStay, ReloadCalls, CallTypedStays DEF TypedInv
    <2>2. CASE c \notin adrift'
      <3>1. calls'[c] \in {ListCall, NoCall} /\ answers'[c] = NoAnswer
        BY <2>2, ReloadCalls
      <3> QED
        BY <3>1, SimpleCalls, CallTypedNew
    <2> QED
      BY <2>1, <2>2
  <1>5. FilesTyped' /\ TabTyped'
    BY <1>0, IdsStay DEF Reload, TypedInv, FilesTyped, TabTyped
  <1> QED
    BY <1>3, <1>4, <1>5 DEF TypedInv

LEMMA TypedUser ==
    ASSUME BInv, TypedInv, User
    PROVE  TypedInv'
  <1>0. /\ cookie \in Cookies /\ current \in Openable
        /\ \A i \in DOMAIN shown.files : i \in Ids /\ shown.files[i].path \in Paths
    BY DEF BInv, TabInv, TypedInv, ListsTyped, IsScreen, IsListing
  <1>1. CASE RenameFile
    <2>1. PICK i \in DOMAIN shown.files, name \in Names : Send(RenameCall(i, name))
      BY <1>1 DEF RenameFile
    <2>2. RenameCall(i, name) \in
             [op : {"rename"}, by : Cookies, id : Ids, seen : Paths, name : Names]
      BY <1>0 DEF RenameCall
    <2>3. IsCall(RenameCall(i, name), Ids)
      BY <2>2 DEF IsCall
    <2> QED
      BY <2>1, <2>3, TypedSend
  <1>2. CASE DeleteFile
    <2>1. PICK i \in DOMAIN shown.files : Send(DeleteCall(i))
      BY <1>2 DEF DeleteFile
    <2>2. DeleteCall(i) \in [op : {"delete"}, by : Cookies, id : Ids, seen : Paths]
      BY <1>0 DEF DeleteCall
    <2>3. IsCall(DeleteCall(i), Ids)
      BY <2>2 DEF IsCall
    <2> QED
      BY <2>1, <2>3, TypedSend
  <1>3. CASE UploadFiles
    <2>1. PICK f \in Uploads, rest \in Seq(Uploads) : \E batch :
             Send(UploadCall(batch)) /\ Head(batch) = f /\ Tail(batch) = rest
      <3>1. PICK f \in Uploads, g \in Uploads :
               Send(UploadCall(<<f>>)) \/ Send(UploadCall(<<f, g>>))
        BY <1>3 DEF UploadFiles
      <3>2. /\ Head(<<f>>) = f /\ Tail(<<f>>) = <<>> /\ <<>> \in Seq(Uploads)
            /\ Head(<<f, g>>) = f /\ Tail(<<f, g>>) = <<g>> /\ <<g>> \in Seq(Uploads)
        OBVIOUS
      <3> QED
        BY <3>1, <3>2
    <2>2. PICK batch : Send(UploadCall(batch)) /\ Head(batch) = f /\ Tail(batch) = rest
      BY <2>1
    <2>3. UploadCall(batch) \in [op : {"upload"}, by : Cookies, file : Uploads,
                                folder : Openable, rest : Seq(Uploads)]
      BY <1>0, <2>2 DEF UploadCall
    <2>4. IsCall(UploadCall(batch), Ids)
      BY <2>3 DEF IsCall
    <2> QED
      BY <2>2, <2>4, TypedSend
  <1>4. CASE LoginSubmit \/ LogoutClick
    <2>1. IsCall(LogoutCall, Ids) /\ \A p \in Profiles : IsCall(LoginCall(p), Ids)
      BY DEF IsCall, LoginCall
    <2> QED
      BY <1>4, <2>1, TypedSend DEF LoginSubmit, LogoutClick
  <1>5. CASE Navigate
    BY <1>5, TypedNavigate
  <1>6. CASE Reload
    BY <1>6, TypedReload
  <1> QED
    BY <1>1, <1>2, <1>3, <1>4, <1>5, <1>6 DEF User

\* What a statement stores has its types.
LEMMA InsertTyped ==
    ASSUME FilesTyped, NEW row \in Record, Insert(row)
    PROVE  FilesTyped'
  BY DEF FilesTyped, Insert

LEMMA RenameTyped ==
    ASSUME FilesTyped, NEW i, NEW name \in Names, RenameRow(i, name)
    PROVE  FilesTyped'
  <1>1. files' = [files EXCEPT ![i] = [@ EXCEPT !.filename = name]] /\ i \in DOMAIN files
    BY DEF RenameRow
  <1>2. files[i] \in Record
    BY <1>1 DEF FilesTyped
  <1>3. [files[i] EXCEPT !.filename = name] \in Record
    BY <1>2 DEF Record
  <1> QED
    BY <1>1, <1>3 DEF FilesTyped

LEMMA DeleteTyped ==
    ASSUME FilesTyped, NEW i, DeleteRow(i)
    PROVE  FilesTyped'
  BY DEF FilesTyped, DeleteRow, Restrict

\* What the server does to the index for a request is typed.
LEMMA ApplyTyped ==
    ASSUME FilesTyped, NEW call, NEW ids, IsCall(call, ids),
           \/ call.op = "upload" /\ call.by # NoOne /\ ApplyUpload(call)
           \/ call.op = "rename" /\ ApplyRename(call)
           \/ call.op = "delete" /\ ApplyDelete(call)
    PROVE  FilesTyped'
  <1>1. CASE call.op = "upload" /\ call.by # NoOne /\ ApplyUpload(call)
    <2> DEFINE path == UploadPath(call.folder, call.file.name)
               row == [path |-> path, filename |-> Base(path), owner |-> call.by,
                       hash |-> call.file.hash, message_id |-> 0]
    <2>1. call.file \in Uploads /\ path \in Paths /\ call.by \in Profiles
      BY <1>1, CallFields, OpenableUploads DEF Cookies
    <2>2. call.file.hash \in Hashes
      BY <2>1, UploadsAssumption
    <2>3. row \in Record
      BY <2>1, <2>2 DEF Record, Base, Paths, Owners
    <2>4. UNCHANGED files \/ Insert(row)
      BY <1>1 DEF ApplyUpload, indexVars
    <2> HIDE DEF row
    <2> QED
      BY <2>3, <2>4, InsertTyped DEF FilesTyped
  <1>2. CASE call.op = "rename" /\ ApplyRename(call)
    BY <1>2, CallFields, RenameTyped DEF ApplyRename
  <1>3. CASE call.op = "delete" /\ ApplyDelete(call)
    BY <1>3, DeleteTyped DEF ApplyDelete
  <1> QED
    BY <1>1, <1>2, <1>3

LEMMA ServedAnswer ==
    ASSUME BInv, TypedInv, NEW c \in Calls, Serve(c)
    PROVE  IsAnswer(answers'[c], calls[c].op, Ids)
  <1>0. DOMAIN answers = Calls /\ FilesTyped /\ IsCall(calls[c], Ids)
    BY DEF BInv, CallsInv, TypedInv, CallTyped
  <1>1. ASSUME NEW body PROVE Ok(body).status = "ok" /\ Ok(body).body = body
    BY DEF Ok
  <1>2. CASE ServeList(c)
    <2>1. answers'[c] = Ok(ListFor(calls[c].by)) /\ calls[c].op = "list"
      BY <1>0, <1>2 DEF ServeList, Answer, Waiting
    <2>2. IsListing(ListFor(calls[c].by), Ids)
      BY <1>0, ListForTyped
    <2> QED
      BY <1>1, <2>1, <2>2 DEF IsAnswer
  <1>3. CASE ServeUpload(c) \/ ServeDelete(c) \/ ServeSession(c)
    <2>1. answers'[c] = Ok({}) /\ calls[c].op \in {"upload", "delete", "login", "logout"}
      BY <1>0, <1>3 DEF ServeUpload, ServeDelete, ServeSession, Answer, Waiting
    <2> QED
      BY <1>1, <2>1 DEF IsAnswer
  <1>4. CASE ServeRename(c)
    BY <1>0, <1>4 DEF ServeRename, Answer, Waiting, IsAnswer
  <1>5. CASE ServeReread(c) \/ RereadFails(c)
    <2>1. calls[c].op = "rename"
      BY <1>5 DEF ServeReread, RereadFails
    <2>2. CASE answers'[c] = Failed
      BY <2>1, <2>2 DEF IsAnswer
    <2>3. CASE calls[c].id \in DOMAIN files /\ answers'[c] = Ok(files[calls[c].id].filename)
      <3>1. files[calls[c].id].filename \in Names
        BY <1>0, <2>3 DEF FilesTyped, Record
      <3> QED
        BY <1>1, <2>1, <2>3, <3>1 DEF IsAnswer
    <2> QED
      BY <1>0, <1>5, <2>2, <2>3 DEF ServeReread, RereadFails, Answer
  <1>6. CASE Reject(c) \/ Refuse(c)
    BY <1>0, <1>6 DEF Reject, Refuse, Answer, IsAnswer
  <1> QED
    BY <1>2, <1>3, <1>4, <1>5, <1>6 DEF Serve

LEMMA TypedServe ==
    ASSUME BInv, TypedInv, NEW c \in Calls, Serve(c)
    PROVE  TypedInv'
  <1>1. /\ UNCHANGED <<view, current, records, shown, calls, unpainted>>
        /\ sync' \in {sync, "unknown"}
    BY DEF Serve, RereadFails
  <1>2. \A d \in Calls \ {c} : answers'[d] = answers[d]
    BY ServeIndex DEF BInv, CallsInv
  <1>3. Ids \subseteq Ids'
    BY ServeIndex, IdsGrow
  <1>4. FilesTyped /\ IsCall(calls[c], Ids)
    BY DEF TypedInv, CallTyped
  <1>5. FilesTyped'
    <2>1. CASE ServeUpload(c) \/ ServeRename(c) \/ ServeDelete(c)
      BY <1>4, <2>1, ApplyTyped DEF ServeUpload, ServeRename, ServeDelete, Waiting
    <2> QED
      BY <1>4, <2>1
         DEF Serve, ServeList, ServeReread, RereadFails, ServeSession, Reject, Refuse,
             indexVars, FilesTyped
  <1>6. CallTyped(c)'
    <2>1. IsCall(calls[c], Ids') /\ IsAnswer(answers'[c], calls[c].op, Ids')
      BY <1>3, <1>4, ServedAnswer, Grows
    <2>2. IsCall(calls'[c], Ids') /\ IsAnswer(answers'[c], calls'[c].op, Ids')
      BY <1>1, <2>1
    <2> QED
      BY <2>2 DEF CallTyped
  <1>7. \A d \in Calls : CallTyped(d)'
    BY <1>1, <1>2, <1>3, <1>6, CallTypedStays DEF TypedInv
  <1>8. ListsTyped' /\ TabTyped'
    BY <1>1, <1>3, ListsTypedStay DEF TypedInv, TabTyped
  <1> QED
    BY <1>5, <1>7, <1>8 DEF TypedInv

LEMMA TypedAdrift ==
    ASSUME BInv, TypedInv, NEW c \in Calls, ServeAdrift(c), calls[c].by # NoOne
    PROVE  TypedInv'
  <1>1. UNCHANGED <<view, current, records, shown, sync, unpainted>>
    BY DEF ServeAdrift, historyVars
  <1>2. Ids \subseteq Ids'
    BY AdriftSlot, IdsGrow
  <1>3. FilesTyped'
    BY ApplyTyped DEF TypedInv, CallTyped, ServeAdrift, indexVars, FilesTyped
  <1>4. CallTyped(c)'
    BY AdriftSlot, SimpleCalls, CallTypedNew
  <1>5. \A d \in Calls : CallTyped(d)'
    BY <1>2, <1>4, AdriftSlot, CallTypedStays DEF TypedInv
  <1> QED
    BY <1>1, <1>2, <1>3, <1>5, ListsTypedStay DEF TypedInv, TabTyped

\* A handler that ends without touching the list.
LEMMA TypedDrop ==
    ASSUME BInv, TypedInv, NEW c \in Calls, Drop(c),
           UNCHANGED <<indexVars, current, records, shown>>,
           view' \in {view, "login"}, sync' \in {sync, "unknown"}, unpainted' = unpainted
    PROVE  TypedInv'
  <1>1. \A d \in Calls : CallTyped(d)'
    BY TypedResend, SimpleCalls DEF Drop
  <1> QED
    BY <1>1, IdsStay, ListsTypedStay DEF TypedInv, FilesTyped, TabTyped

LEMMA TypedNextOfBatch ==
    ASSUME BInv, TypedInv, NEW c \in Calls, NextOfBatch(c), calls[c].op = "upload",
           UNCHANGED <<indexVars, current, records, shown>>,
           view' \in {view, "login"}, unpainted' = unpainted
    PROVE  TypedInv'
  <1>1. \A d \in Calls : CallTyped(d)'
    BY NextCallTyped, TypedResend DEF NextOfBatch
  <1>2. TabTyped'
    BY DEF NextOfBatch, SyncAfterSending, TypedInv, TabTyped
  <1> QED
    BY <1>1, <1>2, IdsStay, ListsTypedStay DEF TypedInv, FilesTyped

LEMMA TypedLeft ==
    ASSUME BInv, TypedInv, NEW c \in Calls, LeftAdrift(c),
           UNCHANGED <<indexVars, view, current, records, shown, unpainted>>
    PROVE  TypedInv'
  <1>1. ASSUME NEW d \in Calls PROVE CallTyped(d)'
    <2>1. CASE calls'[d] = calls[d]
      BY <2>1, AdriftCalls, IdsStay, CallTypedStays DEF TypedInv
    <2>2. CASE calls'[d] # calls[d]
      <3>1. calls[d] = NoCall /\ calls'[d] = NextCall(c) /\ calls[c].op = "upload"
        BY <2>2, AdriftCalls
      <3>2. answers'[d] = NoAnswer
        BY <3>1, AdriftCalls, NoCallOp DEF BInv, CallsInv, CallInv
      <3> QED
        BY <3>1, <3>2, NextCallTyped, IdsStay, CallTypedNew
    <2> QED
      BY <2>1, <2>2
  <1>2. sync' = "unknown"
    BY DEF LeftAdrift
  <1> QED
    BY <1>1, <1>2, IdsStay, ListsTypedStay DEF TypedInv, FilesTyped, TabTyped

LEMMA TypedListed ==
    ASSUME BInv, TypedInv, NEW c \in Calls, Listed(c), UNCHANGED indexVars
    PROVE  TypedInv'
  <1>1. CASE ShowLogin(c)
    BY <1>1, TypedDrop DEF ShowLogin, historyVars
  <1>2. CASE ~ShowLogin(c)
    <2>1. \A d \in Calls : CallTyped(d)'
      BY <1>2, TypedResend, SimpleCalls DEF Listed
    <2>2. TabTyped'
      BY <1>2 DEF Listed, TypedInv, TabTyped
    <2>3. CASE Status(c) = "failed"
      <3>1. records' = NotAList /\ UNCHANGED <<current, shown>>
        BY <1>2, <2>3 DEF Listed
      <3> QED
        BY <2>1, <2>2, <3>1, IdsStay DEF TypedInv, FilesTyped, ListsTyped, ListOn, NotAList
    <2>4. CASE Status(c) = "ok"
      <3>1. /\ records' = answers[c].body /\ current' = current
            /\ shown' = Rendered(answers[c].body, current)
        BY <1>2, <2>4 DEF Listed
      <3>2. IsListing(answers[c].body, Ids)
        BY <2>4, AnswerFields DEF Listed, Answered, Status, TypedInv, CallTyped
      <3>3. IsScreen(shown', Ids)
        BY <3>1, <3>2, RenderedTyped DEF TypedInv, ListsTyped
      <3> QED
        BY <2>1, <2>2, <3>1, <3>2, <3>3, IdsStay DEF TypedInv, FilesTyped, ListsTyped
    <2> QED
      BY <1>2, <2>3, <2>4 DEF Listed
  <1> QED
    BY <1>1, <1>2

LEMMA TypedChanged ==
    ASSUME BInv, TypedInv, NEW c \in Calls, Renamed(c) \/ Deleted(c), UNCHANGED indexVars
    PROVE  TypedInv'
  <1>1. CASE ShowLogin(c) \/ Alert(c)
    BY <1>1, TypedDrop DEF ShowLogin, Alert, historyVars
  <1>2. CASE ~(ShowLogin(c) \/ Alert(c))
    <2>1. Drop(c) /\ UNCHANGED <<current, view, sync>>
      BY <1>2 DEF Renamed, Deleted
    <2>2. \A d \in Calls : CallTyped(d)'
      BY <2>1, TypedResend, SimpleCalls DEF Drop
    <2>3. PICK i, name : i = calls[c].id /\ name = answers[c].body
      OBVIOUS
    <2>4. Renamed(c) => name \in Names
      BY <1>2, <2>3, AnswerFields DEF Renamed, Answered, Status, TypedInv, CallTyped
    <2>5. ASSUME NEW recs, IsListing(recs, Ids)
          PROVE  /\ Renamed(c) => IsListing(Renaming(recs, i, name), Ids)
                 /\ IsListing(Without(recs, i), Ids)
      BY <2>4, <2>5, ListingOps
    <2>6. ListOn' => IsListing(records', Ids)
      <3>1. CASE records' = records
        BY <3>1 DEF TypedInv, ListsTyped, ListOn
      <3>2. CASE records' # records
        <4>1. /\ ListOn
              /\ \/ Renamed(c) /\ records' = Renaming(records, i, name)
                 \/ records' = Without(records, i)
          BY <1>2, <2>3, <3>2 DEF Renamed, Deleted
        <4> QED
          BY <2>5, <4>1 DEF TypedInv, ListsTyped
      <3> QED
        BY <3>1, <3>2
    <2>7. IsScreen(shown', Ids)
      <3>1. IsScreen(shown, Ids)
        BY DEF TypedInv, ListsTyped
      <3>2. CASE shown' = shown
        BY <3>1, <3>2
      <3>3. CASE Renamed(c) /\ shown' = [files |-> Renaming(shown.files, i, name),
                                         folders |-> shown.folders]
        <4> DEFINE rows == Renaming(shown.files, i, name)
        <4>1. IsListing(rows, Ids)
          BY <2>5, <3>1, <3>3 DEF IsScreen
        <4> HIDE DEF rows
        <4> QED
          BY <3>1, <3>3, <4>1 DEF IsScreen, rows
      <3>4. CASE shown' = [files |-> Without(shown.files, i), folders |-> shown.folders]
        <4> DEFINE rows == Without(shown.files, i)
        <4>1. IsListing(rows, Ids)
          BY <2>5, <3>1 DEF IsScreen
        <4> HIDE DEF rows
        <4> QED
          BY <3>1, <3>4, <4>1 DEF IsScreen, rows
      <3> QED
        BY <1>2, <2>3, <3>2, <3>3, <3>4 DEF Renamed, Deleted
    <2>8. unpainted' \in BOOLEAN
      BY <1>2 DEF Renamed, Deleted, TypedInv, TabTyped
    <2> QED
      BY <2>1, <2>2, <2>6, <2>7, <2>8, IdsStay DEF TypedInv, FilesTyped, ListsTyped, TabTyped
  <1> QED
    BY <1>1, <1>2

LEMMA TypedLoggedIn ==
    ASSUME BInv, TypedInv, NEW c \in Calls, LoggedIn(c), UNCHANGED indexVars
    PROVE  TypedInv'
  <1>1. CASE Alert(c)
    BY <1>1, TypedDrop DEF Alert, historyVars
  <1>2. CASE ~Alert(c)
    <2> DEFINE call == [op |-> "list", by |-> calls[c].user]
    <2>1. Resend(c, call) /\ UNCHANGED <<view, current, records, shown, unpainted>>
      BY <1>2 DEF LoggedIn
    <2>2. calls[c].user \in Cookies
      BY CallFields DEF LoggedIn, Answered, TypedInv, CallTyped, Cookies
    <2>3. IsCall(call, Ids)
      BY <2>2 DEF IsCall
    <2> HIDE DEF call
    <2>4. \A d \in Calls : CallTyped(d)'
      BY <2>1, <2>3, TypedResend
    <2>5. TabTyped'
      BY <1>2, <2>1 DEF LoggedIn, SyncAfterSending, TypedInv, TabTyped
    <2> QED
      BY <2>1, <2>4, <2>5, IdsStay, ListsTypedStay DEF TypedInv, FilesTyped
  <1> QED
    BY <1>1, <1>2

LEMMA TypedOthers ==
    ASSUME BInv, TypedInv, Others
    PROVE  TypedInv'
  <1>1. UNCHANGED <<view, current, records, shown, calls, answers, unpainted>>
        /\ sync' = "unknown"
    BY DEF Others, callVars
  <1>2. FilesTyped'
    <2>1. ASSUME NEW owner \in Profiles, NEW file \in Uploads
          PROVE  [path |-> <<Root, file.name>>, filename |-> file.name,
                  owner |-> owner, hash |-> file.hash, message_id |-> 0] \in Record
      BY <2>1, UploadsAssumption DEF Record, Paths, Owners
    <2>2. CASE OtherTab
      BY <2>2 DEF OtherTab, indexVars, TypedInv, FilesTyped
    <2>3. CASE OtherDevice
      BY <2>1, <2>3, InsertTyped, DeleteTyped, RenameTyped DEF OtherDevice, TypedInv
    <2> QED
      BY <2>2, <2>3 DEF Others
  <1>3. Ids \subseteq Ids'
    BY OthersEvolve, IdsGrow DEF BInv
  <1>4. \A c \in Calls : CallTyped(c)'
    BY <1>1, <1>3, CallTypedStays DEF TypedInv
  <1> QED
    BY <1>1, <1>2, <1>3, <1>4, ListsTypedStay DEF TypedInv, TabTyped

\* Only requests with a session are worth leaving to the server.
AdriftBy == \A c \in adrift : calls[c].by # NoOne

LEMMA TypedStep ==
    ASSUME BInv, TypedInv, AdriftBy, [BrowserNext]_browserVars
    PROVE  TypedInv'
  <1>1. CASE Rest \/ UNCHANGED browserVars
    <2>1. UNCHANGED <<indexVars, view, current, records, shown, calls, answers, sync, unpainted>>
      BY <1>1 DEF Rest, browserVars, tabVars, callVars, historyVars
    <2> QED
      BY <2>1, IdsStay, CallTypedStays, ListsTypedStay DEF TypedInv, FilesTyped, TabTyped
  <1>2. ASSUME NEW c \in Calls, Deliver(c) PROVE TypedInv'
    <2>1. UNCHANGED indexVars
      BY <1>2 DEF Deliver
    <2>2. CASE Uploaded(c)
      BY <2>1, <2>2, TypedNextOfBatch DEF Uploaded, Answered
    <2>3. CASE LoggedOut(c)
      BY <2>1, <2>3, TypedDrop DEF LoggedOut, historyVars
    <2> QED
      BY <1>2, <2>1, <2>2, <2>3, TypedListed, TypedChanged, TypedLoggedIn DEF Deliver
  <1>3. ASSUME NEW c \in Calls, Lose(c) PROVE TypedInv'
    <2>1. UNCHANGED <<indexVars, view, current, records, shown, unpainted>>
      BY <1>3 DEF Lose
    <2>2. CASE NeverAnswered(c)
      BY <2>1, <2>2, TypedNextOfBatch, TypedDrop DEF NeverAnswered
    <2>3. CASE LeftAdrift(c)
      BY <2>1, <2>3, TypedLeft
    <2> QED
      BY <1>3, <2>2, <2>3 DEF Lose
  <1>4. ASSUME NEW c \in Calls, ServeAdrift(c) PROVE TypedInv'
    BY <1>4, TypedAdrift DEF AdriftBy, ServeAdrift
  <1> QED
    BY <1>1, <1>2, <1>3, <1>4, TypedUser, TypedServe, TypedOthers DEF BrowserNext

LEMMA AdriftByStep ==
    ASSUME BInv, AdriftBy, [BrowserNext]_browserVars
    PROVE  AdriftBy'
  <1>0. adrift \subseteq Calls /\ \A c \in adrift : calls[c] # NoCall
    BY NoCallOp DEF BInv, CallsInv, CallInv
  <1>1. CASE /\ adrift' = adrift
             /\ \A c \in Calls : c \notin adrift \/ calls[c] = NoCall \/ calls'[c] = calls[c]
    BY <1>0, <1>1 DEF AdriftBy
  <1>2. ASSUME NEW call, Send(call) PROVE AdriftBy'
    <2>1. FreeSlot \in Calls /\ calls[FreeSlot] = NoCall
      BY <1>2 DEF Send, FreeSlot
    <2> QED
      BY <1>1, <1>2, <2>1 DEF Send, BInv, CallsInv
  <1>3. CASE Reload
    <2>1. \A c \in adrift' : c \in adrift \/ Unserved(c)
      BY <1>3 DEF Reload
    <2> QED
      BY <1>3, <2>1, ReloadCalls DEF AdriftBy, Unserved
  <1>4. CASE User
    BY <1>1, <1>2, <1>3, <1>4
       DEF User, RenameFile, DeleteFile, UploadFiles, LoginSubmit, LogoutClick, Navigate,
           NavigateTo
  <1>5. ASSUME NEW c \in Calls, Deliver(c) \/ Lose(c) PROVE AdriftBy'
    <2>1. c \notin adrift
      BY <1>5, AnsweredSlot DEF Lose
    <2>2. CASE Deliver(c) \/ (Lose(c) /\ NeverAnswered(c))
      BY <1>1, <2>1, <2>2, DeliveredOrLost
    <2>3. CASE LeftAdrift(c)
      BY <1>0, <2>3, AdriftCalls DEF AdriftBy, Unserved
    <2> QED
      BY <1>5, <2>2, <2>3 DEF Lose
  <1>6. ASSUME NEW c \in Calls, ServeAdrift(c) PROVE AdriftBy'
    BY <1>0, <1>6, AdriftSlot DEF AdriftBy
  <1>7. CASE Others \/ Rest \/ UNCHANGED browserVars \/ \E c \in Calls : Serve(c)
    BY <1>1, <1>7 DEF Others, Rest, browserVars, tabVars, callVars, Serve
  <1> QED
    BY <1>4, <1>5, <1>6, <1>7 DEF BrowserNext

-----------------------------------------------------------------------------
(* The rest of BrowserTypeOK: what is held, and the bounds *)

BoundsTyped ==
    /\ heldRows \subseteq Calls /\ heldRecs \subseteq Calls
    /\ clicks \in 0..MaxClicks /\ others \in 0..MaxOthers

LEMMA BoundsStep ==
    ASSUME BoundsTyped, [BrowserNext]_browserVars
    PROVE  BoundsTyped'
  <1> USE BrowserAssumption
  <1>1. CASE /\ heldRows' \subseteq heldRows /\ heldRecs' \subseteq heldRecs
             /\ clicks' = clicks \/ Click
             /\ others' = others
    BY <1>1 DEF BoundsTyped, Click
  <1>2. ASSUME NEW call, Send(call) PROVE BoundsTyped'
    <2>1. FreeSlot \in Calls
      BY <1>2 DEF Send, FreeSlot
    <2> QED
      BY <1>2, <2>1 DEF Send, Click, BoundsTyped
  <1>3. CASE Navigate \/ Reload
    BY <1>1, <1>3 DEF Navigate, NavigateTo, Reload
  <1>4. CASE User
    BY <1>2, <1>3, <1>4
       DEF User, RenameFile, DeleteFile, UploadFiles, LoginSubmit, LogoutClick
  <1>5. ASSUME NEW c \in Calls, Serve(c) \/ ServeAdrift(c) PROVE BoundsTyped'
    BY <1>1, <1>5 DEF Serve, ServeAdrift
  <1>6. ASSUME NEW c \in Calls, Deliver(c) PROVE BoundsTyped'
    BY <1>1, <1>6 DEF Deliver, Listed, Renamed, Deleted, Uploaded, LoggedIn, LoggedOut,
                      ShowLogin, Alert, Drop
  <1>7. ASSUME NEW c \in Calls, Lose(c) PROVE BoundsTyped'
    BY <1>1, <1>7 DEF Lose, NeverAnswered, LeftAdrift, Drop
  <1>8. CASE Others
    BY <1>8 DEF Others, callVars, BoundsTyped
  <1>9. CASE Rest \/ UNCHANGED browserVars
    BY <1>1, <1>9 DEF Rest, browserVars, tabVars, callVars
  <1> QED
    BY <1>4, <1>5, <1>6, <1>7, <1>8, <1>9 DEF BrowserNext

\* BrowserTypeOK: whatever the tab sends, the paths and names that end up in
\* the index are paths and names, for folders opened to any depth allowed, and
\* so are those in the list, on the screen, in requests and in answers.
THEOREM BrowserIsTyped == BrowserSpec => []BrowserTypeOK
  <1> DEFINE Inv == BInv /\ TypedInv /\ AdriftBy /\ BoundsTyped
  <1>1. BrowserInit => Inv
    <2> SUFFICES ASSUME BrowserInit PROVE AdriftBy /\ BoundsTyped
      BY InvInit, TypedInit
    <2> QED
      BY BrowserAssumption DEF BrowserInit, AdriftBy, BoundsTyped
  <1>2. Inv /\ [BrowserNext]_browserVars => Inv'
    BY InvStep, TypedStep, AdriftByStep, BoundsStep
  <1>3. Inv => BrowserTypeOK
    <2> SUFFICES ASSUME Inv PROVE BrowserTypeOK
      OBVIOUS
    <2>1. IndexTypeOK
      BY DEF BInv, TableInv, TypedInv, FilesTyped, IndexTypeOK
    <2> QED
      BY <2>1 DEF BrowserTypeOK, BInv, TabInv, CallsInv, TypedInv, TabTyped, ListsTyped,
                  CallTyped, BoundsTyped
  <1> HIDE DEF Inv
  <1> QED
    BY <1>1, <1>2, <1>3, PTL DEF BrowserSpec
=============================================================================
