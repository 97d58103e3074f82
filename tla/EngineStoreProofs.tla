-------------------------- MODULE EngineStoreProofs --------------------------
(* Engine implements FileStore, for every value of its constants. *)
EXTENDS EngineStore, EngineProofs

\* A new file is named after its path, also while it is being uploaded.
NamedByPath ==
    \A r \in Requests : At(r, "send") \/ At(r, "insert") =>
        req[r].rec.filename = Base(req[r].rec.path)

\* What the refinement rests on besides the types.
StoreInv == TypeOK /\ UniqueOwnerHash(files) /\ NamedByPath

LEMMA StoreInvInit == Init => StoreInv
<1> SUFFICES ASSUME Init PROVE StoreInv
  OBVIOUS
<1> QED
  BY TypeInit
  DEF Init, IndexInit, Idle, StoreInv, UniqueOwnerHash, NamedByPath, At

\* Only INSERT, UPDATE and DELETE change the table, each for one request.
TableStep ==
    \/ UNCHANGED indexVars
    \/ \E r \in Requests : At(r, "insert") /\ Insert(req[r].rec)
    \/ \E id \in DOMAIN files, filename \in Names : RenameRow(id, filename)
    \/ \E id \in DOMAIN files : DeleteRow(id)

LEMMA EveryStepIsTableStep ==
    ASSUME TypeOK, [Next]_vars
    PROVE  TableStep
<1>1. ASSUME NEW r \in Requests, Issue(r) PROVE TableStep
  BY <1>1
  DEF Issue, UploadFind, RenameGet, DeleteGet, ServeRecord, DownloadGet, TableStep
<1>2. ASSUME NEW r \in Requests, Proceed(r) PROVE TableStep
  <2>1. CASE UploadInsert(r)
    BY <2>1 DEF UploadInsert, InsertRejected, TableStep
  <2>2. CASE RenameUpdate(r)
    <3>1. req[r].filename \in Names
      BY <2>2, RequestTyping DEF RenameUpdate, At, RenameReq, TypeOK, EngineTypeOK
    <3> QED
      BY <2>2, <3>1 DEF RenameUpdate, RenameRow, NoSuchRow, TableStep
  <2>3. CASE DeleteIndexed(r)
    BY <2>3 DEF DeleteIndexed, DeleteRow, NoSuchRow, TableStep
  <2> QED
    BY <1>2, <2>1, <2>2, <2>3
    DEF Proceed, UploadSend, Respond, RenameReread, RenameEdit, DeleteMessage,
        Locate, Fetch, TableStep
<1>3. ASSUME NEW r \in Requests, Fail(r) PROVE TableStep
  BY <1>3 DEF Fail, TableStep
<1>4. CASE UNCHANGED vars
  BY <1>4 DEF vars, indexVars, TableStep
<1> QED
  BY <1>1, <1>2, <1>3, <1>4 DEF Next, Quiescent

LEMMA UniqueStep ==
    ASSUME TypeOK, UniqueOwnerHash(files), TableStep
    PROVE  UniqueOwnerHash(files)'
<1>1. ASSUME NEW rec, Insert(rec) PROVE UniqueOwnerHash(files)'
  BY <1>1 DEF Insert, FindByHash, UniqueOwnerHash, TypeOK, IndexTypeOK
<1>2. ASSUME NEW id \in DOMAIN files, NEW filename \in Names, RenameRow(id, filename)
      PROVE  UniqueOwnerHash(files)'
  BY <1>2 DEF RenameRow, UniqueOwnerHash, TypeOK, IndexTypeOK, Record
<1>3. ASSUME NEW id \in DOMAIN files, DeleteRow(id) PROVE UniqueOwnerHash(files)'
  BY <1>3 DEF DeleteRow, Restrict, UniqueOwnerHash
<1> QED
  BY <1>1, <1>2, <1>3 DEF TableStep, UniqueOwnerHash, indexVars

LEMMA NamedStep ==
    ASSUME TypeOK, NamedByPath, [Next]_vars
    PROVE  NamedByPath'
<1> USE DEF NamedByPath, At
<1>0. req \in [Requests -> Request]
  BY DEF TypeOK, EngineTypeOK
<1>1. ASSUME NEW r \in Requests,
             req' = [req EXCEPT ![r] = req'[r]],
             req'[r].pc \notin {"send", "insert"}
      PROVE  NamedByPath'
  BY <1>0, <1>1
<1>2. ASSUME NEW r \in Requests, Issue(r) PROVE NamedByPath'
  BY <1>0, <1>2
  DEF Issue, UploadFind, RenameGet, DeleteGet, ServeRecord, DownloadGet, Begin
<1>3. ASSUME NEW r \in Requests, Proceed(r) PROVE NamedByPath'
  <2>1. CASE UploadSend(r)
    <3>1. req[r].rec \in Record
      BY <1>0, <2>1, RequestTyping DEF UploadSend, UploadReq
    <3>2. /\ req'[r].rec.filename = req[r].rec.filename
          /\ req'[r].rec.path = req[r].rec.path
          /\ req' = [req EXCEPT ![r] = req'[r]]
      BY <1>0, <2>1, <3>1 DEF UploadSend, Goto, Record
    <3> QED
      BY <1>0, <2>1, <3>2 DEF UploadSend
  <2>2. CASE UploadInsert(r)
    BY <1>0, <1>1, <2>2 DEF UploadInsert, Goto, Finish, Idle
  <2>3. CASE RenameUpdate(r) \/ DeleteMessage(r)
    <3>1. req[r] \in RenameReq \/ req[r] \in DeleteReq
      BY <1>0, <2>3, RequestTyping DEF RenameUpdate, DeleteMessage
    <3> QED
      BY <1>0, <1>1, <2>3, <3>1
      DEF RenameUpdate, DeleteMessage, Goto, Finish, Idle, RenameReq, DeleteReq
  <2>4. CASE \/ Respond(r) \/ RenameReread(r) \/ RenameEdit(r)
             \/ DeleteIndexed(r) \/ Locate(r) \/ Fetch(r)
    BY <1>0, <1>1, <2>4
    DEF Respond, RenameReread, RenameEdit, DeleteIndexed, Locate, Fetch, Goto,
        Finish, Idle
  <2> QED
    BY <1>3, <2>1, <2>2, <2>3, <2>4 DEF Proceed
<1>4. ASSUME NEW r \in Requests, Fail(r) PROVE NamedByPath'
  BY <1>0, <1>1, <1>4 DEF Fail, Goto, Finish, Idle
<1>5. CASE UNCHANGED vars
  BY <1>5 DEF vars
<1> QED
  BY <1>2, <1>3, <1>4, <1>5 DEF Next, Quiescent

LEMMA StoreInvStep == StoreInv /\ [Next]_vars => StoreInv'
  BY TypeStep, EveryStepIsTableStep, UniqueStep, NamedStep DEF StoreInv

-----------------------------------------------------------------------------
(* The view of a table without duplicate keys *)

FileOf(i) == [handle |-> i, path |-> files[i].path, name |-> files[i].filename]

LEMMA ViewOfRow ==
    ASSUME UniqueOwnerHash(files), NEW i \in DOMAIN files
    PROVE  Key(i) \in DOMAIN StoreView /\ StoreView[Key(i)] = FileOf(i)
<1>1. \A j \in DOMAIN files : Key(j) = Key(i) => j = i
  BY DEF UniqueOwnerHash, Key
<1>2. (CHOOSE j \in DOMAIN files : Key(j) = Key(i)) = i
  BY <1>1
<1> QED
  BY <1>2 DEF StoreView, StoredFile, FileOf

LEMMA ViewOfRowPrimed ==
    ASSUME UniqueOwnerHash(files)', NEW i \in DOMAIN files'
    PROVE  Key(i)' \in DOMAIN StoreView' /\ StoreView'[Key(i)'] = FileOf(i)'
<1>1. \A j \in DOMAIN files' : Key(j)' = Key(i)' => j = i
  BY DEF UniqueOwnerHash, Key
<1>2. (CHOOSE j \in DOMAIN files' : Key(j)' = Key(i)') = i
  BY <1>1
<1> QED
  BY <1>2 DEF StoreView, StoredFile, FileOf

LEMMA ViewDomain ==
    /\ DOMAIN StoreView = {Key(i) : i \in DOMAIN files}
    /\ DOMAIN StoreView' = {Key(i)' : i \in DOMAIN files'}
    /\ StoreView = [k \in DOMAIN StoreView |-> StoreView[k]]
    /\ StoreView' = [k \in DOMAIN StoreView' |-> StoreView'[k]]
  BY DEF StoreView

-----------------------------------------------------------------------------
(* The refinement, one table statement at a time *)

LEMMA InsertIsPut ==
    ASSUME StoreInv, StoreInv', NEW r \in Requests, At(r, "insert"),
           Insert(req[r].rec)
    PROVE  Store!Next
<1>0. PICK new : new = lastId + 1
  OBVIOUS
<1> DEFINE rec == req[r].rec
           k == <<rec.owner, rec.hash>>
           put == [handle |-> new, path |-> rec.path, name |-> Base(rec.path)]
<1>1. rec \in Record /\ rec.filename = Base(rec.path)
  BY RequestTyping
  DEF StoreInv, NamedByPath, TypeOK, EngineTypeOK, UploadReq, At
<1>2. k \in Owners \X Hashes /\ rec.path \in Paths
  BY <1>1 DEF Record
<1>3. k \notin DOMAIN StoreView
  BY DEF Insert, FindByHash, StoreView, Key
<1>4. /\ lastId' = new
      /\ DOMAIN files' = DOMAIN files \cup {new}
      /\ new \notin DOMAIN files
      /\ Key(new)' = k
      /\ FileOf(new)' = put
      /\ \A i \in DOMAIN files : Key(i)' = Key(i) /\ FileOf(i)' = FileOf(i)
  BY <1>0, <1>1 DEF Insert, Key, FileOf, StoreInv, TypeOK, IndexTypeOK
<1>5. DOMAIN StoreView' = DOMAIN StoreView \cup {k}
  BY <1>4, ViewDomain
<1>6. StoreView'[k] = put
  BY <1>4, ViewOfRowPrimed DEF StoreInv
<1>7. ASSUME NEW j \in DOMAIN StoreView PROVE StoreView'[j] = StoreView[j]
  <2>1. PICK i \in DOMAIN files : j = Key(i)
    BY ViewDomain
  <2> QED
    BY <1>4, <2>1, ViewOfRow, ViewOfRowPrimed DEF StoreInv
<1>8. StoreView' = [j \in DOMAIN StoreView \cup {k} |->
                        IF j = k THEN put ELSE StoreView[j]]
  BY <1>3, <1>5, <1>6, <1>7, ViewDomain
<1>9. Store!Put(k, rec.path)
  BY <1>0, <1>3, <1>4, <1>8 DEF Store!Put
<1> QED
  BY <1>2, <1>9 DEF Store!Next

LEMMA RenameRowIsRename ==
    ASSUME StoreInv, StoreInv', NEW id \in DOMAIN files, NEW filename \in Names,
           RenameRow(id, filename)
    PROVE  Store!Next
<1> DEFINE k == Key(id)
<1>1. k \in Owners \X Hashes /\ k \in DOMAIN StoreView
  BY ViewDomain DEF Key, StoreInv, TypeOK, IndexTypeOK, Record
<1>2. /\ lastId' = lastId
      /\ DOMAIN files' = DOMAIN files
      /\ \A i \in DOMAIN files :
            /\ Key(i)' = Key(i)
            /\ FileOf(i)' = IF i = id THEN [FileOf(i) EXCEPT !.name = filename]
                                      ELSE FileOf(i)
  BY DEF RenameRow, Key, FileOf, StoreInv, TypeOK, IndexTypeOK, Record
<1>3. DOMAIN StoreView' = DOMAIN StoreView
  BY <1>2, ViewDomain
<1>4. ASSUME NEW j \in DOMAIN StoreView
      PROVE  StoreView'[j] = IF j = k THEN [StoreView[k] EXCEPT !.name = filename]
                                      ELSE StoreView[j]
  <2>1. PICK i \in DOMAIN files : j = Key(i)
    BY ViewDomain
  <2>2. j = k <=> i = id
    BY <2>1 DEF StoreInv, UniqueOwnerHash, Key
  <2> QED
    BY <1>2, <2>1, <2>2, ViewOfRow, ViewOfRowPrimed DEF StoreInv
<1>5. StoreView' = [StoreView EXCEPT ![k] = [@ EXCEPT !.name = filename]]
  BY <1>1, <1>3, <1>4, ViewDomain
<1>6. Store!Rename(k, filename)
  BY <1>1, <1>2, <1>5 DEF Store!Rename
<1> QED
  BY <1>1, <1>6 DEF Store!Next

LEMMA DeleteRowIsRemove ==
    ASSUME StoreInv, StoreInv', NEW id \in DOMAIN files, DeleteRow(id)
    PROVE  Store!Next
<1> DEFINE k == Key(id)
<1>1. k \in Owners \X Hashes /\ k \in DOMAIN StoreView
  BY ViewDomain DEF Key, StoreInv, TypeOK, IndexTypeOK, Record
<1>2. /\ lastId' = lastId
      /\ DOMAIN files' = DOMAIN files \ {id}
      /\ \A i \in DOMAIN files' : Key(i)' = Key(i) /\ FileOf(i)' = FileOf(i)
  BY DEF DeleteRow, Restrict, Key, FileOf
<1>3. DOMAIN StoreView' = DOMAIN StoreView \ {k}
  BY <1>2, ViewDomain DEF StoreInv, UniqueOwnerHash, Key
<1>4. ASSUME NEW j \in DOMAIN StoreView' PROVE StoreView'[j] = StoreView[j]
  <2>1. PICK i \in DOMAIN files' : j = Key(i)'
    BY <1>4, ViewDomain
  <2> QED
    BY <1>2, <2>1, ViewOfRow, ViewOfRowPrimed DEF StoreInv
<1>5. StoreView' = [j \in DOMAIN StoreView \ {k} |-> StoreView[j]]
  BY <1>3, <1>4, ViewDomain
<1>6. Store!Remove(k)
  BY <1>1, <1>2, <1>5 DEF Store!Remove
<1> QED
  BY <1>1, <1>6 DEF Store!Next

LEMMA StoreInit == Init => Store!Init
  BY DEF Init, IndexInit, Store!Init, StoreView

LEMMA StoreStep == StoreInv /\ StoreInv' /\ [Next]_vars => [Store!Next]_(Store!storeVars)
<1> SUFFICES ASSUME StoreInv, StoreInv', [Next]_vars
             PROVE  Store!Next \/ UNCHANGED Store!storeVars
  OBVIOUS
<1>1. TableStep
  BY EveryStepIsTableStep DEF StoreInv
<1>2. CASE UNCHANGED indexVars
  BY <1>2 DEF indexVars, Store!storeVars, StoreView, StoredFile, Key
<1> QED
  BY <1>1, <1>2, InsertIsPut, RenameRowIsRename, DeleteRowIsRemove DEF TableStep

\* The engine is a correct implementation of the store its users see: what
\* requests do to the table, however they interleave and wherever they are
\* cut short, is one store operation or nothing.
THEOREM Refinement == Spec => StoreSpec
<1>1. Spec => []StoreInv
  BY StoreInvInit, StoreInvStep, PTL DEF Spec
<1> QED
  BY <1>1, StoreInit, StoreStep, PTL DEF Spec, StoreSpec, Store!Spec
=============================================================================
