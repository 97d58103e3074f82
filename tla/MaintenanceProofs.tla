-------------------------- MODULE MaintenanceProofs --------------------------
(***************************************************************************)
(* The safety properties of Maintenance for every value of its constants.  *)
(* AllTypeOK, CaptionsTruthful and ServedContent hold with requests and    *)
(* commands in any order, cut short anywhere, with losses of the index.    *)
(* Their invariant is about claims: every hash that a row, a request, a    *)
(* fetched message or a listing holds for a message id is the content of   *)
(* that message, if the message is still there.  RebuildExact and          *)
(* RowsReachable are about commands that run alone (RebuildInv, ReachInv), *)
(* RowsRecovered and IndexMirrored about operations that neither fail nor  *)
(* overlap (MirrorInv).                                                    *)
(***************************************************************************)
EXTENDS Maintenance, EngineProofs, WellFoundedInduction, FiniteSetTheorems

\* What somebody holds about a message that was sent.
Claim(m, hash) ==
    /\ m \in 1..lastMessage
    /\ m \in DOMAIN messages => messages[m].document = hash

RowsTrue == \A i \in DOMAIN files : Claim(files[i].message_id, files[i].hash)

\* An id read earlier denotes a row of the same content, if any.
HeldContent(id, hash) ==
    /\ id \in 1..lastId
    /\ id \in DOMAIN files => files[id].hash = hash

RequestTrue(r) ==
    /\ req[r].pc \in {"insert", "edit"} => Claim(req[r].rec.message_id, req[r].rec.hash)
    /\ req[r].pc = "locate" => HeldContent(req[r].id, req[r].hdr.hash)
    /\ req[r].pc = "fetch" => Claim(req[r].rec.message_id, req[r].hdr.hash)
    /\ req[r].pc = "stream" => req[r].body = req[r].hdr.hash

RequestsTrue == \A r \in Requests : RequestTrue(r)

WalkTrue ==
    cmd.pc = "walk" => \A m \in DOMAIN cmd.batch :
        cmd.batch[m].caption # NoMeta => Claim(m, cmd.batch[m].caption.hash)

ListTrue == cmd.pc = "caption" => \A rec \in cmd.todo : Claim(rec.message_id, rec.hash)

StoresTrue == RowsTrue /\ RequestsTrue /\ CaptionsTruthful

TruthInv == AllTypeOK /\ StoresTrue /\ WalkTrue /\ ListTrue

\* What a step may do to the channel and to the index.
ChannelEvolves ==
    /\ lastMessage' \in Nat /\ lastMessage <= lastMessage'
    /\ \A m \in 1..lastMessage : m \in DOMAIN messages' =>
          m \in DOMAIN messages /\ messages'[m].document = messages[m].document

IndexEvolves ==
    /\ lastId' \in Nat /\ lastId <= lastId'
    /\ \A i \in 1..lastId : i \in DOMAIN files' =>
          i \in DOMAIN files /\ files'[i].hash = files[i].hash

-----------------------------------------------------------------------------
(* The newest and the oldest message of a page *)

LEMMA NatMin ==
    ASSUME NEW S \in SUBSET Nat, S # {}
    PROVE  \E x \in S : \A y \in S : x <= y
  <1> DEFINE R == {p \in Nat \X Nat : p[1] < p[2]}
  <1>1. OpToRel(<, Nat) = R
    BY DEF OpToRel
  <1>2. IsWellFoundedOn(R, Nat)
    BY <1>1, NatLessThanWellFounded
  <1>3. PICK x \in S : \A y \in S : <<y, x>> \notin R
    <2> HIDE DEF R
    <2> QED
      BY <1>2, WFMin
  <1>4. \A a, b \in Nat : a < b => <<a, b>> \in R
    OBVIOUS
  <1> HIDE DEF R
  <1>5. \A y \in S : ~(y < x)
    BY <1>3, <1>4
  <1>6. \A y \in S : y \in Nat /\ x \in Nat
    OBVIOUS
  <1> QED
    BY <1>5, <1>6

LEMMA MinIsLeast ==
    ASSUME NEW S \in SUBSET Nat, S # {}
    PROVE  Min(S) \in S /\ \A x \in S : Min(S) <= x
  BY NatMin DEF Min

LEMMA MaxIsGreatest ==
    ASSUME NEW n \in Nat, NEW S \in SUBSET (1..n), S # {}
    PROVE  Max(S) \in S /\ \A x \in S : Max(S) >= x
  <1> DEFINE T == {k \in 0..n : n - k \in S}
  <1>1. T \in SUBSET Nat /\ T # {}
    <2>1. PICK y \in S : TRUE
      OBVIOUS
    <2>2. y \in 1..n /\ n - (n - y) = y
      OBVIOUS
    <2>3. n - y \in T
      BY <2>1, <2>2
    <2>4. T \subseteq Nat
      OBVIOUS
    <2> HIDE DEF T
    <2> QED
      BY <2>3, <2>4
  <1>2. PICK t \in T : \A k \in T : t <= k
    BY <1>1, NatMin
  <1>3. n - t \in S
    BY <1>2
  <1>4. \A y \in S : n - t >= y
    <2> TAKE y \in S
    <2>1. n - y \in T /\ y \in 1..n /\ t \in 0..n
      BY <1>2
    <2> HIDE DEF T
    <2>2. t <= n - y
      BY <1>2, <2>1
    <2> QED
      BY <2>1, <2>2
  <1> QED
    BY <1>3, <1>4 DEF Max

-----------------------------------------------------------------------------
(* Types *)

LEMMA AllTypeInit == MaintenanceInit => AllTypeOK
  <1> SUFFICES ASSUME MaintenanceInit PROVE AllTypeOK
    OBVIOUS
  <1> USE DEF MaintenanceInit, LegacyInit
  <1>1. /\ Len(Legacy) \in Nat /\ DOMAIN Legacy = 1..Len(Legacy)
        /\ \A i \in DOMAIN Legacy : Legacy[i] \in Hashes
    BY MaintenanceAssumption
  <1>2. IndexTypeOK
    <2>1. LegacyPath \in Paths /\ Base(LegacyPath) \in Names
      BY MaintenanceAssumption DEF Paths, Base
    <2>2. \A i \in DOMAIN Legacy :
             [path |-> LegacyPath, filename |-> Base(LegacyPath), owner |-> NoOwner,
              hash |-> Legacy[i], message_id |-> i] \in Record
      BY <1>1, <2>1 DEF Record, Owners
    <2> QED
      BY <1>1, <2>2 DEF IndexTypeOK
  <1>3. ChannelTypeOK
    BY <1>1 DEF ChannelTypeOK, Message
  <1>4. EngineTypeOK
    BY EngineAssumption DEF EngineTypeOK, Request
  <1>5. MaintenanceTypeOK
    BY MaintenanceAssumption DEF MaintenanceTypeOK, NoCommand
  <1> QED
    BY <1>2, <1>3, <1>4, <1>5 DEF AllTypeOK, TypeOK

\* A command is unaffected by requests, whose messages are newer.
LEMMA CommandTypeStays ==
    ASSUME AllTypeOK, UNCHANGED maintenanceVars, lastMessage' \in Nat,
           lastMessage <= lastMessage'
    PROVE  MaintenanceTypeOK'
  <1>1. ASSUME cmd.pc = "walk"
        PROVE  /\ cmd.offset \in 0..lastMessage'
               /\ DOMAIN cmd.batch \subseteq cmd.offset..lastMessage'
    BY <1>1 DEF AllTypeOK, TypeOK, ChannelTypeOK, MaintenanceTypeOK
  <1> QED
    BY <1>1 DEF AllTypeOK, MaintenanceTypeOK, maintenanceVars, bounds

\* What commands do to the index and the channel.
LEMMA StoresType ==
    ASSUME TypeOK, UNCHANGED engineVars, IndexTypeOK', ChannelTypeOK', lastId <= lastId'
    PROVE  TypeOK'
  BY DEF TypeOK, EngineTypeOK, engineVars, IndexTypeOK

LEMMA RowsType == ASSUME IndexTypeOK PROVE Rows \subseteq Record
  BY DEF IndexTypeOK, Rows

LEMMA BeginCommandType ==
    ASSUME AllTypeOK, NEW state, BeginCommand(state),
           had' \subseteq Record, UNCHANGED channelVars,
           \/ /\ state.pc = "walk" /\ state.offset = 0
              /\ DOMAIN state.batch = {}
           \/ state.pc = "caption" /\ state.todo \subseteq Record
    PROVE  MaintenanceTypeOK'
  <1>1. commands' \in 0..MaxCommands
    BY MaintenanceAssumption DEF AllTypeOK, MaintenanceTypeOK, BeginCommand
  <1>2. lastMessage' = lastMessage /\ lastMessage \in Nat
    BY DEF AllTypeOK, TypeOK, ChannelTypeOK, channelVars
  <1> QED
    BY <1>1, <1>2 DEF AllTypeOK, MaintenanceTypeOK, BeginCommand

LEMMA ReindexFetchType ==
    ASSUME AllTypeOK, ReindexFetch
    PROVE  AllTypeOK'
  <1> USE DEF AllTypeOK
  <1>1. TypeOK' /\ UNCHANGED <<vars, bounds, had>>
    BY DEF ReindexFetch, Continue, TypeOK, IndexTypeOK, ChannelTypeOK, EngineTypeOK, vars,
           indexVars, channelVars
  <1>2. UNCHANGED <<messages, lastMessage, commands, losses, had>>
    BY <1>1 DEF vars, bounds
  <1> DEFINE page == Batch(cmd.offset)
  <1>3. CASE page # {} /\ cmd' = [pc |-> "walk", offset |-> Min(page),
                                  batch |-> Restrict(messages, page)]
    <2>1. page \subseteq DOMAIN messages /\ page \in SUBSET Nat
      BY DEF Batch, TypeOK, ChannelTypeOK
    <2>2. Min(page) \in page /\ \A m \in page : Min(page) <= m
      BY <1>3, <2>1, MinIsLeast
    <2>3. /\ cmd'.pc = "walk" /\ cmd'.offset = Min(page)
          /\ DOMAIN cmd'.batch = page
          /\ \A m \in page : cmd'.batch[m] = messages[m]
      BY <1>3 DEF Restrict
    <2>4. \A m \in page : m \in 1..lastMessage /\ messages[m] \in Message
      BY <2>1 DEF TypeOK, ChannelTypeOK
    <2> HIDE DEF page
    <2>5. /\ cmd'.offset \in 1..lastMessage
          /\ DOMAIN cmd'.batch \subseteq cmd'.offset..lastMessage
      BY <2>2, <2>3, <2>4 DEF TypeOK, ChannelTypeOK
    <2> QED
      BY <1>1, <1>2, <2>3, <2>4, <2>5 DEF MaintenanceTypeOK
  <1>4. CASE cmd' = [pc |-> "reindexed"]
    BY <1>1, <1>2, <1>4 DEF MaintenanceTypeOK
  <1> QED
    BY <1>3, <1>4 DEF ReindexFetch, Continue

\* The message the walk handles next.
LEMMA NextOfWalk ==
    ASSUME AllTypeOK, cmd.pc = "walk", DOMAIN cmd.batch # {}
    PROVE  LET m == Max(DOMAIN cmd.batch) IN
           /\ m \in DOMAIN cmd.batch /\ m \in 1..lastMessage
           /\ cmd.batch[m] \in Message
           /\ cmd.batch[m].caption # NoMeta => Recovered(m, cmd.batch[m]) \in Record
  <1> DEFINE m == Max(DOMAIN cmd.batch)
  <1>1. lastMessage \in Nat /\ DOMAIN cmd.batch \in SUBSET (1..lastMessage)
    BY DEF AllTypeOK, TypeOK, ChannelTypeOK, MaintenanceTypeOK
  <1>2. m \in DOMAIN cmd.batch
    BY <1>1, MaxIsGreatest
  <1> HIDE DEF m
  <1>3. m \in 1..lastMessage /\ cmd.batch[m] \in Message
    BY <1>1, <1>2 DEF AllTypeOK, MaintenanceTypeOK
  <1>4. cmd.batch[m].caption # NoMeta => Recovered(m, cmd.batch[m]) \in Record
    BY <1>1, <1>3 DEF Message, FileMeta, Recovered, Record
  <1> QED
    BY <1>2, <1>3, <1>4 DEF m

LEMMA ReindexInsertType ==
    ASSUME AllTypeOK, ReindexInsert
    PROVE  AllTypeOK'
  <1> USE DEF AllTypeOK
  <1> DEFINE m == Max(DOMAIN cmd.batch)
             rest == [pc |-> "walk", offset |-> cmd.offset,
                      batch |-> Restrict(cmd.batch, DOMAIN cmd.batch \ {m})]
  <1>1. \/ UNCHANGED indexVars /\ cmd' \in {rest, [pc |-> "aborted"]}
        \/ /\ cmd.batch[m].caption # NoMeta
           /\ Insert(Recovered(m, cmd.batch[m])) /\ cmd' = rest
    BY DEF ReindexInsert, Continue, InsertRejected
  <1>2. UNCHANGED <<messages, lastMessage, req, started, deleting, commands, losses, had>>
    BY DEF ReindexInsert, Continue, channelVars, engineVars, bounds
  <1>3. cmd.pc = "walk" /\ DOMAIN cmd.batch # {}
    BY DEF ReindexInsert
  <1>4. IndexTypeOK' /\ lastId <= lastId'
    <2>1. CASE UNCHANGED indexVars
      BY <2>1 DEF TypeOK, IndexTypeOK, indexVars
    <2>2. CASE /\ cmd.batch[m].caption # NoMeta
               /\ Insert(Recovered(m, cmd.batch[m]))
      <3>1. Recovered(m, cmd.batch[m]) \in Record
        BY <1>3, <2>2, NextOfWalk
      <3>2. lastId' = lastId + 1 /\ lastId \in Nat
        BY <2>2 DEF Insert, TypeOK, IndexTypeOK
      <3> QED
        BY <2>2, <3>1, <3>2, InsertType DEF TypeOK
    <2> QED
      BY <1>1, <2>1, <2>2
  <1>5. TypeOK'
    BY <1>2, <1>4, StoresType DEF TypeOK, ChannelTypeOK, engineVars
  <1>6. MaintenanceTypeOK'
    <2>1. CASE cmd' = rest
      <3>1. /\ cmd'.pc = "walk" /\ cmd'.offset = cmd.offset
            /\ DOMAIN cmd'.batch \subseteq DOMAIN cmd.batch
            /\ \A k \in DOMAIN cmd'.batch : cmd'.batch[k] = cmd.batch[k]
        BY <2>1 DEF Restrict
      <3> QED
        BY <1>2, <1>3, <3>1 DEF MaintenanceTypeOK
    <2>2. CASE cmd' = [pc |-> "aborted"]
      BY <1>2, <2>2 DEF MaintenanceTypeOK
    <2> QED
      BY <1>1, <2>1, <2>2
  <1> QED
    BY <1>5, <1>6

LEMMA CaptionsEditType ==
    ASSUME AllTypeOK, CaptionsEdit
    PROVE  AllTypeOK'
  <1> USE DEF AllTypeOK
  <1>1. PICK rec \in cmd.todo :
           \/ /\ EditCaption(rec.message_id, EncodeFileMeta(rec))
              /\ Continue([pc |-> "caption", todo |-> cmd.todo \ {rec}])
           \/ /\ EditRejected(rec.message_id, EncodeFileMeta(rec))
              /\ Continue([pc |-> "aborted"])
    BY DEF CaptionsEdit
  <1>2. rec \in Record /\ cmd.todo \subseteq Record
    BY DEF CaptionsEdit, MaintenanceTypeOK
  <1>3. ChannelTypeOK'
    BY <1>1, <1>2, EncodeType, EditCaptionType
       DEF TypeOK, EditRejected, channelVars, ChannelTypeOK
  <1>4. UNCHANGED <<files, lastId, req, started, deleting, had, commands, losses>>
    BY <1>1 DEF CaptionsEdit, Continue, indexVars, engineVars, bounds
  <1>5. TypeOK'
    BY <1>3, <1>4 DEF TypeOK, IndexTypeOK, EngineTypeOK
  <1>6. \/ cmd'.pc = "caption" /\ cmd'.todo = cmd.todo \ {rec}
        \/ cmd'.pc = "aborted"
    BY <1>1 DEF Continue
  <1>7. MaintenanceTypeOK'
    BY <1>2, <1>4, <1>6 DEF MaintenanceTypeOK
  <1> QED
    BY <1>5, <1>7

LEMMA CommandType ==
    ASSUME AllTypeOK,
           ReindexReset \/ CaptionsList \/ CommandStep \/ CommandFail \/ LoseIndex
    PROVE  AllTypeOK'
  <1> USE DEF AllTypeOK
  <1>1. Rows \subseteq Record
    BY RowsType DEF TypeOK
  <1>2. ASSUME UNCHANGED <<vars, bounds>>, had' \subseteq Record,
               cmd'.pc \in {"none", "captioned", "aborted"}
        PROVE  AllTypeOK'
    BY <1>2 DEF vars, bounds, TypeOK, IndexTypeOK, ChannelTypeOK, EngineTypeOK,
                MaintenanceTypeOK
  <1>3. CASE ReindexReset
    <2> DEFINE walk == [pc |-> "walk", offset |-> 0, batch |-> [m \in {} |-> {}]]
    <2>1. MaintenanceTypeOK'
      <3>1. walk.pc = "walk" /\ walk.offset = 0 /\ DOMAIN walk.batch = {}
        OBVIOUS
      <3>2. BeginCommand(walk) /\ had' \subseteq Record /\ UNCHANGED channelVars
        BY <1>1, <1>3 DEF ReindexReset, RowsGone, MaintenanceTypeOK
      <3> HIDE DEF walk
      <3> QED
        BY <3>1, <3>2, BeginCommandType
    <2>2. TypeOK'
      BY <1>3 DEF ReindexReset, Reset, TypeOK, IndexTypeOK, ChannelTypeOK, EngineTypeOK,
                  channelVars, engineVars
    <2> QED
      BY <2>1, <2>2
  <1>4. CASE CaptionsList
    <2> DEFINE list == [pc |-> "caption", todo |-> Rows]
    <2>1. list.pc = "caption" /\ list.todo = Rows
      OBVIOUS
    <2>2. BeginCommand(list) /\ UNCHANGED <<vars, had>>
      BY <1>4 DEF CaptionsList
    <2> HIDE DEF list
    <2>3. MaintenanceTypeOK'
      BY <1>1, <2>1, <2>2, BeginCommandType DEF vars, channelVars, MaintenanceTypeOK
    <2>4. TypeOK'
      BY <2>2 DEF vars, TypeOK, IndexTypeOK, ChannelTypeOK, EngineTypeOK
    <2> QED
      BY <2>3, <2>4
  <1>5. CASE CaptionsDone
    BY <1>2, <1>5 DEF CaptionsDone, Continue, MaintenanceTypeOK
  <1>6. CASE CommandExit
    BY <1>2, <1>6 DEF CommandExit, Continue, NoCommand, MaintenanceTypeOK
  <1>7. CASE CommandFail
    BY <1>2, <1>7 DEF CommandFail, Continue, MaintenanceTypeOK
  <1>8. CASE LoseIndex
    <2>1. TypeOK'
      BY <1>8 DEF LoseIndex, TypeOK, IndexTypeOK, ChannelTypeOK, EngineTypeOK, channelVars
    <2>2. losses' \in 0..MaxLosses
      BY <1>8, MaintenanceAssumption DEF LoseIndex, MaintenanceTypeOK
    <2> QED
      BY <1>1, <1>8, <2>1, <2>2 DEF LoseIndex, RowsGone, MaintenanceTypeOK, NoCommand, channelVars
  <1> QED
    BY <1>3, <1>4, <1>5, <1>6, <1>7, <1>8, ReindexFetchType, ReindexInsertType,
       CaptionsEditType DEF CommandStep

-----------------------------------------------------------------------------
(* Claims *)

LEMMA ClaimStays ==
    ASSUME ChannelTypeOK, ChannelEvolves, NEW m, NEW hash, Claim(m, hash)
    PROVE  m \in 1..lastMessage' /\ (m \in DOMAIN messages' => messages'[m].document = hash)
  BY DEF ChannelTypeOK, ChannelEvolves, Claim

LEMMA HeldContentStays ==
    ASSUME IndexTypeOK, IndexEvolves, NEW id, NEW hash, HeldContent(id, hash)
    PROVE  id \in 1..lastId' /\ (id \in DOMAIN files' => files'[id].hash = hash)
  BY DEF IndexTypeOK, IndexEvolves, HeldContent

LEMMA ChannelCalls ==
    ASSUME ChannelTypeOK
    PROVE  /\ UNCHANGED channelVars => ChannelEvolves
           /\ \A d, c : SendFile(d, c) => ChannelEvolves
           /\ \A m, c : EditCaption(m, c) => ChannelEvolves
           /\ \A m : DeleteMessages(m) => ChannelEvolves
  <1> USE DEF ChannelTypeOK, ChannelEvolves
  <1>1. UNCHANGED channelVars => ChannelEvolves
    BY DEF channelVars
  <1>2. ASSUME NEW d, NEW c, SendFile(d, c) PROVE ChannelEvolves
    BY <1>2 DEF SendFile
  <1>3. ASSUME NEW m, NEW c, EditCaption(m, c) PROVE ChannelEvolves
    BY <1>3 DEF EditCaption, Message
  <1>4. ASSUME NEW m, DeleteMessages(m) PROVE ChannelEvolves
    BY <1>4 DEF DeleteMessages, Restrict
  <1> QED
    BY <1>1, <1>2, <1>3, <1>4

LEMMA IndexStatements ==
    ASSUME IndexTypeOK
    PROVE  /\ UNCHANGED indexVars => IndexEvolves
           /\ \A rec : Insert(rec) => IndexEvolves
           /\ \A id : DeleteRow(id) => IndexEvolves
           /\ \A id, name : RenameRow(id, name) => IndexEvolves
           /\ Reset => IndexEvolves
  <1> USE DEF IndexTypeOK, IndexEvolves
  <1>1. UNCHANGED indexVars => IndexEvolves
    BY DEF indexVars
  <1>2. ASSUME NEW rec, Insert(rec) PROVE IndexEvolves
    BY <1>2 DEF Insert
  <1>3. ASSUME NEW id, DeleteRow(id) PROVE IndexEvolves
    BY <1>3 DEF DeleteRow, Restrict
  <1>4. ASSUME NEW id, NEW name, RenameRow(id, name) PROVE IndexEvolves
    BY <1>4 DEF RenameRow, Record
  <1>5. Reset => IndexEvolves
    BY DEF Reset
  <1> QED
    BY <1>1, <1>2, <1>3, <1>4, <1>5

\* Every row is one that was there, perhaps renamed, or carries a true claim.
LEMMA RowsTrueStep ==
    ASSUME IndexTypeOK, ChannelTypeOK, RowsTrue, ChannelEvolves
    PROVE  /\ UNCHANGED indexVars => RowsTrue'
           /\ \A rec : Insert(rec) /\ Claim(rec.message_id, rec.hash) => RowsTrue'
           /\ \A id : DeleteRow(id) => RowsTrue'
           /\ \A id, name : RenameRow(id, name) => RowsTrue'
           /\ Reset => RowsTrue'
  <1>1. \A i \in DOMAIN files :
           /\ files[i].message_id \in 1..lastMessage'
           /\ files[i].message_id \in DOMAIN messages' =>
                 messages'[files[i].message_id].document = files[i].hash
    BY ClaimStays DEF RowsTrue
  <1> USE DEF RowsTrue, Claim
  <1>2. UNCHANGED indexVars => RowsTrue'
    BY <1>1 DEF indexVars
  <1>3. ASSUME NEW rec, Insert(rec), Claim(rec.message_id, rec.hash) PROVE RowsTrue'
    <2>1. /\ rec.message_id \in 1..lastMessage'
          /\ rec.message_id \in DOMAIN messages' =>
                messages'[rec.message_id].document = rec.hash
      BY <1>3, ClaimStays
    <2>2. \A i \in DOMAIN files' : files'[i] = rec \/ (i \in DOMAIN files /\ files'[i] = files[i])
      BY <1>3 DEF Insert
    <2> QED
      BY <1>1, <2>1, <2>2
  <1>4. ASSUME NEW id, DeleteRow(id) PROVE RowsTrue'
    BY <1>1, <1>4 DEF DeleteRow, Restrict
  <1>5. ASSUME NEW id, NEW name, RenameRow(id, name) PROVE RowsTrue'
    <2>1. \A i \in DOMAIN files' :
             /\ i \in DOMAIN files
             /\ files'[i].message_id = files[i].message_id
             /\ files'[i].hash = files[i].hash
      BY <1>5 DEF RenameRow, IndexTypeOK, Record
    <2> QED
      BY <1>1, <2>1
  <1>6. Reset => RowsTrue'
    BY DEF Reset
  <1> QED
    BY <1>2, <1>3, <1>4, <1>5, <1>6

\* A caption is left alone, or written by somebody with a true claim.
LEMMA CaptionsStep ==
    ASSUME ChannelTypeOK, CaptionsTruthful
    PROVE  /\ UNCHANGED channelVars => CaptionsTruthful'
           /\ \A d, c : SendFile(d, c) /\ c.hash = d => CaptionsTruthful'
           /\ \A rec : EditCaption(rec.message_id, EncodeFileMeta(rec))
                          /\ Claim(rec.message_id, rec.hash) => CaptionsTruthful'
           /\ \A m : DeleteMessages(m) => CaptionsTruthful'
  <1> USE DEF CaptionsTruthful, Captioned
  <1>1. UNCHANGED channelVars => CaptionsTruthful'
    BY DEF channelVars
  <1>2. ASSUME NEW d, NEW c, SendFile(d, c), c.hash = d PROVE CaptionsTruthful'
    BY <1>2 DEF SendFile
  <1>3. ASSUME NEW rec, EditCaption(rec.message_id, EncodeFileMeta(rec)),
               Claim(rec.message_id, rec.hash)
        PROVE  CaptionsTruthful'
    <2>1. EncodeFileMeta(rec).hash = rec.hash
      BY DEF EncodeFileMeta
    <2>2. \A m \in DOMAIN messages' :
             /\ m \in DOMAIN messages
             /\ messages'[m].document = messages[m].document
             /\ m # rec.message_id => messages'[m] = messages[m]
             /\ m = rec.message_id => messages'[m].caption = EncodeFileMeta(rec)
      BY <1>3 DEF EditCaption, ChannelTypeOK, Message
    <2> QED
      BY <1>3, <2>1, <2>2 DEF Claim
  <1>4. ASSUME NEW m, DeleteMessages(m) PROVE CaptionsTruthful'
    BY <1>4 DEF DeleteMessages, Restrict
  <1> QED
    BY <1>1, <1>2, <1>3, <1>4

\* One request goes on, the others keep what they hold.
LEMMA RequestsTrueStep ==
    ASSUME TypeOK, RequestsTrue, ChannelEvolves, IndexEvolves,
           NEW r \in Requests, NEW s, req' = [req EXCEPT ![r] = s],
           RequestTrue(r)'
    PROVE  RequestsTrue'
  <1>1. ASSUME NEW q \in Requests, q # r PROVE RequestTrue(q)'
    <2>1. req'[q] = req[q] /\ RequestTrue(q)
      BY <1>1 DEF TypeOK, EngineTypeOK, RequestsTrue
    <2>2. req[q].pc \in {"insert", "edit"} =>
             Claim(req[q].rec.message_id, req[q].rec.hash)'
      BY <2>1, ClaimStays DEF TypeOK, RequestTrue, Claim
    <2>3. req[q].pc = "locate" => HeldContent(req[q].id, req[q].hdr.hash)'
      BY <2>1, HeldContentStays DEF TypeOK, RequestTrue, HeldContent
    <2>4. req[q].pc = "fetch" => Claim(req[q].rec.message_id, req[q].hdr.hash)'
      BY <2>1, ClaimStays DEF TypeOK, RequestTrue, Claim
    <2> QED
      BY <2>1, <2>2, <2>3, <2>4 DEF RequestTrue
  <1> QED
    BY <1>1 DEF RequestsTrue

-----------------------------------------------------------------------------
(* Requests *)

LEMMA QuietStep ==
    ASSUME TypeOK, StoresTrue, UNCHANGED <<indexVars, channelVars>>,
           NEW r \in Requests, NEW s, req' = [req EXCEPT ![r] = s],
           RequestTrue(r)'
    PROVE  StoresTrue' /\ ChannelEvolves
  <1>1. ChannelEvolves /\ IndexEvolves
    BY ChannelCalls, IndexStatements DEF TypeOK
  <1>2. RowsTrue' /\ CaptionsTruthful'
    BY <1>1, RowsTrueStep, CaptionsStep DEF TypeOK, StoresTrue
  <1>3. RequestsTrue'
    BY <1>1, RequestsTrueStep DEF StoresTrue
  <1> QED
    BY <1>1, <1>2, <1>3 DEF StoresTrue

\* The request ends, or goes on to a point where it holds no claim.
LEMMA PlainStep ==
    ASSUME TypeOK, StoresTrue, UNCHANGED <<indexVars, channelVars>>,
           NEW r \in Requests, NEW s, req' = [req EXCEPT ![r] = s],
           s.pc \in {"idle", "send", "uploaded", "rename", "reread", "unsend"}
    PROVE  StoresTrue' /\ ChannelEvolves
  <1>1. req'[r].pc = s.pc
    BY DEF TypeOK, EngineTypeOK
  <1>2. RequestTrue(r)'
    BY <1>1 DEF RequestTrue
  <1> QED
    BY <1>2, QuietStep

LEMMA IssueTrue ==
    ASSUME TypeOK, StoresTrue, NEW r \in Requests, Issue(r)
    PROVE  StoresTrue' /\ ChannelEvolves
  <1> USE DEF Begin
  <1>1. ASSUME NEW owner, NEW path, NEW hash, UploadFind(r, owner, path, hash)
        PROVE  StoresTrue' /\ ChannelEvolves
    <2> DEFINE new == [pc |-> "send", by |-> owner,
                       rec |-> [path |-> path, filename |-> Base(path), owner |-> owner,
                                hash |-> hash, message_id |-> 0]]
               old(i) == [pc |-> "uploaded", by |-> owner, id |-> i, rec |-> files[i]]
    <2>1. req' = [req EXCEPT ![r] = new] \/ \E i : req' = [req EXCEPT ![r] = old(i)]
      BY <1>1 DEF UploadFind
    <2>2. new.pc = "send" /\ \A i : old(i).pc = "uploaded"
      OBVIOUS
    <2> HIDE DEF new, old
    <2> QED
      BY <1>1, <2>1, <2>2, PlainStep DEF UploadFind
  <1>2. ASSUME NEW id, NEW owner, NEW name, RenameGet(r, owner, id, name)
        PROVE  StoresTrue' /\ ChannelEvolves
    <2>1. \E s : s.pc = "rename" /\ req' = [req EXCEPT ![r] = s]
      BY <1>2 DEF RenameGet
    <2> QED
      BY <1>2, <2>1, PlainStep DEF RenameGet
  <1>3. ASSUME NEW id, NEW owner, DeleteGet(r, owner, id)
        PROVE  StoresTrue' /\ ChannelEvolves
    <2>1. \E s : s.pc = "unsend" /\ req' = [req EXCEPT ![r] = s]
      BY <1>3 DEF DeleteGet
    <2> QED
      BY <1>3, <2>1, PlainStep DEF DeleteGet
  <1>4. ASSUME NEW id \in DOMAIN files, NEW owner, ServeRecord(r, owner, id)
        PROVE  StoresTrue' /\ ChannelEvolves
    <2>1. req' = [req EXCEPT ![r] = [pc |-> "locate", by |-> owner, id |-> id,
                                     hdr |-> files[id]]]
      BY <1>4 DEF ServeRecord
    <2>2. req'[r].pc = "locate" /\ req'[r].id = id /\ req'[r].hdr = files[id]
      BY <2>1 DEF TypeOK, EngineTypeOK
    <2>3. RequestTrue(r)'
      BY <1>4, <2>2 DEF RequestTrue, HeldContent, ServeRecord, indexVars, TypeOK, IndexTypeOK
    <2> QED
      BY <1>4, <2>1, <2>3, QuietStep DEF ServeRecord
  <1>5. ASSUME NEW id \in DOMAIN files, DownloadGet(r, id)
        PROVE  StoresTrue' /\ ChannelEvolves
    <2>1. req' = [req EXCEPT ![r] = [pc |-> "fetch", by |-> NoOwner, hdr |-> files[id],
                                     rec |-> files[id]]]
      BY <1>5 DEF DownloadGet
    <2>2. req'[r].pc = "fetch" /\ req'[r].hdr = files[id] /\ req'[r].rec = files[id]
      BY <2>1 DEF TypeOK, EngineTypeOK
    <2>3. RequestTrue(r)'
      BY <1>5, <2>2 DEF RequestTrue, Claim, DownloadGet, channelVars, StoresTrue, RowsTrue
    <2> QED
      BY <1>5, <2>1, <2>3, QuietStep DEF DownloadGet
  <1> QED
    BY <1>1, <1>2, <1>3, <1>4, <1>5 DEF Issue

LEMMA UploadSendTrue ==
    ASSUME TypeOK, StoresTrue, NEW r \in Requests, UploadSend(r)
    PROVE  StoresTrue' /\ ChannelEvolves
  <1> DEFINE new == [req[r].rec EXCEPT !.message_id = lastMessage + 1]
  <1>1. SendFile(req[r].rec.hash, EncodeFileMeta(req[r].rec)) /\ UNCHANGED indexVars
    BY DEF UploadSend
  <1>2. req[r].rec \in Record
    BY RequestTyping DEF UploadSend, At, TypeOK, EngineTypeOK, UploadReq
  <1>3. EncodeFileMeta(req[r].rec).hash = req[r].rec.hash
    BY DEF EncodeFileMeta
  <1>4. ChannelEvolves /\ IndexEvolves /\ RowsTrue' /\ CaptionsTruthful'
    BY <1>1, <1>3, ChannelCalls, IndexStatements, RowsTrueStep, CaptionsStep
       DEF TypeOK, StoresTrue
  <1>5. /\ req' = [req EXCEPT ![r] = [pc |-> "insert", by |-> req[r].by, rec |-> new]]
        /\ req'[r].pc = "insert" /\ req'[r].rec = new
    BY DEF UploadSend, Goto, TypeOK, EngineTypeOK
  <1>6. new.message_id = lastMessage + 1 /\ new.hash = req[r].rec.hash
    BY <1>2 DEF Record
  <1> HIDE DEF new
  <1>7. RequestTrue(r)'
    BY <1>1, <1>5, <1>6 DEF RequestTrue, Claim, SendFile, TypeOK, ChannelTypeOK
  <1> QED
    BY <1>4, <1>5, <1>7, RequestsTrueStep DEF StoresTrue

LEMMA UploadInsertTrue ==
    ASSUME TypeOK, StoresTrue, NEW r \in Requests, UploadInsert(r)
    PROVE  StoresTrue' /\ ChannelEvolves
  <1>1. CASE InsertRejected(req[r].rec) /\ Finish(r)
    <2>1. Idle.pc = "idle"
      BY DEF Idle
    <2> QED
      BY <1>1, <2>1, PlainStep DEF UploadInsert, InsertRejected, Finish, Goto
  <1>2. CASE /\ Insert(req[r].rec)
             /\ Goto(r, [pc |-> "uploaded", by |-> req[r].by, id |-> lastId + 1,
                         rec |-> req[r].rec])
    <2>1. Claim(req[r].rec.message_id, req[r].rec.hash)
      BY DEF UploadInsert, At, StoresTrue, RequestsTrue, RequestTrue
    <2>2. UNCHANGED channelVars
      BY DEF UploadInsert
    <2>3. ChannelEvolves /\ IndexEvolves /\ CaptionsTruthful'
      BY <1>2, <2>2, ChannelCalls, IndexStatements, CaptionsStep DEF TypeOK, StoresTrue
    <2>4. RowsTrue'
      BY <1>2, <2>1, <2>3, RowsTrueStep DEF TypeOK, StoresTrue
    <2>5. req'[r].pc = "uploaded"
      BY <1>2 DEF Goto, TypeOK, EngineTypeOK
    <2>6. RequestTrue(r)'
      BY <2>5 DEF RequestTrue
    <2> QED
      BY <1>2, <2>3, <2>4, <2>6, RequestsTrueStep DEF Goto, StoresTrue
  <1> QED
    BY <1>1, <1>2 DEF UploadInsert

LEMMA FinishTrue ==
    ASSUME TypeOK, StoresTrue, NEW r \in Requests, Finish(r),
           UNCHANGED <<indexVars, channelVars>>
    PROVE  StoresTrue' /\ ChannelEvolves
  <1>1. Idle.pc = "idle" /\ req' = [req EXCEPT ![r] = Idle]
    BY DEF Idle, Finish, Goto
  <1> QED
    BY <1>1, PlainStep

LEMMA RenameTrue ==
    ASSUME TypeOK, StoresTrue, NEW r \in Requests,
           RenameUpdate(r) \/ RenameReread(r) \/ RenameEdit(r)
    PROVE  StoresTrue' /\ ChannelEvolves
  <1>1. CASE RenameUpdate(r)
    <2>1. CASE NoSuchRow(req[r].id) /\ Finish(r)
      BY <1>1, <2>1, FinishTrue DEF RenameUpdate, NoSuchRow
    <2>2. CASE /\ RenameRow(req[r].id, req[r].filename)
               /\ Goto(r, [req[r] EXCEPT !.pc = "reread"])
      <3>1. ChannelEvolves /\ IndexEvolves /\ CaptionsTruthful'
        BY <1>1, <2>2, ChannelCalls, IndexStatements, CaptionsStep
           DEF TypeOK, StoresTrue, RenameUpdate
      <3>2. RowsTrue'
        BY <2>2, <3>1, RowsTrueStep DEF TypeOK, StoresTrue
      <3>3. req[r] \in RenameReq
        BY <1>1, RequestTyping DEF RenameUpdate, At, TypeOK, EngineTypeOK
      <3>4. req'[r].pc = "reread"
        BY <2>2, <3>3 DEF Goto, TypeOK, EngineTypeOK, RenameReq
      <3>5. RequestTrue(r)'
        BY <3>4 DEF RequestTrue
      <3> QED
        BY <2>2, <3>1, <3>2, <3>5, RequestsTrueStep DEF Goto, StoresTrue
    <2> QED
      BY <1>1, <2>1, <2>2 DEF RenameUpdate
  <1>2. CASE RenameReread(r)
    <2>1. CASE Finish(r)
      BY <1>2, <2>1, FinishTrue DEF RenameReread
    <2>2. CASE /\ req[r].id \in DOMAIN files
               /\ Goto(r, [pc |-> "edit", by |-> req[r].by, rec |-> files[req[r].id]])
      <3>1. req'[r].pc = "edit" /\ req'[r].rec = files[req[r].id]
        BY <2>2 DEF Goto, TypeOK, EngineTypeOK
      <3>2. RequestTrue(r)'
        BY <1>2, <2>2, <3>1 DEF RequestTrue, Claim, RenameReread, channelVars,
                                StoresTrue, RowsTrue
      <3> QED
        BY <1>2, <2>2, <3>2, QuietStep DEF Goto, RenameReread
    <2> QED
      BY <1>2, <2>1, <2>2 DEF RenameReread
  <1>3. CASE RenameEdit(r)
    <2>1. CASE EditRejected(req[r].rec.message_id, EncodeFileMeta(req[r].rec))
      BY <1>3, <2>1, FinishTrue DEF RenameEdit, EditRejected
    <2>2. CASE EditCaption(req[r].rec.message_id, EncodeFileMeta(req[r].rec))
      <3>1. Claim(req[r].rec.message_id, req[r].rec.hash)
        BY <1>3 DEF RenameEdit, At, StoresTrue, RequestsTrue, RequestTrue
      <3>2. CaptionsTruthful'
        BY <2>2, <3>1, CaptionsStep DEF TypeOK, StoresTrue
      <3>3. ChannelEvolves /\ IndexEvolves
        BY <1>3, <2>2, ChannelCalls, IndexStatements DEF TypeOK, RenameEdit
      <3>4. RowsTrue'
        BY <1>3, <3>3, RowsTrueStep DEF TypeOK, StoresTrue, RenameEdit
      <3>5. req' = [req EXCEPT ![r] = Idle] /\ req'[r].pc = "idle"
        BY <1>3 DEF RenameEdit, Finish, Goto, Idle, TypeOK, EngineTypeOK
      <3>6. RequestTrue(r)'
        BY <3>5 DEF RequestTrue
      <3> QED
        BY <3>2, <3>3, <3>4, <3>5, <3>6, RequestsTrueStep DEF StoresTrue
    <2> QED
      BY <1>3, <2>1, <2>2 DEF RenameEdit
  <1> QED
    BY <1>1, <1>2, <1>3

LEMMA DeleteTrue ==
    ASSUME TypeOK, StoresTrue, NEW r \in Requests,
           DeleteMessage(r) \/ DeleteIndexed(r)
    PROVE  StoresTrue' /\ ChannelEvolves
  <1>1. ChannelEvolves /\ IndexEvolves /\ CaptionsTruthful'
    <2>1. CASE DeleteMessage(r)
      BY <2>1, ChannelCalls, IndexStatements, CaptionsStep
         DEF TypeOK, StoresTrue, DeleteMessage
    <2>2. CASE DeleteIndexed(r)
      BY <2>2, ChannelCalls, IndexStatements, CaptionsStep
         DEF TypeOK, StoresTrue, DeleteIndexed, NoSuchRow
    <2> QED
      BY <2>1, <2>2
  <1>2. RowsTrue'
    BY <1>1, RowsTrueStep DEF TypeOK, StoresTrue, DeleteMessage, DeleteIndexed, NoSuchRow
  <1>3. req[r] \in DeleteReq
    BY RequestTyping DEF DeleteMessage, DeleteIndexed, At, TypeOK, EngineTypeOK
  <1>4. \E s : req' = [req EXCEPT ![r] = s] /\ req'[r].pc \in {"unindex", "idle"}
    <2>1. CASE DeleteMessage(r)
      <3>1. /\ req' = [req EXCEPT ![r] = [req[r] EXCEPT !.pc = "unindex"]]
            /\ [req[r] EXCEPT !.pc = "unindex"].pc = "unindex"
        BY <1>3, <2>1 DEF DeleteMessage, Goto, DeleteReq
      <3> QED
        BY <3>1 DEF TypeOK, EngineTypeOK
    <2>2. CASE DeleteIndexed(r)
      <3>1. req' = [req EXCEPT ![r] = Idle] /\ Idle.pc = "idle"
        BY <2>2 DEF DeleteIndexed, Finish, Goto, Idle
      <3> QED
        BY <3>1 DEF TypeOK, EngineTypeOK
    <2> QED
      BY <2>1, <2>2
  <1>5. RequestTrue(r)'
    BY <1>4 DEF RequestTrue
  <1> QED
    BY <1>1, <1>2, <1>4, <1>5, RequestsTrueStep DEF StoresTrue

LEMMA ReadTrue ==
    ASSUME TypeOK, StoresTrue, NEW r \in Requests, Locate(r) \/ Fetch(r)
    PROVE  StoresTrue' /\ ChannelEvolves
  <1>1. CASE Finish(r)
    BY <1>1, FinishTrue DEF Locate, Fetch
  <1>2. CASE Locate(r) /\ ~Finish(r)
    <2>1. /\ Visible(req[r].id, req[r].by)
          /\ req' = [req EXCEPT ![r] = [pc |-> "fetch", by |-> req[r].by,
                                        hdr |-> req[r].hdr, rec |-> files[req[r].id]]]
      BY <1>2 DEF Locate, Goto
    <2>2. /\ req'[r].pc = "fetch" /\ req'[r].hdr = req[r].hdr
          /\ req'[r].rec = files[req[r].id]
      BY <2>1 DEF TypeOK, EngineTypeOK
    <2>3. /\ req[r].id \in DOMAIN files
          /\ HeldContent(req[r].id, req[r].hdr.hash)
      BY <1>2, <2>1 DEF Visible, Locate, At, StoresTrue, RequestsTrue, RequestTrue
    <2>4. RequestTrue(r)'
      BY <1>2, <2>2, <2>3 DEF RequestTrue, Claim, HeldContent, Locate, channelVars,
                              StoresTrue, RowsTrue
    <2> QED
      BY <1>2, <2>1, <2>4, QuietStep DEF Locate
  <1>3. CASE Fetch(r) /\ ~Finish(r)
    <2> DEFINE m == req[r].rec.message_id
    <2>1. /\ m \in DOMAIN messages
          /\ req' = [req EXCEPT ![r] = [pc |-> "stream", by |-> req[r].by,
                                        hdr |-> req[r].hdr, body |-> messages[m].document]]
      BY <1>3 DEF Fetch, Goto
    <2>2. /\ req'[r].pc = "stream" /\ req'[r].hdr = req[r].hdr
          /\ req'[r].body = messages[m].document
      BY <2>1 DEF TypeOK, EngineTypeOK
    <2>3. Claim(m, req[r].hdr.hash)
      BY <1>3 DEF Fetch, At, StoresTrue, RequestsTrue, RequestTrue
    <2>4. RequestTrue(r)'
      BY <2>1, <2>2, <2>3 DEF RequestTrue, Claim
    <2> QED
      BY <1>3, <2>1, <2>4, QuietStep DEF Fetch
  <1> QED
    BY <1>1, <1>2, <1>3

LEMMA RequestStepTrue ==
    ASSUME TypeOK, StoresTrue, NEW r \in Requests, Issue(r) \/ Proceed(r) \/ Fail(r)
    PROVE  StoresTrue' /\ ChannelEvolves
  <1>1. CASE Respond(r) \/ Fail(r)
    BY <1>1, FinishTrue DEF Respond, Fail
  <1> QED
    BY <1>1, IssueTrue, UploadSendTrue, UploadInsertTrue, RenameTrue, DeleteTrue,
       ReadTrue DEF Proceed

-----------------------------------------------------------------------------
(* Every step *)

LEMMA ServeStepInv ==
    ASSUME TruthInv, ServeStep
    PROVE  TruthInv'
  <1> USE DEF TruthInv, AllTypeOK
  <1>1. PICK r \in Requests : Issue(r) \/ Proceed(r) \/ Fail(r)
    BY DEF ServeStep
  <1>2. StoresTrue' /\ ChannelEvolves
    BY <1>1, RequestStepTrue
  <1>3. TypeOK'
    BY <1>1, TypeStep DEF Next
  <1>4. UNCHANGED <<cmd, commands, losses, had>>
    BY DEF ServeStep, maintenanceVars, bounds
  <1>5. MaintenanceTypeOK'
    BY <1>2, <1>4, CommandTypeStays DEF ChannelEvolves, maintenanceVars, bounds
  <1>6. WalkTrue' /\ ListTrue'
    BY <1>2, <1>4, ClaimStays DEF TypeOK, WalkTrue, ListTrue, Claim
  <1> QED
    BY <1>2, <1>3, <1>5, <1>6

\* A step of a command that leaves the stores alone.
LEMMA CommandReads ==
    ASSUME TruthInv, UNCHANGED vars, AllTypeOK',
           cmd'.pc = "walk" => \A m \in DOMAIN cmd'.batch :
               cmd'.batch[m].caption # NoMeta => Claim(m, cmd'.batch[m].caption.hash),
           cmd'.pc = "caption" => \A rec \in cmd'.todo : Claim(rec.message_id, rec.hash)
    PROVE  TruthInv'
  <1>1. UNCHANGED <<files, lastId, messages, lastMessage, req>>
    BY DEF vars
  <1>2. RowsTrue'
    BY <1>1 DEF TruthInv, StoresTrue, RowsTrue, Claim
  <1>3. CaptionsTruthful'
    BY <1>1 DEF TruthInv, StoresTrue, CaptionsTruthful, Captioned
  <1>4. RequestsTrue'
    BY <1>1 DEF TruthInv, StoresTrue, RequestsTrue, RequestTrue, Claim, HeldContent
  <1>5. WalkTrue' /\ ListTrue'
    BY <1>1 DEF WalkTrue, ListTrue, Claim
  <1> QED
    BY <1>2, <1>3, <1>4, <1>5 DEF TruthInv, StoresTrue

\* A step of a command that keeps the claims of requests.
LEMMA CommandWrites ==
    ASSUME TypeOK, RequestsTrue, ChannelEvolves, IndexEvolves, UNCHANGED req
    PROVE  RequestsTrue'
  <1>1. ASSUME NEW q \in Requests PROVE RequestTrue(q)'
    <2>1. req'[q] = req[q] /\ RequestTrue(q)
      BY DEF RequestsTrue
    <2>2. req[q].pc \in {"insert", "edit"} =>
             Claim(req[q].rec.message_id, req[q].rec.hash)'
      BY <2>1, ClaimStays DEF TypeOK, RequestTrue, Claim
    <2>3. req[q].pc = "locate" => HeldContent(req[q].id, req[q].hdr.hash)'
      BY <2>1, HeldContentStays DEF TypeOK, RequestTrue, HeldContent
    <2>4. req[q].pc = "fetch" => Claim(req[q].rec.message_id, req[q].hdr.hash)'
      BY <2>1, ClaimStays DEF TypeOK, RequestTrue, Claim
    <2> QED
      BY <2>1, <2>2, <2>3, <2>4 DEF RequestTrue
  <1> QED
    BY <1>1 DEF RequestsTrue

LEMMA WalkStepInv ==
    ASSUME TruthInv, ReindexReset \/ ReindexFetch \/ ReindexInsert
    PROVE  TruthInv'
  <1> USE DEF TruthInv, AllTypeOK
  <1>0. AllTypeOK'
    BY CommandType DEF CommandStep
  <1>1. CASE ReindexReset
    <2>1. UNCHANGED <<messages, lastMessage, req>> /\ Reset
      BY <1>1 DEF ReindexReset, channelVars, engineVars
    <2>2. ChannelEvolves /\ IndexEvolves /\ CaptionsTruthful'
      BY <2>1, ChannelCalls, IndexStatements, CaptionsStep
         DEF TypeOK, StoresTrue, channelVars
    <2>3. RowsTrue' /\ RequestsTrue'
      BY <2>1, <2>2, RowsTrueStep, CommandWrites DEF TypeOK, StoresTrue
    <2>4. cmd'.pc = "walk" /\ DOMAIN cmd'.batch = {}
      BY <1>1 DEF ReindexReset, BeginCommand
    <2> QED
      BY <1>0, <2>2, <2>3, <2>4 DEF StoresTrue, WalkTrue, ListTrue
  <1>2. CASE ReindexFetch
    <2> DEFINE page == Batch(cmd.offset)
    <2>1. UNCHANGED vars
      BY <1>2 DEF ReindexFetch
    <2>2. CASE cmd' = [pc |-> "walk", offset |-> Min(page), batch |-> Restrict(messages, page)]
      <3>1. /\ cmd'.pc = "walk" /\ DOMAIN cmd'.batch = page
            /\ \A m \in page : cmd'.batch[m] = messages[m]
        BY <2>2 DEF Restrict
      <3>2. page \subseteq DOMAIN messages
        BY DEF Batch
      <3> HIDE DEF page
      <3>3. \A m \in page : messages[m].caption # NoMeta =>
               Claim(m, messages[m].caption.hash)
        BY <3>2 DEF Claim, StoresTrue, CaptionsTruthful, Captioned, TypeOK, ChannelTypeOK
      <3> QED
        BY <1>0, <2>1, <3>1, <3>3, CommandReads
    <2>3. CASE cmd' = [pc |-> "reindexed"]
      <3>1. cmd'.pc = "reindexed"
        BY <2>3
      <3> QED
        BY <1>0, <2>1, <3>1, CommandReads
    <2> QED
      BY <1>2, <2>2, <2>3 DEF ReindexFetch, Continue
  <1>3. CASE ReindexInsert
    <2> DEFINE m == Max(DOMAIN cmd.batch)
               rest == [pc |-> "walk", offset |-> cmd.offset,
                        batch |-> Restrict(cmd.batch, DOMAIN cmd.batch \ {m})]
    <2>1. \/ UNCHANGED indexVars /\ cmd' \in {rest, [pc |-> "aborted"]}
          \/ /\ cmd.batch[m].caption # NoMeta
             /\ Insert(Recovered(m, cmd.batch[m])) /\ cmd' = rest
      BY <1>3 DEF ReindexInsert, Continue, InsertRejected
    <2>2. cmd.pc = "walk" /\ DOMAIN cmd.batch # {} /\ UNCHANGED <<messages, lastMessage, req>>
      BY <1>3 DEF ReindexInsert, channelVars, engineVars
    <2>3. m \in DOMAIN cmd.batch
      BY <2>2, NextOfWalk
    <2>4. /\ Recovered(m, cmd.batch[m]).message_id = m
          /\ Recovered(m, cmd.batch[m]).hash = cmd.batch[m].caption.hash
      BY DEF Recovered
    <2>5. ChannelEvolves /\ IndexEvolves /\ CaptionsTruthful'
      BY <2>1, <2>2, ChannelCalls, IndexStatements, CaptionsStep
         DEF TypeOK, StoresTrue, channelVars
    <2>6. RowsTrue'
      <3>1. cmd.batch[m].caption # NoMeta => Claim(m, cmd.batch[m].caption.hash)
        BY <2>2, <2>3 DEF WalkTrue
      <3> HIDE DEF m
      <3> QED
        BY <2>1, <2>4, <2>5, <3>1, RowsTrueStep DEF TypeOK, StoresTrue
    <2>7. RequestsTrue'
      BY <2>2, <2>5, CommandWrites DEF StoresTrue
    <2>8. WalkTrue' /\ ListTrue'
      <3>1. CASE cmd' = rest
        <4>1. /\ cmd'.pc = "walk" /\ DOMAIN cmd'.batch \subseteq DOMAIN cmd.batch
              /\ \A k \in DOMAIN cmd'.batch : cmd'.batch[k] = cmd.batch[k]
          BY <3>1 DEF Restrict
        <4> QED
          BY <2>2, <4>1 DEF WalkTrue, ListTrue, Claim
      <3>2. CASE cmd' = [pc |-> "aborted"]
        BY <3>2 DEF WalkTrue, ListTrue
      <3> QED
        BY <2>1, <3>1, <3>2
    <2> QED
      BY <1>0, <2>5, <2>6, <2>7, <2>8 DEF StoresTrue
  <1> QED
    BY <1>1, <1>2, <1>3

LEMMA CaptionStepInv ==
    ASSUME TruthInv, CaptionsList \/ CaptionsEdit \/ CaptionsDone
    PROVE  TruthInv'
  <1> USE DEF TruthInv, AllTypeOK
  <1>0. AllTypeOK'
    BY CommandType DEF CommandStep
  <1>1. CASE CaptionsList
    <2>1. UNCHANGED vars /\ cmd'.pc = "caption" /\ cmd'.todo = Rows
      BY <1>1 DEF CaptionsList, BeginCommand
    <2> QED
      BY <1>0, <2>1, CommandReads DEF Rows, StoresTrue, RowsTrue
  <1>2. CASE CaptionsEdit
    <2>1. PICK rec \in cmd.todo :
             \/ /\ EditCaption(rec.message_id, EncodeFileMeta(rec))
                /\ Continue([pc |-> "caption", todo |-> cmd.todo \ {rec}])
             \/ /\ EditRejected(rec.message_id, EncodeFileMeta(rec))
                /\ Continue([pc |-> "aborted"])
      BY <1>2 DEF CaptionsEdit
    <2>2. cmd.pc = "caption" /\ UNCHANGED <<files, lastId, req>>
      BY <1>2 DEF CaptionsEdit, indexVars, engineVars
    <2>3. Claim(rec.message_id, rec.hash)
      BY <2>2 DEF ListTrue
    <2>4. ChannelEvolves /\ IndexEvolves /\ CaptionsTruthful'
      BY <2>1, <2>2, <2>3, ChannelCalls, IndexStatements, CaptionsStep
         DEF TypeOK, StoresTrue, EditRejected, indexVars
    <2>5. RowsTrue' /\ RequestsTrue'
      BY <2>2, <2>4, RowsTrueStep, CommandWrites DEF TypeOK, StoresTrue, indexVars
    <2>6. \/ cmd'.pc = "caption" /\ cmd'.todo \subseteq cmd.todo
          \/ cmd'.pc = "aborted"
      BY <2>1 DEF Continue
    <2>7. WalkTrue' /\ ListTrue'
      BY <2>2, <2>4, <2>6, ClaimStays DEF TypeOK, WalkTrue, ListTrue, Claim
    <2> QED
      BY <1>0, <2>4, <2>5, <2>7 DEF StoresTrue
  <1>3. CASE CaptionsDone
    <2>1. UNCHANGED vars /\ cmd'.pc = "captioned"
      BY <1>3 DEF CaptionsDone, Continue
    <2> QED
      BY <1>0, <2>1, CommandReads
  <1> QED
    BY <1>1, <1>2, <1>3

LEMMA LoseIndexInv ==
    ASSUME TruthInv, LoseIndex
    PROVE  TruthInv'
  <1>1. AllTypeOK'
    BY CommandType DEF TruthInv
  <1>2. UNCHANGED <<messages, lastMessage, req, cmd>> /\ DOMAIN files' = {}
    BY DEF LoseIndex, channelVars
  <1>3. RequestsTrue'
    BY <1>2 DEF LoseIndex, AllIdle, At, RequestsTrue, RequestTrue
  <1>4. CaptionsTruthful'
    BY <1>2 DEF TruthInv, StoresTrue, CaptionsTruthful, Captioned
  <1>5. cmd'.pc = "none"
    BY <1>2 DEF LoseIndex, NoCommand
  <1> QED
    BY <1>1, <1>2, <1>3, <1>4, <1>5 DEF TruthInv, StoresTrue, RowsTrue, WalkTrue, ListTrue

LEMMA TruthInit == MaintenanceInit => TruthInv
  <1> SUFFICES ASSUME MaintenanceInit PROVE TruthInv
    OBVIOUS
  <1>1. \A i \in DOMAIN files :
           /\ files[i].message_id = i /\ files[i].hash = Legacy[i]
           /\ i \in DOMAIN messages /\ messages[i].document = Legacy[i]
    BY DEF MaintenanceInit, LegacyInit
  <1>2. RowsTrue
    BY <1>1, AllTypeInit
       DEF RowsTrue, Claim, AllTypeOK, TypeOK, ChannelTypeOK
  <1>3. RequestsTrue
    BY DEF MaintenanceInit, Idle, RequestsTrue, RequestTrue
  <1>4. CaptionsTruthful
    BY DEF MaintenanceInit, LegacyInit, CaptionsTruthful, Captioned
  <1> QED
    BY <1>2, <1>3, <1>4, AllTypeInit
       DEF TruthInv, StoresTrue, WalkTrue, ListTrue, MaintenanceInit, NoCommand

LEMMA TruthStep == TruthInv /\ [MaintenanceNext]_nuageVars => TruthInv'
  <1> SUFFICES ASSUME TruthInv, [MaintenanceNext]_nuageVars PROVE TruthInv'
    OBVIOUS
  <1>1. CASE UNCHANGED nuageVars
    <2>1. UNCHANGED vars /\ UNCHANGED <<cmd, commands, losses, had>>
      BY <1>1 DEF nuageVars, maintenanceVars, bounds
    <2>2. AllTypeOK'
      BY <2>1 DEF TruthInv, AllTypeOK, TypeOK, IndexTypeOK, ChannelTypeOK, EngineTypeOK,
                  MaintenanceTypeOK, vars
    <2> QED
      BY <2>1, <2>2, CommandReads DEF TruthInv, WalkTrue, ListTrue
  <1>2. CASE CommandExit
    <2>1. UNCHANGED vars /\ cmd'.pc = "none" /\ AllTypeOK'
      BY <1>2, CommandType DEF CommandExit, Continue, NoCommand, CommandStep, TruthInv
    <2> QED
      BY <2>1, CommandReads
  <1>3. CASE CommandFail
    <2>1. UNCHANGED vars /\ cmd'.pc = "aborted" /\ AllTypeOK'
      BY <1>3, CommandType DEF CommandFail, Continue, TruthInv
    <2> QED
      BY <2>1, CommandReads
  <1>4. Settled => UNCHANGED nuageVars
    BY DEF Settled, Quiescent, nuageVars
  <1> QED
    BY <1>1, <1>2, <1>3, <1>4, ServeStepInv, WalkStepInv, CaptionStepInv, LoseIndexInv
       DEF MaintenanceNext, CommandStep

-----------------------------------------------------------------------------
(* Safety *)

\* Every claim about a message is true in every behaviour, for any number of
\* requests, commands, failures and losses of the index.
THEOREM ClaimsAreTrue == MaintenanceSpec => []TruthInv
  BY TruthInit, TruthStep, PTL DEF MaintenanceSpec

\* Rows, messages, requests and the running command keep their types; the
\* page of a walk lies between its offset and the newest message.
THEOREM AllTypesCorrect == MaintenanceSpec => []AllTypeOK
  <1>1. TruthInv => AllTypeOK
    BY DEF TruthInv
  <1> QED
    BY <1>1, ClaimsAreTrue, PTL

\* Uploads, renames and both commands write captions from rows and requests
\* read earlier; no order of them writes a caption of another content.
THEOREM CaptionsAreTruthful == MaintenanceSpec => []CaptionsTruthful
  <1>1. TruthInv => CaptionsTruthful
    BY DEF TruthInv, StoresTrue
  <1> QED
    BY <1>1, ClaimsAreTrue, PTL

\* A stream delivers the content its headers announced, also while a reindex
\* empties and refills the index between the reads of serveFile.
THEOREM ContentServedOnline == MaintenanceSpec => []ServedContent
  <1>1. TruthInv => ServedContent
    BY DEF TruthInv, StoresTrue, RequestsTrue, RequestTrue, ServedContent, At
  <1> QED
    BY <1>1, ClaimsAreTrue, PTL

-----------------------------------------------------------------------------
(* The rebuild.  RebuildExact is about the end of a walk; its invariant is  *)
(* that, at every moment of it, the index holds exactly what the messages   *)
(* handled so far give.                                                     *)

\* The messages a walk has handled: those of its earlier pages, and those of
\* the present one that are no longer in the batch.
Handled ==
    {m \in DOMAIN messages : cmd.offset # 0 /\ m >= cmd.offset /\ m \notin DOMAIN cmd.batch}

RecoveredOf(S) == {Recovered(m, messages[m]) : m \in {n \in S : Captioned(n)}}

\* With the server stopped, a command has the stores to itself.
AloneInv == cmd # NoCommand => AllIdle

WalkExact ==
    /\ cmd.pc = "walk" =>
          /\ \A m \in DOMAIN cmd.batch : m \in DOMAIN messages /\ cmd.batch[m] = messages[m]
          /\ Rows = RecoveredOf(Handled)
    /\ cmd.pc = "reindexed" => Rows = RecoveredOf(DOMAIN messages)

RebuildInv == AloneInv /\ WalkExact

\* A page is the newest part of what is below the offset: it leaves out
\* nothing in its range, and it is empty only at the end of the channel.
LEMMA PageIsNewest ==
    ASSUME ChannelTypeOK, NEW offset \in Nat
    PROVE  LET page == Batch(offset) IN
           /\ page \subseteq {m \in DOMAIN messages : offset = 0 \/ m < offset}
           /\ page = {} => \A m \in DOMAIN messages : offset # 0 /\ m >= offset
           /\ page # {} => \A m \in DOMAIN messages :
                 (offset = 0 \/ m < offset) /\ m >= Min(page) => m \in page
  <1> DEFINE older == {m \in DOMAIN messages : offset = 0 \/ m < offset}
             newer(m) == {n \in older : n > m}
             page == Batch(offset)
  <1>1. /\ lastMessage \in Nat /\ older \subseteq 1..lastMessage /\ IsFiniteSet(older)
        /\ DOMAIN messages \subseteq 1..lastMessage
    <2>1. /\ older \in SUBSET (1..lastMessage) /\ lastMessage \in Int
          /\ lastMessage \in Nat /\ DOMAIN messages \subseteq 1..lastMessage
      BY DEF ChannelTypeOK
    <2>2. IsFiniteSet(1..lastMessage)
      BY <2>1, FS_Interval
    <2> HIDE DEF older
    <2>3. IsFiniteSet(older)
      BY <2>1, <2>2, FS_Subset
    <2> QED
      BY <2>1, <2>3
  <1>2. page = {m \in older : Cardinality(newer(m)) < BatchSize}
    BY DEF Batch
  <1>3. BatchSize \in Nat /\ 0 < BatchSize
    BY MaintenanceAssumption
  <1>4. page = {} => older = {}
    <2> SUFFICES ASSUME older # {} PROVE page # {}
      OBVIOUS
    <2>1. Max(older) \in older /\ \A m \in older : Max(older) >= m
      BY <1>1, MaxIsGreatest
    <2>2. \A m \in older : ~(m > Max(older))
      BY <1>1, <2>1
    <2>3. newer(Max(older)) = {}
      BY <2>2
    <2> HIDE DEF page, older, newer
    <2>4. Max(older) \in page
      BY <1>2, <1>3, <2>1, <2>3, FS_EmptySet
    <2> QED
      BY <2>4
  <1>5. ASSUME page # {}, NEW m \in older, m >= Min(page)
        PROVE  m \in page
    <2>1. page \in SUBSET Nat /\ page \subseteq older
      BY <1>1, <1>2
    <2> DEFINE k == Min(page)
    <2>2. k \in page
      BY <1>5, <2>1, MinIsLeast
    <2> HIDE DEF page
    <2>3. k \in older /\ k <= m /\ m \in Nat /\ k \in Nat
      <3>1. m >= k
        BY <1>5
      <3>2. k \in older
        BY <2>1, <2>2
      <3>3. older \subseteq Nat
        BY <1>1
      <3> HIDE DEF k, older
      <3> QED
        BY <3>1, <3>2, <3>3
    <2> HIDE DEF k
    <2>4. newer(m) \in SUBSET newer(k) /\ newer(k) \in SUBSET older
      BY <1>1, <2>3
    <2> HIDE DEF newer, older
    <2>5. /\ IsFiniteSet(newer(k)) /\ IsFiniteSet(newer(m))
          /\ Cardinality(newer(m)) <= Cardinality(newer(k))
      BY <1>1, <2>4, FS_Subset
    <2>6. Cardinality(newer(k)) < BatchSize
      BY <1>2, <2>2
    <2>7. Cardinality(newer(k)) \in Nat /\ Cardinality(newer(m)) \in Nat
      BY <2>5, FS_CardinalityType
    <2>8. Cardinality(newer(m)) < BatchSize
      BY <1>3, <2>5, <2>6, <2>7
    <2> QED
      BY <1>2, <2>8, <1>5
  <1>6. page \subseteq older
    BY <1>2
  <1>7. older = {} => \A m \in DOMAIN messages : offset # 0 /\ m >= offset
    BY <1>1
  <1>8. \A m \in DOMAIN messages : offset = 0 \/ m < offset => m \in older
    OBVIOUS
  <1> HIDE DEF page
  <1> QED
    BY <1>4, <1>5, <1>6, <1>7, <1>8 DEF page

LEMMA RebuildInit == MaintenanceInit => RebuildInv
  BY DEF MaintenanceInit, NoCommand, RebuildInv, AloneInv, WalkExact

\* Nobody is served while a command runs alone.
LEMMA NobodyServed ==
    ASSUME Exclusive, AloneInv, ServeStep
    PROVE  cmd = NoCommand /\ cmd' = NoCommand
  <1>1. PICK r \in Requests : \/ (Exclusive => cmd = NoCommand) /\ Issue(r)
                              \/ Proceed(r)
                              \/ Fail(r)
    BY DEF ServeStep
  <1>2. cmd # NoCommand => req[r].pc = "idle"
    BY DEF AloneInv, AllIdle, At
  <1>3. Proceed(r) \/ Fail(r) => req[r].pc # "idle"
    BY DEF Proceed, Fail, UploadSend, UploadInsert, Respond, RenameUpdate, RenameReread,
           RenameEdit, DeleteMessage, DeleteIndexed, Locate, Fetch, At
  <1>4. cmd' = cmd
    BY DEF ServeStep, maintenanceVars
  <1> QED
    BY <1>1, <1>2, <1>3, <1>4

LEMMA FetchExact ==
    ASSUME AllTypeOK, WalkExact, ReindexFetch
    PROVE  WalkExact'
  <1> DEFINE page == Batch(cmd.offset)
  <1>1. UNCHANGED <<files, messages>> /\ cmd.pc = "walk" /\ DOMAIN cmd.batch = {}
    BY DEF ReindexFetch, vars
  <1>2. cmd.offset \in Nat /\ ChannelTypeOK /\ DOMAIN messages \subseteq Nat \ {0}
    BY <1>1 DEF AllTypeOK, TypeOK, ChannelTypeOK, MaintenanceTypeOK
  <1>3. Rows = RecoveredOf(Handled) /\ Handled = {m \in DOMAIN messages : cmd.offset # 0 /\ m >= cmd.offset}
    BY <1>1 DEF WalkExact, Handled
  <1>4. CASE page # {} /\ cmd' = [pc |-> "walk", offset |-> Min(page),
                                  batch |-> Restrict(messages, page)]
    <2>1. /\ page \subseteq {m \in DOMAIN messages : cmd.offset = 0 \/ m < cmd.offset}
          /\ \A m \in DOMAIN messages :
                (cmd.offset = 0 \/ m < cmd.offset) /\ m >= Min(page) => m \in page
      BY <1>2, <1>4, PageIsNewest
    <2>2. /\ cmd'.pc = "walk" /\ cmd'.offset = Min(page) /\ DOMAIN cmd'.batch = page
          /\ \A m \in page : cmd'.batch[m] = messages[m]
      BY <1>4 DEF Restrict
    <2>3. Min(page) \in page
      <3>1. page \in SUBSET Nat /\ page # {}
        BY <1>2, <1>4, <2>1
      <3> QED
        BY <3>1, MinIsLeast
    <2> HIDE DEF page
    <2>4. /\ Min(page) # 0
          /\ \A m \in DOMAIN messages :
                m >= Min(page) /\ m \notin page <=> cmd.offset # 0 /\ m >= cmd.offset
      BY <1>2, <2>1, <2>3
    <2>5. Handled' = Handled
      BY <1>1, <1>3, <2>2, <2>4 DEF Handled
    <2>6. Rows' = Rows /\ RecoveredOf(Handled)' = RecoveredOf(Handled)
      BY <1>1, <2>5 DEF Rows, RecoveredOf, Captioned, Recovered
    <2> QED
      BY <1>1, <1>3, <2>1, <2>2, <2>6 DEF WalkExact
  <1>5. CASE page = {} /\ cmd' = [pc |-> "reindexed"]
    <2>1. \A m \in DOMAIN messages : cmd.offset # 0 /\ m >= cmd.offset
      BY <1>2, <1>5, PageIsNewest
    <2>2. Handled = DOMAIN messages
      BY <1>3, <2>1
    <2>3. Rows' = Rows /\ RecoveredOf(DOMAIN messages)' = RecoveredOf(DOMAIN messages)
      BY <1>1 DEF Rows, RecoveredOf, Captioned, Recovered
    <2> QED
      BY <1>3, <1>5, <2>2, <2>3 DEF WalkExact
  <1> QED
    BY <1>4, <1>5 DEF ReindexFetch, Continue

LEMMA InsertExact ==
    ASSUME AllTypeOK, WalkExact, ReindexInsert
    PROVE  WalkExact'
  <1> DEFINE m == Max(DOMAIN cmd.batch)
             rest == [pc |-> "walk", offset |-> cmd.offset,
                      batch |-> Restrict(cmd.batch, DOMAIN cmd.batch \ {m})]
  <1>1. \/ cmd' = rest /\ cmd.batch[m].caption = NoMeta /\ UNCHANGED indexVars
        \/ /\ cmd' = rest /\ cmd.batch[m].caption # NoMeta
           /\ Insert(Recovered(m, cmd.batch[m]))
        \/ cmd' = [pc |-> "aborted"]
    BY DEF ReindexInsert, Continue
  <1>2. cmd.pc = "walk" /\ DOMAIN cmd.batch # {} /\ messages' = messages
    BY DEF ReindexInsert, channelVars
  <1>3. m \in DOMAIN cmd.batch /\ m \in DOMAIN messages /\ cmd.batch[m] = messages[m]
    BY <1>2, NextOfWalk DEF WalkExact
  <1>4. cmd.offset # 0 /\ m >= cmd.offset
    BY <1>2, <1>3 DEF AllTypeOK, MaintenanceTypeOK
  <1> HIDE DEF m
  <1>5. CASE cmd' = rest
    <2>1. /\ cmd'.pc = "walk" /\ cmd'.offset = cmd.offset
          /\ DOMAIN cmd'.batch = DOMAIN cmd.batch \ {m}
          /\ \A n \in DOMAIN cmd'.batch : cmd'.batch[n] = cmd.batch[n]
      BY <1>5 DEF Restrict
    <2>2. Handled' = Handled \cup {m}
      BY <1>2, <1>3, <1>4, <2>1 DEF Handled
    <2>3. RecoveredOf(Handled)' =
             {Recovered(n, messages[n]) : n \in {k \in Handled \cup {m} : Captioned(k)}}
      BY <1>2, <2>2 DEF RecoveredOf, Captioned, Recovered
    <2>4. CASE cmd.batch[m].caption = NoMeta /\ UNCHANGED indexVars
      <3>1. ~Captioned(m) /\ Rows' = Rows
        BY <1>3, <2>4 DEF Captioned, Rows, indexVars
      <3>2. RecoveredOf(Handled)' = RecoveredOf(Handled)
        BY <2>3, <3>1 DEF RecoveredOf
      <3> QED
        BY <1>2, <2>1, <3>1, <3>2 DEF WalkExact
    <2>5. CASE cmd.batch[m].caption # NoMeta /\ Insert(Recovered(m, cmd.batch[m]))
      <3>1. Captioned(m) /\ Insert(Recovered(m, messages[m]))
        BY <1>3, <2>5 DEF Captioned
      <3>2. RecoveredOf(Handled)' = RecoveredOf(Handled) \cup {Recovered(m, messages[m])}
        BY <2>3, <3>1 DEF RecoveredOf
      <3>3. Rows' = Rows \cup {Recovered(m, messages[m])}
        <4>1. lastId \in Nat /\ DOMAIN files \subseteq 1..lastId
          BY DEF AllTypeOK, TypeOK, IndexTypeOK
        <4>2. lastId + 1 \notin DOMAIN files
          BY <4>1
        <4> QED
          BY <3>1, <4>2 DEF Rows, Insert
      <3> QED
        BY <1>2, <2>1, <3>2, <3>3 DEF WalkExact
    <2> QED
      BY <1>1, <1>5, <2>4, <2>5
  <1>6. CASE cmd' = [pc |-> "aborted"]
    BY <1>6 DEF WalkExact
  <1> QED
    BY <1>1, <1>5, <1>6

LEMMA RebuildStep ==
    ASSUME Exclusive, AllTypeOK, RebuildInv, [MaintenanceNext]_nuageVars
    PROVE  RebuildInv'
  <1> USE DEF RebuildInv
  <1>1. CASE ServeStep
    BY <1>1, NobodyServed DEF NoCommand, AloneInv, WalkExact
  <1>2. CASE ReindexReset
    <2>1. /\ cmd'.pc = "walk" /\ cmd'.offset = 0 /\ DOMAIN cmd'.batch = {}
          /\ AllIdle /\ UNCHANGED <<messages, lastMessage, req>> /\ DOMAIN files' = {}
      BY <1>2 DEF ReindexReset, BeginCommand, Reset, channelVars, engineVars
    <2>2. Handled' = {} /\ Rows' = {}
      BY <2>1 DEF Handled, Rows, AllTypeOK, TypeOK, ChannelTypeOK
    <2>3. RecoveredOf(Handled)' = {}
      BY <2>2 DEF RecoveredOf
    <2> QED
      BY <2>1, <2>2, <2>3 DEF AloneInv, WalkExact, AllIdle, At
  <1>3. CASE CaptionsList
    BY <1>3 DEF CaptionsList, BeginCommand, AloneInv, WalkExact, AllIdle, At, vars
  <1>4. CASE ReindexFetch \/ ReindexInsert
    <2>1. WalkExact'
      BY <1>4, FetchExact, InsertExact
    <2>2. cmd # NoCommand /\ req' = req
      BY <1>4 DEF ReindexFetch, ReindexInsert, NoCommand, vars, engineVars
    <2> QED
      BY <2>1, <2>2 DEF AloneInv, AllIdle, At
  <1>5. CASE CaptionsEdit
    <2>1. cmd'.pc \in {"caption", "aborted"}
      BY <1>5 DEF CaptionsEdit, Continue
    <2>2. cmd # NoCommand /\ req' = req
      BY <1>5 DEF CaptionsEdit, NoCommand, engineVars
    <2> QED
      BY <2>1, <2>2 DEF AloneInv, WalkExact, AllIdle, At
  <1>6. CASE CaptionsDone \/ CommandFail
    BY <1>6 DEF CaptionsDone, CommandFail, Continue, NoCommand, AloneInv, WalkExact,
                AllIdle, At, vars
  <1>7. CASE CommandExit \/ LoseIndex
    BY <1>7 DEF CommandExit, LoseIndex, Continue, NoCommand, AloneInv, WalkExact
  <1>8. CASE UNCHANGED nuageVars \/ Settled
    <2>1. UNCHANGED <<cmd, req, files, messages>>
      BY <1>8 DEF Settled, Quiescent, nuageVars, maintenanceVars, vars
    <2>2. UNCHANGED <<Rows, Handled>>
      BY <2>1 DEF Rows, Handled
    <2>3. UNCHANGED <<RecoveredOf(Handled), RecoveredOf(DOMAIN messages)>>
      BY <2>1, <2>2 DEF RecoveredOf, Captioned, Recovered
    <2> QED
      BY <2>1, <2>2, <2>3 DEF AloneInv, WalkExact, AllIdle, At
  <1> QED
    BY <1>1, <1>2, <1>3, <1>4, <1>5, <1>6, <1>7, <1>8 DEF MaintenanceNext, CommandStep

\* A reindex that reports success while the server was stopped leaves exactly
\* what the captions of the channel give, for any number of messages, any
\* page size and any earlier history of failures.
THEOREM RebuildsExactly == MaintenanceSpec => []RebuildExact
  <1>1. MaintenanceInit /\ Exclusive => RebuildInv
    BY RebuildInit
  <1>2. Exclusive /\ AllTypeOK /\ RebuildInv /\ [MaintenanceNext]_nuageVars => RebuildInv'
    BY RebuildStep
  <1>3. Exclusive /\ RebuildInv => RebuildExact
    BY DEF RebuildInv, WalkExact, RecoveredOf, RebuildExact
  <1>4. ~Exclusive => RebuildExact
    BY DEF RebuildExact
  <1>5. CASE Exclusive
    <2>1. MaintenanceInit => RebuildInv
      BY <1>1, <1>5
    <2>2. AllTypeOK /\ RebuildInv /\ [MaintenanceNext]_nuageVars => RebuildInv'
      BY <1>2, <1>5
    <2>3. RebuildInv => RebuildExact
      BY <1>3, <1>5
    <2> QED
      BY <2>1, <2>2, <2>3, AllTypesCorrect, PTL DEF MaintenanceSpec
  <1>6. CASE ~Exclusive
    <2>1. RebuildExact
      BY <1>4, <1>6
    <2> QED
      BY <2>1, PTL
  <1> QED
    BY <1>5, <1>6

-----------------------------------------------------------------------------
(* Reachable files.  RowsReachable says that a row nobody asked to delete   *)
(* has its document; requests write the channel and the index in separate   *)
(* steps, so the invariant says what they hold in between.                  *)

RowsLive == \A i \in DOMAIN files \ deleting : files[i].message_id \in DOMAIN messages

\* Between sending and recording, an upload is alone with its message.
UploadAlone(r) == Pending(r) =>
    LET m == req[r].rec.message_id IN
    /\ m \in DOMAIN messages
    /\ \A i \in DOMAIN files : files[i].message_id # m
    /\ \A q \in Requests : Pending(q) /\ q # r => req[q].rec.message_id # m

\* The message about to be deleted is that of the row about to be deleted.
DeleteHeld(r) == At(r, "unsend") =>
    /\ req[r].id \in deleting
    /\ HeldMessage(req[r].message_id)
    /\ \A i \in DOMAIN files :
          files[i].message_id = req[r].message_id => i = req[r].id

ReachInv ==
    /\ RowsLive
    /\ RowsOwnMessages
    /\ \A r \in Requests : UploadAlone(r) /\ DeleteHeld(r)

\* A step after which rows and messages are the same or fewer.
Subsides ==
    /\ UNCHANGED <<deleting, lastMessage>>
    /\ DOMAIN files' \subseteq DOMAIN files
    /\ \A i \in DOMAIN files' : files'[i].message_id = files[i].message_id
    /\ DOMAIN messages' = DOMAIN messages

\* The steps of a request that matter to what is reachable; all others only
\* read, rename, edit a caption, or remove a row.
LEMMA StepKinds ==
    ASSUME TypeOK, NEW r \in Requests, Issue(r) \/ Proceed(r) \/ Fail(r)
    PROVE  /\ req' = [req EXCEPT ![r] = req'[r]]
           /\ \/ UploadSend(r)
              \/ UploadInsert(r) /\ Insert(req[r].rec) /\ req'[r].pc = "uploaded"
              \/ \E owner, id : DeleteGet(r, owner, id)
              \/ DeleteMessage(r) /\ req'[r].pc = "unindex"
              \/ Subsides /\ req'[r].pc \notin {"insert", "unsend"}
  <1> DEFINE Slot == req' = [req EXCEPT ![r] = req'[r]]
             Plain == Subsides /\ req'[r].pc \notin {"insert", "unsend"}
  <1>0. req \in [Requests -> Request] /\ IndexTypeOK /\ ChannelTypeOK
    BY DEF TypeOK, EngineTypeOK
  <1>1. UNCHANGED <<indexVars, channelVars, deleting>> => Subsides
    BY DEF Subsides, indexVars, channelVars
  <1>2. ASSUME NEW s, Goto(r, s)
        PROVE  Slot /\ req'[r] = s
    BY <1>0, <1>2 DEF Goto
  <1>3. ASSUME NEW s, Begin(r, s)
        PROVE  Slot /\ req'[r] = s
    BY <1>0, <1>3 DEF Begin
  <1>4. Finish(r) => Slot /\ req'[r].pc = "idle"
    BY <1>2 DEF Finish, Idle
  <1>5. ASSUME NEW owner, NEW path, NEW hash, UploadFind(r, owner, path, hash)
        PROVE  Slot /\ Plain
    <2>1. UNCHANGED <<indexVars, channelVars, deleting>>
      BY <1>5 DEF UploadFind
    <2>2. \E s : Begin(r, s) /\ s.pc \in {"uploaded", "send"}
      <3> DEFINE new == [pc |-> "send", by |-> owner,
                         rec |-> [path |-> path, filename |-> Base(path), owner |-> owner,
                                  hash |-> hash, message_id |-> 0]]
                 old(i) == [pc |-> "uploaded", by |-> owner, id |-> i, rec |-> files[i]]
      <3>1. Begin(r, new) \/ \E i : Begin(r, old(i))
        BY <1>5 DEF UploadFind
      <3>2. new.pc = "send" /\ \A i : old(i).pc = "uploaded"
        OBVIOUS
      <3> HIDE DEF new, old
      <3> QED
        BY <3>1, <3>2
    <2> QED
      BY <1>1, <1>3, <2>1, <2>2
  <1>6. ASSUME NEW id, NEW owner, NEW name, RenameGet(r, owner, id, name)
        PROVE  Slot /\ Plain
    BY <1>1, <1>3, <1>6 DEF RenameGet
  <1>7. ASSUME NEW id, NEW owner, ServeRecord(r, owner, id)
        PROVE  Slot /\ Plain
    BY <1>1, <1>3, <1>7 DEF ServeRecord
  <1>8. ASSUME NEW id, DownloadGet(r, id)
        PROVE  Slot /\ Plain
    BY <1>1, <1>3, <1>8 DEF DownloadGet
  <1>9. ASSUME NEW id, NEW owner, DeleteGet(r, owner, id)
        PROVE  Slot
    BY <1>3, <1>9 DEF DeleteGet
  <1>10. UploadSend(r) => Slot
    BY <1>2 DEF UploadSend
  <1>11. ASSUME UploadInsert(r)
         PROVE  Slot /\ (Plain \/ (Insert(req[r].rec) /\ req'[r].pc = "uploaded"))
    <2>1. CASE InsertRejected(req[r].rec) /\ Finish(r)
      BY <1>1, <1>4, <1>11, <2>1 DEF UploadInsert, InsertRejected
    <2>2. CASE /\ Insert(req[r].rec)
               /\ Goto(r, [pc |-> "uploaded", by |-> req[r].by, id |-> lastId + 1,
                           rec |-> req[r].rec])
      BY <1>2, <2>2
    <2> QED
      BY <1>11, <2>1, <2>2 DEF UploadInsert
  <1>12. ASSUME RenameUpdate(r) PROVE Slot /\ Plain
    <2>1. CASE NoSuchRow(req[r].id) /\ Finish(r)
      BY <1>1, <1>4, <1>12, <2>1 DEF RenameUpdate, NoSuchRow
    <2>2. CASE /\ RenameRow(req[r].id, req[r].filename)
               /\ Goto(r, [req[r] EXCEPT !.pc = "reread"])
      <3>1. req[r] \in RenameReq
        BY <1>0, <1>12, RequestTyping DEF RenameUpdate, At
      <3>2. [req[r] EXCEPT !.pc = "reread"].pc = "reread"
        BY <3>1 DEF RenameReq
      <3>3. /\ DOMAIN files' = DOMAIN files
            /\ \A i \in DOMAIN files' : files'[i].message_id = files[i].message_id
        BY <1>0, <2>2 DEF RenameRow, IndexTypeOK, Record
      <3> QED
        BY <1>2, <1>12, <2>2, <3>2, <3>3 DEF RenameUpdate, Subsides, channelVars
    <2> QED
      BY <1>12, <2>1, <2>2 DEF RenameUpdate
  <1>13. RenameReread(r) => Slot /\ Plain
    BY <1>1, <1>2, <1>4 DEF RenameReread
  <1>14. ASSUME RenameEdit(r) PROVE Slot /\ Plain
    <2>1. DOMAIN messages' = DOMAIN messages /\ lastMessage' = lastMessage
      BY <1>0, <1>14 DEF RenameEdit, EditCaption, EditRejected, channelVars, ChannelTypeOK
    <2> QED
      BY <1>4, <1>14, <2>1 DEF RenameEdit, Subsides, indexVars
  <1>15. ASSUME DeleteMessage(r) PROVE Slot /\ req'[r].pc = "unindex"
    <2>1. req[r] \in DeleteReq
      BY <1>0, <1>15, RequestTyping DEF DeleteMessage, At
    <2>2. [req[r] EXCEPT !.pc = "unindex"].pc = "unindex"
      BY <2>1 DEF DeleteReq
    <2> QED
      BY <1>2, <1>15, <2>2 DEF DeleteMessage
  <1>16. ASSUME DeleteIndexed(r) PROVE Slot /\ Plain
    BY <1>4, <1>16 DEF DeleteIndexed, DeleteRow, NoSuchRow, Restrict, Subsides,
                       indexVars, channelVars
  <1>17. Locate(r) \/ Fetch(r) \/ Respond(r) \/ Fail(r) => Slot /\ Plain
    BY <1>1, <1>2, <1>4 DEF Locate, Fetch, Respond, Fail
  <1> HIDE DEF Slot, Plain
  <1>18. CASE Issue(r)
    BY <1>18, <1>5, <1>6, <1>7, <1>8, <1>9 DEF Issue, Slot, Plain
  <1> QED
    BY <1>10, <1>11, <1>12, <1>13, <1>14, <1>15, <1>16, <1>17, <1>18
       DEF Proceed, Slot, Plain

LEMMA ReachSubsides ==
    ASSUME EngineTypeOK, ReachInv, Subsides,
           NEW r \in Requests, req' = [req EXCEPT ![r] = req'[r]],
           req'[r].pc \notin {"insert", "unsend"}
    PROVE  ReachInv'
  <1> USE DEF ReachInv, Subsides
  <1>1. RowsLive' /\ RowsOwnMessages'
    BY DEF RowsLive, RowsOwnMessages
  <1>2. \A q \in Requests : q # r => req'[q] = req[q]
    BY DEF EngineTypeOK
  <1>3. ASSUME NEW q \in Requests PROVE UploadAlone(q)' /\ DeleteHeld(q)'
    BY <1>2 DEF UploadAlone, DeleteHeld, HeldMessage, Pending, At
  <1> QED
    BY <1>1, <1>3

LEMMA ReachSend ==
    ASSUME TypeOK, ReachInv, NEW r \in Requests, UploadSend(r)
    PROVE  ReachInv'
  <1> USE DEF ReachInv
  <1>1. /\ lastMessage' = lastMessage + 1 /\ lastMessage \in Nat
        /\ DOMAIN messages \subseteq 1..lastMessage
        /\ DOMAIN messages' = DOMAIN messages \cup {lastMessage + 1}
        /\ UNCHANGED <<files, deleting>>
    BY DEF UploadSend, SendFile, indexVars, TypeOK, ChannelTypeOK
  <1>2. req[r].rec \in Record
    BY RequestTyping DEF UploadSend, At, TypeOK, EngineTypeOK, UploadReq
  <1>3. /\ req'[r].pc = "insert" /\ req'[r].rec.message_id = lastMessage + 1
        /\ \A q \in Requests : q # r => req'[q] = req[q]
    BY <1>2 DEF UploadSend, Goto, TypeOK, EngineTypeOK, Record
  <1>4. RowsLive' /\ RowsOwnMessages'
    BY <1>1 DEF RowsLive, RowsOwnMessages
  <1>5. \A q \in Requests : Pending(q) => req[q].rec.message_id \in 1..lastMessage
    BY <1>1 DEF UploadAlone
  <1>6. \A i \in DOMAIN files : files[i].message_id # lastMessage + 1
    BY <1>1 DEF RowsOwnMessages
  <1>7. ASSUME NEW q \in Requests PROVE UploadAlone(q)'
    BY <1>1, <1>3, <1>5, <1>6 DEF UploadAlone, Pending, At
  <1>8. ASSUME NEW q \in Requests PROVE DeleteHeld(q)'
    BY <1>1, <1>3 DEF DeleteHeld, HeldMessage, Pending, At
  <1> QED
    BY <1>4, <1>7, <1>8

LEMMA ReachRecord ==
    ASSUME TypeOK, ReachInv, NEW r \in Requests, UploadInsert(r), Insert(req[r].rec),
           req' = [req EXCEPT ![r] = req'[r]], req'[r].pc = "uploaded"
    PROVE  ReachInv'
  <1> USE DEF ReachInv
  <1> DEFINE m == req[r].rec.message_id
  <1>1. UNCHANGED <<messages, lastMessage, deleting>>
    BY DEF UploadInsert, channelVars
  <1>2. /\ DOMAIN files' = DOMAIN files \cup {lastId + 1} /\ lastId + 1 \notin DOMAIN files
        /\ files'[lastId + 1] = req[r].rec
        /\ \A i \in DOMAIN files : files'[i] = files[i]
    <2>1. lastId \in Nat /\ DOMAIN files \subseteq 1..lastId
      BY DEF TypeOK, IndexTypeOK
    <2>2. lastId + 1 \notin DOMAIN files
      BY <2>1
    <2> QED
      BY <2>2 DEF Insert
  <1>3. /\ m \in DOMAIN messages /\ m \in 1..lastMessage
        /\ \A i \in DOMAIN files : files[i].message_id # m
        /\ \A q \in Requests : Pending(q) /\ q # r => req[q].rec.message_id # m
        /\ Pending(r)
    BY DEF UploadInsert, UploadAlone, Pending, At, TypeOK, ChannelTypeOK
  <1>4. \A q \in Requests : q # r => req'[q] = req[q]
    BY DEF TypeOK, EngineTypeOK
  <1>5. RowsLive' /\ RowsOwnMessages'
    BY <1>1, <1>2, <1>3 DEF RowsLive, RowsOwnMessages
  <1>6. ASSUME NEW q \in Requests PROVE UploadAlone(q)'
    BY <1>1, <1>2, <1>3, <1>4 DEF UploadAlone, Pending, At
  <1>7. ASSUME NEW q \in Requests PROVE DeleteHeld(q)'
    BY <1>1, <1>2, <1>3, <1>4 DEF DeleteHeld, HeldMessage, Pending, At
  <1> QED
    BY <1>5, <1>6, <1>7

LEMMA ReachDeleteGet ==
    ASSUME TypeOK, ReachInv, NEW r \in Requests, NEW owner, NEW id, DeleteGet(r, owner, id)
    PROVE  ReachInv'
  <1> USE DEF ReachInv
  <1>1. /\ UNCHANGED <<files, messages, lastMessage>> /\ deleting' = deleting \cup {id}
        /\ id \in DOMAIN files
    BY DEF DeleteGet, Visible, indexVars, channelVars
  <1>2. /\ req'[r].pc = "unsend" /\ req'[r].id = id
        /\ req'[r].message_id = files[id].message_id
        /\ \A q \in Requests : q # r => req'[q] = req[q]
    BY DEF DeleteGet, Begin, TypeOK, EngineTypeOK
  <1>3. RowsLive' /\ RowsOwnMessages'
    BY <1>1 DEF RowsLive, RowsOwnMessages
  <1>4. HeldMessage(files[id].message_id)
    BY <1>1 DEF HeldMessage, RowsOwnMessages, UploadAlone
  <1>5. ASSUME NEW q \in Requests PROVE UploadAlone(q)'
    BY <1>1, <1>2 DEF UploadAlone, Pending, At
  <1>6. ASSUME NEW q \in Requests PROVE DeleteHeld(q)'
    BY <1>1, <1>2, <1>4 DEF DeleteHeld, HeldMessage, RowsOwnMessages, Pending, At
  <1> QED
    BY <1>3, <1>5, <1>6

LEMMA ReachDeleteMessage ==
    ASSUME TypeOK, ReachInv, NEW r \in Requests, DeleteMessage(r),
           req' = [req EXCEPT ![r] = req'[r]], req'[r].pc = "unindex"
    PROVE  ReachInv'
  <1> USE DEF ReachInv
  <1> DEFINE m == req[r].message_id
  <1>1. /\ UNCHANGED <<files, lastMessage, deleting>>
        /\ DOMAIN messages' = DOMAIN messages \ {m}
    BY DEF DeleteMessage, DeleteMessages, Restrict, indexVars
  <1>2. /\ req[r].id \in deleting /\ HeldMessage(m)
        /\ \A i \in DOMAIN files : files[i].message_id = m => i = req[r].id
    BY DEF DeleteMessage, DeleteHeld, At
  <1>3. \A q \in Requests : q # r => req'[q] = req[q]
    BY DEF TypeOK, EngineTypeOK
  <1>4. RowsLive' /\ RowsOwnMessages'
    BY <1>1, <1>2 DEF RowsLive, RowsOwnMessages
  <1>5. ASSUME NEW q \in Requests PROVE UploadAlone(q)'
    BY <1>1, <1>2, <1>3 DEF UploadAlone, HeldMessage, Pending, At
  <1>6. ASSUME NEW q \in Requests PROVE DeleteHeld(q)'
    BY <1>1, <1>3 DEF DeleteHeld, HeldMessage, Pending, At
  <1> QED
    BY <1>4, <1>5, <1>6

LEMMA ReachServe ==
    ASSUME TypeOK, ReachInv, ServeStep
    PROVE  ReachInv'
  <1>1. PICK r \in Requests : Issue(r) \/ Proceed(r) \/ Fail(r)
    BY DEF ServeStep
  <1>2. /\ req' = [req EXCEPT ![r] = req'[r]]
        /\ \/ UploadSend(r)
           \/ UploadInsert(r) /\ Insert(req[r].rec) /\ req'[r].pc = "uploaded"
           \/ \E owner, id : DeleteGet(r, owner, id)
           \/ DeleteMessage(r) /\ req'[r].pc = "unindex"
           \/ Subsides /\ req'[r].pc \notin {"insert", "unsend"}
    BY <1>1, StepKinds
  <1> QED
    BY <1>2, ReachSubsides, ReachSend, ReachRecord, ReachDeleteGet, ReachDeleteMessage
       DEF TypeOK

\* A step that leaves the requests and the messages' ids alone and adds no row.
LEMMA ReachCommand ==
    ASSUME ReachInv, UNCHANGED <<req, deleting, lastMessage>>,
           DOMAIN messages' = DOMAIN messages, files' = files
    PROVE  ReachInv'
  BY DEF ReachInv, RowsLive, RowsOwnMessages, UploadAlone, DeleteHeld, HeldMessage, Pending, At

\* An emptied index.
LEMMA ReachEmptied ==
    ASSUME AllIdle, UNCHANGED req, DOMAIN files' = {}
    PROVE  ReachInv'
  BY DEF ReachInv, RowsLive, RowsOwnMessages, UploadAlone, DeleteHeld, Pending, At, AllIdle

\* A recovered row is the only one of its message.
LEMMA ReachRecovered ==
    ASSUME AllTypeOK, ReachInv, RebuildInv, ReindexInsert
    PROVE  ReachInv'
  <1> USE DEF ReachInv, AllTypeOK, TypeOK
  <1> DEFINE m == Max(DOMAIN cmd.batch)
  <1>1. /\ UNCHANGED <<messages, lastMessage, req, deleting>>
        /\ UNCHANGED indexVars \/ Insert(Recovered(m, cmd.batch[m]))
    BY DEF ReindexInsert, InsertRejected, channelVars, engineVars
  <1>2. cmd.pc = "walk" /\ DOMAIN cmd.batch # {} /\ AllIdle
    BY DEF ReindexInsert, RebuildInv, AloneInv, NoCommand
  <1>3. m \in DOMAIN cmd.batch /\ m \in DOMAIN messages /\ m \in 1..lastMessage
    BY <1>2, NextOfWalk DEF RebuildInv, WalkExact
  <1>4. Recovered(m, cmd.batch[m]).message_id = m
    BY DEF Recovered
  <1> HIDE DEF m
  <1>5. \A i \in DOMAIN files : files[i].message_id # m
    <2> SUFFICES ASSUME NEW i \in DOMAIN files PROVE files[i].message_id # m
      OBVIOUS
    <2>1. files[i] \in RecoveredOf(Handled)
      BY <1>2 DEF RebuildInv, WalkExact, Rows
    <2>2. files[i].message_id \in Handled
      BY <2>1 DEF RecoveredOf, Recovered
    <2> QED
      BY <1>3, <2>2 DEF Handled
  <1>6. CASE UNCHANGED indexVars
    BY <1>1, <1>6, ReachCommand DEF indexVars
  <1>7. CASE Insert(Recovered(m, cmd.batch[m]))
    <2>1. /\ DOMAIN files' = DOMAIN files \cup {lastId + 1}
          /\ files'[lastId + 1].message_id = m
          /\ \A i \in DOMAIN files : i # lastId + 1 => files'[i] = files[i]
      BY <1>4, <1>7 DEF Insert
    <2>2. lastId + 1 \notin DOMAIN files
      <3>1. lastId \in Nat /\ DOMAIN files \subseteq 1..lastId
        BY DEF IndexTypeOK
      <3> QED
        BY <3>1
    <2>3. RowsLive' /\ RowsOwnMessages'
      BY <1>1, <1>3, <1>5, <2>1, <2>2 DEF RowsLive, RowsOwnMessages
    <2>4. \A q \in Requests : UploadAlone(q)' /\ DeleteHeld(q)'
      BY <1>1, <1>2 DEF UploadAlone, DeleteHeld, Pending, At, AllIdle
    <2> QED
      BY <2>3, <2>4
  <1> QED
    BY <1>1, <1>6, <1>7

LEMMA ReachInit == MaintenanceInit => ReachInv
  <1> SUFFICES ASSUME MaintenanceInit PROVE ReachInv
    OBVIOUS
  <1>1. \A i \in DOMAIN files : files[i].message_id = i /\ i \in DOMAIN messages
    BY DEF MaintenanceInit, LegacyInit
  <1>2. RowsLive /\ RowsOwnMessages
    BY <1>1, AllTypeInit DEF RowsLive, RowsOwnMessages, AllTypeOK, TypeOK, ChannelTypeOK
  <1> QED
    BY <1>2 DEF MaintenanceInit, Idle, ReachInv, UploadAlone, DeleteHeld, Pending, At

LEMMA ReachStep ==
    ASSUME Exclusive, AllTypeOK, RebuildInv, ReachInv, [MaintenanceNext]_nuageVars
    PROVE  ReachInv'
  <1>1. CASE ReindexReset \/ LoseIndex
    BY <1>1, ReachEmptied
       DEF ReindexReset, LoseIndex, BeginCommand, Reset, engineVars
  <1>2. CASE ReindexInsert
    BY <1>2, ReachRecovered
  <1>3. CASE CaptionsEdit
    <2>1. /\ UNCHANGED <<req, deleting, files, lastMessage>>
          /\ DOMAIN messages' = DOMAIN messages
      BY <1>3 DEF CaptionsEdit, EditCaption, EditRejected, channelVars, indexVars, engineVars,
                  AllTypeOK, TypeOK, ChannelTypeOK
    <2> QED
      BY <2>1, ReachCommand
  <1>4. CASE ServeStep
    BY <1>4, ReachServe DEF AllTypeOK
  <1>5. CASE \/ ReindexFetch \/ CaptionsList \/ CaptionsDone \/ CommandExit \/ CommandFail
             \/ Settled \/ UNCHANGED nuageVars
    <2>1. UNCHANGED <<req, deleting, files, messages, lastMessage>>
      BY <1>5 DEF ReindexFetch, CaptionsList, CaptionsDone, CommandExit, CommandFail,
                  Settled, Quiescent, nuageVars, vars
    <2> QED
      BY <2>1, ReachCommand
  <1> QED
    BY <1>1, <1>2, <1>3, <1>4, <1>5 DEF MaintenanceNext, CommandStep

\* A row nobody asked to delete has its document in the channel: requests in
\* any number and any order, cut short anywhere, with losses of the index and
\* maintenance commands, themselves cut short, while the server is stopped.
THEOREM FilesReachable ==
    ASSUME Exclusive
    PROVE  MaintenanceSpec => []RowsReachable
  <1>1. MaintenanceInit => RebuildInv /\ ReachInv
    BY RebuildInit, ReachInit
  <1>2. /\ AllTypeOK /\ RebuildInv /\ ReachInv
        /\ [MaintenanceNext]_nuageVars
        => RebuildInv' /\ ReachInv'
    BY RebuildStep, ReachStep
  <1>3. TruthInv /\ ReachInv => RowsReachable
    BY DEF TruthInv, StoresTrue, RowsTrue, Claim, ReachInv, RowsLive, RowsReachable
  <1> QED
    BY <1>1, <1>2, <1>3, AllTypesCorrect, ClaimsAreTrue, PTL DEF MaintenanceSpec

-----------------------------------------------------------------------------
(* One at a time.  Requests and commands that do not overlap and do not     *)
(* fail keep index and channel in correspondence, and a reindex brings back *)
(* what was lost.                                                           *)

OneAtATime == \A r, s \in Requests : r = s

\* The caption of the row's message gives the row back.
Kept(rec) == messages[rec.message_id].caption = EncodeFileMeta(rec)

HasRow(m) == \E i \in DOMAIN files : files[i].message_id = m

\* Each row has its message, unless it is the next thing to be removed, and
\* is what its caption says, unless the caption is the next thing to change.
RowMirrored(i) ==
    LET m == files[i].message_id IN
    /\ m \in DOMAIN messages \/ \E r \in Requests : At(r, "unindex") /\ req[r].id = i
    /\ Captioned(m) => \/ Kept(files[i])
                       \/ \E r \in Requests : At(r, "reread") /\ req[r].id = i
                       \/ \E r \in Requests : At(r, "edit") /\ req[r].rec = files[i]

RowsMirrored == \A i \in DOMAIN files : RowMirrored(i)

\* The caption of a lost row gives it back, or the row is back already and
\* may have been renamed since; no row changes while a walk recovers them.
LostKept(rec) ==
    /\ rec.message_id \in 1..lastMessage
    /\ Captioned(rec.message_id) =>
          \/ Kept(rec)
          \/ cmd.pc \notin {"walk", "reindexed"} /\ HasRow(rec.message_id)

HadKept == \A rec \in had : LostKept(rec)

\* No caption without a row: in the index, lost, or about to be inserted.
CaptionsHeld ==
    \A m \in DOMAIN messages : Captioned(m) =>
        \/ HasRow(m)
        \/ \E rec \in had : rec.message_id = m
        \/ \E r \in Requests : Pending(r) /\ req[r].rec.message_id = m

SlotMirrored(r) ==
    /\ req[r].pc \in {"send", "insert"} => FindByHash(req[r].rec.hash, req[r].rec.owner) = {}
    /\ Pending(r) => Kept(req[r].rec)
    /\ At(r, "edit") => \E i \in DOMAIN files : files[i] = req[r].rec
    /\ At(r, "unsend") => /\ req[r].id \in DOMAIN files
                          /\ files[req[r].id].message_id = req[r].message_id
    /\ At(r, "unindex") /\ req[r].id \in DOMAIN files =>
          files[req[r].id].message_id \notin DOMAIN messages

SlotsMirrored == \A r \in Requests : SlotMirrored(r)

ListFromRows == cmd.pc = "caption" => cmd.todo \subseteq Rows

MirrorInv == RowsMirrored /\ HadKept /\ CaptionsHeld /\ SlotsMirrored /\ ListFromRows

LEMMA MirrorInit == MaintenanceInit => MirrorInv
  <1> SUFFICES ASSUME MaintenanceInit PROVE MirrorInv
    OBVIOUS
  <1>1. /\ \A i \in DOMAIN files : files[i].message_id \in DOMAIN messages
        /\ \A m : ~Captioned(m)
    BY DEF MaintenanceInit, LegacyInit, Captioned
  <1>2. had = {} /\ cmd.pc = "none" /\ \A r \in Requests : req[r].pc = "idle"
    BY DEF MaintenanceInit, NoCommand, Idle
  <1> QED
    BY <1>1, <1>2 DEF MirrorInv, RowsMirrored, RowMirrored, HadKept, CaptionsHeld,
                      SlotsMirrored, SlotMirrored, ListFromRows, Pending, At

\* A step of the only request that leaves the stores as they are.
LEMMA MirrorReads ==
    ASSUME MirrorInv, OneAtATime, NEW r \in Requests,
           UNCHANGED <<files, messages, lastMessage, cmd, had>>,
           ~Pending(r),
           At(r, "unindex") => req[r].id \notin DOMAIN files,
           At(r, "reread") /\ req[r].id \in DOMAIN files =>
               At(r, "edit")' /\ req'[r].rec = files[req[r].id],
           At(r, "edit") => ~Captioned(req[r].rec.message_id),
           SlotMirrored(r)'
    PROVE  MirrorInv'
  <1> USE DEF MirrorInv
  <1>1. Requests = {r}
    BY DEF OneAtATime
  <1>2. \A m : Captioned(m)' = Captioned(m) /\ HasRow(m)' = HasRow(m)
    BY DEF Captioned, HasRow
  <1>3. ASSUME NEW i \in DOMAIN files' PROVE RowMirrored(i)'
    BY <1>1, <1>2 DEF RowsMirrored, RowMirrored, Kept, At
  <1>4. HadKept'
    BY <1>2 DEF HadKept, LostKept, Kept
  <1>5. CaptionsHeld'
    BY <1>1, <1>2 DEF CaptionsHeld, Pending, At
  <1>6. ListFromRows'
    BY DEF ListFromRows, Rows
  <1> QED
    BY <1>1, <1>3, <1>4, <1>5, <1>6 DEF RowsMirrored, SlotsMirrored

LEMMA MirrorIssue ==
    ASSUME TypeOK, MirrorInv, OneAtATime, NEW r \in Requests, Issue(r),
           UNCHANGED <<cmd, had>>
    PROVE  MirrorInv'
  <1>0. req \in [Requests -> Request]
    BY DEF TypeOK, EngineTypeOK
  <1>1. req[r].pc = "idle"
    BY DEF Issue, UploadFind, RenameGet, DeleteGet, ServeRecord, DownloadGet, Begin, Idle
  <1>2. UNCHANGED <<files, lastId, messages, lastMessage>>
    BY DEF Issue, UploadFind, RenameGet, DeleteGet, ServeRecord, DownloadGet, indexVars, channelVars
  <1>3. SlotMirrored(r)' => MirrorInv'
    BY <1>1, <1>2, MirrorReads DEF Pending, At
  <1> USE DEF SlotMirrored, Pending, At, FindByHash
  <1>4. ASSUME NEW owner, NEW path, NEW hash, UploadFind(r, owner, path, hash)
        PROVE  SlotMirrored(r)'
    <2> DEFINE new == [pc |-> "send", by |-> owner,
                       rec |-> [path |-> path, filename |-> Base(path), owner |-> owner,
                                hash |-> hash, message_id |-> 0]]
               old(i) == [pc |-> "uploaded", by |-> owner, id |-> i, rec |-> files[i]]
    <2>1. \/ req'[r] = new /\ FindByHash(hash, owner) = {}
          \/ \E i : req'[r] = old(i)
      BY <1>0, <1>4 DEF UploadFind, Begin
    <2>2. /\ new.pc = "send" /\ new.rec.hash = hash /\ new.rec.owner = owner
          /\ \A i : old(i).pc = "uploaded"
      OBVIOUS
    <2> HIDE DEF new, old
    <2> QED
      BY <1>2, <2>1, <2>2
  <1>5. ASSUME NEW owner, NEW id, DeleteGet(r, owner, id)
        PROVE  SlotMirrored(r)'
    <2>1. req'[r] = [pc |-> "unsend", by |-> owner, id |-> id,
                     message_id |-> files[id].message_id]
      BY <1>0, <1>5 DEF DeleteGet, Begin
    <2>2. req'[r].pc = "unsend" /\ req'[r].id = id /\ req'[r].message_id = files[id].message_id
      BY <2>1
    <2> QED
      BY <1>2, <1>5, <2>2 DEF DeleteGet, Visible
  <1>6. ASSUME NEW owner, NEW id, NEW name,
               \/ RenameGet(r, owner, id, name)
               \/ ServeRecord(r, owner, id)
               \/ DownloadGet(r, id)
        PROVE  SlotMirrored(r)'
    <2>1. req'[r].pc \in {"rename", "locate", "fetch"}
      BY <1>0, <1>6 DEF RenameGet, ServeRecord, DownloadGet, Begin
    <2> QED
      BY <2>1
  <1> QED
    BY <1>3, <1>4, <1>5, <1>6 DEF Issue

LEMMA MirrorPlain ==
    ASSUME TypeOK, MirrorInv, OneAtATime, NEW r \in Requests, UNCHANGED <<cmd, had>>,
           \/ Respond(r) \/ Locate(r) \/ Fetch(r) \/ RenameReread(r)
           \/ RenameUpdate(r) /\ NoSuchRow(req[r].id) /\ Finish(r)
           \/ /\ RenameEdit(r) /\ req[r].rec.message_id \notin DOMAIN messages
              /\ UNCHANGED channelVars
           \/ DeleteIndexed(r) /\ NoSuchRow(req[r].id)
    PROVE  MirrorInv'
  <1>0. req \in [Requests -> Request]
    BY DEF TypeOK, EngineTypeOK
  <1>1. UNCHANGED <<files, lastId, messages, lastMessage>>
    BY DEF Respond, Locate, Fetch, RenameReread, RenameUpdate, RenameEdit, DeleteIndexed,
           NoSuchRow, indexVars, channelVars
  <1>2. Finish(r) => req'[r].pc = "idle"
    BY <1>0 DEF Finish, Goto, Idle
  <1>3. CASE RenameReread(r) /\ req[r].id \in DOMAIN files
    <2>1. /\ req[r].pc = "reread" /\ req[r].id \in DOMAIN files
          /\ req'[r] = [pc |-> "edit", by |-> req[r].by, rec |-> files[req[r].id]]
      BY <1>0, <1>3 DEF RenameReread, Goto, At
    <2>2. req'[r].pc = "edit" /\ req'[r].rec = files[req[r].id]
      BY <2>1
    <2>3. SlotMirrored(r)'
      BY <1>1, <2>1, <2>2 DEF SlotMirrored, Pending, At
    <2> QED
      BY <1>1, <2>1, <2>2, <2>3, MirrorReads DEF Pending, At
  <1>4. CASE ~(RenameReread(r) /\ req[r].id \in DOMAIN files)
    <2>1. req'[r].pc \in {"idle", "fetch", "stream"}
      BY <1>0, <1>2, <1>4 DEF Respond, Locate, Fetch, RenameReread, RenameUpdate, RenameEdit,
                              DeleteIndexed, Goto
    <2>2. SlotMirrored(r)'
      BY <2>1 DEF SlotMirrored, Pending, At
    <2>3. ~Pending(r)
      BY DEF Pending, At, Respond, Locate, Fetch, RenameReread, RenameUpdate, RenameEdit,
             DeleteIndexed
    <2>4. At(r, "unindex") => req[r].id \notin DOMAIN files
      BY DEF At, Respond, Locate, Fetch, RenameReread, RenameUpdate, RenameEdit, NoSuchRow
    <2>5. At(r, "reread") => req[r].id \notin DOMAIN files
      BY <1>4 DEF At, Respond, Locate, Fetch, RenameReread, RenameUpdate, RenameEdit, DeleteIndexed
    <2>6. At(r, "edit") => ~Captioned(req[r].rec.message_id)
      BY DEF At, Respond, Locate, Fetch, RenameReread, RenameUpdate, DeleteIndexed,
             Captioned
    <2> QED
      BY <1>1, <2>2, <2>3, <2>4, <2>5, <2>6, MirrorReads
  <1> QED
    BY <1>3, <1>4

LEMMA MirrorSend ==
    ASSUME TypeOK, ReachInv, MirrorInv, OneAtATime, NEW r \in Requests, UNCHANGED <<cmd, had>>,
           UploadSend(r)
    PROVE  MirrorInv'
  <1> USE DEF MirrorInv
  <1>1. Requests = {r} /\ req[r].pc = "send"
    BY DEF OneAtATime, UploadSend, At
  <1>2. req[r].rec \in Record
    BY <1>1, RequestTyping DEF TypeOK, EngineTypeOK, UploadReq
  <1> DEFINE new == [req[r].rec EXCEPT !.message_id = lastMessage + 1]
  <1>3. /\ new.message_id = lastMessage + 1 /\ EncodeFileMeta(new) = EncodeFileMeta(req[r].rec)
        /\ new.hash = req[r].rec.hash /\ new.owner = req[r].rec.owner
    BY <1>2 DEF EncodeFileMeta, Record
  <1>4. req'[r].pc = "insert" /\ req'[r].rec = new
    BY DEF UploadSend, Goto, TypeOK, EngineTypeOK
  <1> HIDE DEF new
  <1>5. /\ lastMessage \in Nat /\ lastMessage' = lastMessage + 1
        /\ DOMAIN messages \subseteq 1..lastMessage
        /\ DOMAIN messages' = DOMAIN messages \cup {lastMessage + 1}
        /\ messages'[lastMessage + 1].caption = EncodeFileMeta(req[r].rec)
        /\ \A m \in DOMAIN messages : messages'[m] = messages[m]
        /\ files' = files
    <2>1. lastMessage \in Nat /\ DOMAIN messages \subseteq 1..lastMessage
      BY DEF TypeOK, ChannelTypeOK
    <2>2. lastMessage + 1 \notin DOMAIN messages
      BY <2>1
    <2> QED
      BY <2>1, <2>2 DEF UploadSend, SendFile, indexVars
  <1>6. \A m \in 1..lastMessage : /\ Captioned(m)' = Captioned(m)
                                  /\ HasRow(m)' = HasRow(m)
                                  /\ m \in DOMAIN messages <=> m \in DOMAIN messages'
                                  /\ m # lastMessage + 1
    BY <1>5 DEF Captioned, HasRow
  <1>7. ASSUME NEW i \in DOMAIN files' PROVE RowMirrored(i)'
    <2>1. files[i].message_id \in 1..lastMessage /\ RowMirrored(i) /\ files' = files
      BY <1>5, <1>7 DEF ReachInv, RowsOwnMessages, RowsMirrored
    <2> QED
      BY <1>1, <1>5, <1>6, <2>1 DEF RowMirrored, Kept, At, Captioned
  <1>8. HadKept'
    <2> SUFFICES ASSUME NEW rec \in had PROVE LostKept(rec)'
      BY DEF HadKept
    <2>1. LostKept(rec) /\ rec.message_id \in 1..lastMessage
      BY DEF HadKept, LostKept
    <2>2. rec.message_id \in 1..lastMessage'
      BY <1>5, <2>1
    <2> QED
      BY <1>5, <1>6, <2>1, <2>2 DEF LostKept, Kept, Captioned
  <1>9. CaptionsHeld'
    <2> SUFFICES ASSUME NEW m \in DOMAIN messages', Captioned(m)'
                 PROVE  \/ HasRow(m)'
                        \/ \E rec \in had : rec.message_id = m
                        \/ Pending(r)' /\ req'[r].rec.message_id = m
      BY DEF CaptionsHeld
    <2>1. CASE m \in DOMAIN messages
      BY <1>1, <1>5, <1>6, <2>1 DEF CaptionsHeld, Pending, At
    <2>2. CASE m = lastMessage + 1
      BY <1>3, <1>4, <2>2 DEF Pending, At
    <2> QED
      BY <1>5, <2>1, <2>2
  <1>10. SlotMirrored(r)'
    <2>1. \A i \in DOMAIN files' : ~(files'[i].hash = new.hash /\ files'[i].owner = new.owner)
      BY <1>1, <1>3, <1>5 DEF SlotsMirrored, SlotMirrored, FindByHash
    <2>2. messages'[new.message_id].caption = EncodeFileMeta(new)
      BY <1>3, <1>5
    <2> QED
      BY <1>4, <2>1, <2>2 DEF SlotMirrored, FindByHash, Kept, Pending, At, EncodeFileMeta
  <1> QED
    BY <1>1, <1>5, <1>7, <1>8, <1>9, <1>10 DEF RowsMirrored, SlotsMirrored, ListFromRows, Rows

LEMMA MirrorRecord ==
    ASSUME TypeOK, ReachInv, MirrorInv, OneAtATime, NEW r \in Requests, UNCHANGED <<cmd, had>>,
           UploadInsert(r), cmd.pc # "caption"
    PROVE  MirrorInv'
  <1> USE DEF MirrorInv
  <1> DEFINE rec == req[r].rec
             m == rec.message_id
  <1>1. Requests = {r} /\ Pending(r) /\ SlotMirrored(r) /\ UploadAlone(r)
    BY DEF OneAtATime, UploadInsert, Pending, SlotsMirrored, ReachInv
  <1>2. Insert(rec)
    BY <1>1 DEF UploadInsert, InsertRejected, SlotMirrored, Pending, At
  <1>3. req'[r].pc = "uploaded"
    BY <1>2 DEF UploadInsert, InsertRejected, Insert, Goto, TypeOK, EngineTypeOK
  <1>4. /\ UNCHANGED <<messages, lastMessage>> /\ lastId + 1 \notin DOMAIN files
        /\ DOMAIN files' = DOMAIN files \cup {lastId + 1} /\ files'[lastId + 1] = rec
        /\ \A i \in DOMAIN files : files'[i] = files[i]
    <2>1. lastId \in Nat /\ DOMAIN files \subseteq 1..lastId
      BY DEF TypeOK, IndexTypeOK
    <2>2. lastId + 1 \notin DOMAIN files
      BY <2>1
    <2> QED
      BY <1>2, <2>2 DEF Insert, UploadInsert, channelVars
  <1>5. m \in DOMAIN messages /\ Kept(rec)
    BY <1>1 DEF SlotMirrored, UploadAlone
  <1>6. /\ \A n : Captioned(n)' = Captioned(n) /\ (HasRow(n) => HasRow(n)')
        /\ \A n : n = m => HasRow(n)'
    BY <1>4 DEF Captioned, HasRow
  <1>7. ASSUME NEW i \in DOMAIN files' PROVE RowMirrored(i)'
    <2>1. CASE i = lastId + 1
      <3>1. files'[i] = rec /\ m \in DOMAIN messages'
        BY <1>4, <1>5, <2>1
      <3>2. messages'[m].caption = EncodeFileMeta(rec)
        BY <1>4, <1>5 DEF Kept
      <3> HIDE DEF rec
      <3> QED
        BY <3>1, <3>2 DEF RowMirrored, Kept, EncodeFileMeta
    <2>2. CASE i \in DOMAIN files
      BY <1>1, <1>4, <1>6, <2>2 DEF RowsMirrored, RowMirrored, Kept, Pending, At
    <2> QED
      BY <1>4, <2>1, <2>2
  <1>8. HadKept'
    BY <1>4, <1>6 DEF HadKept, LostKept, Kept
  <1>9. CaptionsHeld'
    BY <1>1, <1>4, <1>6 DEF CaptionsHeld
  <1>10. SlotMirrored(r)'
    BY <1>3 DEF SlotMirrored, Pending, At
  <1>11. ListFromRows'
    BY DEF ListFromRows
  <1> QED
    BY <1>1, <1>7, <1>8, <1>9, <1>10, <1>11 DEF RowsMirrored, SlotsMirrored

LEMMA MirrorRename ==
    ASSUME TypeOK, MirrorInv, OneAtATime, NEW r \in Requests, UNCHANGED <<cmd, had>>,
           RenameUpdate(r), RenameRow(req[r].id, req[r].filename),
           Goto(r, [req[r] EXCEPT !.pc = "reread"]), cmd.pc # "caption"
    PROVE  MirrorInv'
  <1> USE DEF MirrorInv
  <1>1. Requests = {r} /\ req[r].pc = "rename"
    BY DEF OneAtATime, RenameUpdate, At
  <1>2. req[r] \in RenameReq
    BY <1>1, RequestTyping DEF TypeOK, EngineTypeOK
  <1>3. req'[r].pc = "reread" /\ req'[r].id = req[r].id
    BY <1>2 DEF Goto, TypeOK, EngineTypeOK, RenameReq
  <1>4. /\ UNCHANGED <<messages, lastMessage>> /\ DOMAIN files' = DOMAIN files
        /\ \A i \in DOMAIN files : /\ files'[i].message_id = files[i].message_id
                                   /\ i # req[r].id => files'[i] = files[i]
    BY DEF RenameUpdate, RenameRow, channelVars, TypeOK, IndexTypeOK, Record
  <1>5. \A n : Captioned(n)' = Captioned(n) /\ HasRow(n)' = HasRow(n)
    BY <1>4 DEF Captioned, HasRow
  <1>6. ASSUME NEW i \in DOMAIN files' PROVE RowMirrored(i)'
    BY <1>1, <1>3, <1>4, <1>5 DEF RowsMirrored, RowMirrored, Kept, Pending, At
  <1>7. HadKept'
    BY <1>4, <1>5 DEF HadKept, LostKept, Kept
  <1>8. CaptionsHeld'
    BY <1>1, <1>4, <1>5 DEF CaptionsHeld, Pending, At
  <1>9. SlotMirrored(r)'
    BY <1>3 DEF SlotMirrored, Pending, At
  <1>10. ListFromRows'
    BY DEF ListFromRows
  <1> QED
    BY <1>1, <1>6, <1>7, <1>8, <1>9, <1>10 DEF RowsMirrored, SlotsMirrored

\* A caption written from a row of the index agrees with that row.
LEMMA MirrorEdit ==
    ASSUME TypeOK, ReachInv, MirrorInv, NEW rec,
           EditCaption(rec.message_id, EncodeFileMeta(rec)),
           files' = files, had' = had,
           \E i \in DOMAIN files : files[i] = rec,
           cmd.pc \notin {"walk", "reindexed"}, cmd'.pc \notin {"walk", "reindexed"},
           \A r \in Requests : /\ ~Pending(r) /\ ~Pending(r)'
                               /\ ~At(r, "reread") /\ ~At(r, "unindex")
                               /\ At(r, "edit") => req[r].rec = rec
    PROVE  RowsMirrored' /\ HadKept' /\ CaptionsHeld'
  <1> USE DEF MirrorInv
  <1> DEFINE m == rec.message_id
  <1>1. /\ DOMAIN messages' = DOMAIN messages /\ lastMessage' = lastMessage
        /\ m \in DOMAIN messages /\ messages'[m].caption = EncodeFileMeta(rec)
        /\ \A n \in DOMAIN messages : n # m => messages'[n] = messages[n]
    BY DEF EditCaption, TypeOK, ChannelTypeOK, Message
  <1>2. HasRow(m) /\ \A n : HasRow(n)' = HasRow(n)
    BY DEF HasRow
  <1>3. \A n : n # m => Captioned(n)' = Captioned(n)
    BY <1>1 DEF Captioned
  <1>4. ASSUME NEW i \in DOMAIN files' PROVE RowMirrored(i)'
    <2>1. CASE files[i].message_id = m
      <3>1. files[i] = rec
        BY <2>1 DEF ReachInv, RowsOwnMessages
      <3>2. files'[i] = rec /\ m \in DOMAIN messages'
        BY <1>1, <3>1
      <3> QED
        BY <1>1, <3>2 DEF RowMirrored, Kept, EncodeFileMeta
    <2>2. CASE files[i].message_id # m
      <3>1. RowMirrored(i) /\ files'[i] = files[i]
        BY DEF RowsMirrored
      <3> QED
        BY <1>1, <1>3, <2>2, <3>1 DEF RowMirrored, Kept, Captioned, At
    <2> QED
      BY <2>1, <2>2
  <1>5. HadKept'
    BY <1>1, <1>2, <1>3 DEF HadKept, LostKept, Kept, Captioned
  <1>6. CaptionsHeld'
    BY <1>1, <1>2, <1>3 DEF CaptionsHeld
  <1> QED
    BY <1>4, <1>5, <1>6 DEF RowsMirrored

LEMMA MirrorRenameEdit ==
    ASSUME TypeOK, ReachInv, MirrorInv, OneAtATime, NEW r \in Requests, UNCHANGED <<cmd, had>>,
           RenameEdit(r), cmd.pc = "none"
    PROVE  MirrorInv'
  <1>1. Requests = {r} /\ req[r].pc = "edit" /\ req'[r].pc = "idle"
    BY DEF OneAtATime, RenameEdit, Finish, Goto, Idle, At, TypeOK, EngineTypeOK
  <1>2. CASE /\ EditRejected(req[r].rec.message_id, EncodeFileMeta(req[r].rec))
             /\ req[r].rec.message_id \notin DOMAIN messages
    BY <1>2, MirrorPlain DEF EditRejected
  <1>3. CASE EditCaption(req[r].rec.message_id, EncodeFileMeta(req[r].rec))
    <2>1. files' = files
      BY DEF RenameEdit, indexVars
    <2>2. \E i \in DOMAIN files : files[i] = req[r].rec
      BY <1>1 DEF MirrorInv, SlotsMirrored, SlotMirrored, At
    <2>3. \A q \in Requests : /\ ~Pending(q) /\ ~Pending(q)'
                              /\ ~At(q, "reread") /\ ~At(q, "unindex")
                              /\ At(q, "edit") => req[q].rec = req[r].rec
      BY <1>1 DEF Pending, At
    <2>4. cmd.pc \notin {"walk", "reindexed"} /\ cmd'.pc \notin {"walk", "reindexed"}
      OBVIOUS
    <2>5. RowsMirrored' /\ HadKept' /\ CaptionsHeld'
      BY <1>3, <2>1, <2>2, <2>3, <2>4, MirrorEdit
    <2>6. SlotsMirrored' /\ ListFromRows'
      BY <1>1 DEF SlotsMirrored, SlotMirrored, ListFromRows, Pending, At
    <2> QED
      BY <2>5, <2>6 DEF MirrorInv
  <1> QED
    BY <1>2, <1>3, EditRefused DEF RenameEdit, TypeOK

LEMMA MirrorDeleteMessage ==
    ASSUME TypeOK, ReachInv, MirrorInv, OneAtATime, NEW r \in Requests, UNCHANGED <<cmd, had>>,
           DeleteMessage(r)
    PROVE  MirrorInv'
  <1> USE DEF MirrorInv
  <1> DEFINE m == req[r].message_id
  <1>1. Requests = {r} /\ req[r].pc = "unsend"
    BY DEF OneAtATime, DeleteMessage, At
  <1>2. req[r] \in DeleteReq
    BY <1>1, RequestTyping DEF TypeOK, EngineTypeOK
  <1>3. req'[r].pc = "unindex" /\ req'[r].id = req[r].id
    BY <1>2 DEF DeleteMessage, Goto, TypeOK, EngineTypeOK, DeleteReq
  <1>4. /\ DOMAIN messages' = DOMAIN messages \ {m}
        /\ \A n \in DOMAIN messages' : messages'[n] = messages[n]
        /\ UNCHANGED <<files, lastMessage>>
    BY DEF DeleteMessage, DeleteMessages, Restrict, indexVars
  <1>5. /\ req[r].id \in DOMAIN files /\ files[req[r].id].message_id = m
        /\ \A i \in DOMAIN files : files[i].message_id = m => i = req[r].id
    BY <1>1 DEF SlotsMirrored, SlotMirrored, ReachInv, DeleteHeld, At
  <1>6. /\ \A n : HasRow(n)' = HasRow(n)
        /\ \A n : Captioned(n)' => Captioned(n) /\ n # m /\ n \in DOMAIN messages'
    BY <1>4 DEF HasRow, Captioned
  <1>7. ASSUME NEW i \in DOMAIN files' PROVE RowMirrored(i)'
    BY <1>1, <1>3, <1>4, <1>5, <1>6 DEF RowsMirrored, RowMirrored, Kept, At
  <1>8. HadKept'
    BY <1>4, <1>6 DEF HadKept, LostKept, Kept
  <1>9. CaptionsHeld'
    BY <1>1, <1>4, <1>6 DEF CaptionsHeld, Pending, At
  <1>10. SlotMirrored(r)'
    BY <1>3, <1>4, <1>5 DEF SlotMirrored, Pending, At
  <1> QED
    BY <1>1, <1>4, <1>7, <1>8, <1>9, <1>10 DEF RowsMirrored, SlotsMirrored, ListFromRows, Rows

LEMMA MirrorDeleteRow ==
    ASSUME TypeOK, MirrorInv, OneAtATime, NEW r \in Requests, UNCHANGED <<cmd, had>>,
           DeleteIndexed(r), DeleteRow(req[r].id), cmd.pc # "caption"
    PROVE  MirrorInv'
  <1> USE DEF MirrorInv
  <1>1. Requests = {r} /\ req[r].pc = "unindex" /\ req'[r].pc = "idle"
    BY DEF OneAtATime, DeleteIndexed, Finish, Goto, Idle, At, TypeOK, EngineTypeOK
  <1>2. /\ DOMAIN files' = DOMAIN files \ {req[r].id} /\ req[r].id \in DOMAIN files
        /\ \A i \in DOMAIN files' : files'[i] = files[i]
        /\ UNCHANGED <<messages, lastMessage>>
    BY DEF DeleteIndexed, DeleteRow, Restrict, channelVars
  <1>3. files[req[r].id].message_id \notin DOMAIN messages
    BY <1>1, <1>2 DEF SlotsMirrored, SlotMirrored, At
  <1>4. /\ \A n : Captioned(n)' = Captioned(n)
        /\ \A n \in DOMAIN messages : HasRow(n)' = HasRow(n)
    BY <1>2, <1>3 DEF HasRow, Captioned
  <1>5. ASSUME NEW i \in DOMAIN files' PROVE RowMirrored(i)'
    BY <1>1, <1>2, <1>4 DEF RowsMirrored, RowMirrored, Kept, At
  <1>6. HadKept'
    BY <1>2, <1>4 DEF HadKept, LostKept, Kept, Captioned
  <1>7. CaptionsHeld'
    BY <1>1, <1>2, <1>4 DEF CaptionsHeld, Pending, At
  <1>8. SlotMirrored(r)' /\ ListFromRows'
    BY <1>1 DEF SlotMirrored, ListFromRows, Pending, At
  <1> QED
    BY <1>1, <1>5, <1>6, <1>7, <1>8 DEF RowsMirrored, SlotsMirrored

LEMMA MirrorServe ==
    ASSUME ~MayFail, TypeOK, ReachInv, MirrorInv, OneAtATime, ServeStep, cmd = NoCommand
    PROVE  MirrorInv'
  <1>1. PICK r \in Requests : Issue(r) \/ Proceed(r) \/ Fail(r)
    BY DEF ServeStep
  <1>2. UNCHANGED <<cmd, had>> /\ cmd.pc = "none"
    BY DEF ServeStep, maintenanceVars, NoCommand
  <1>3. ~Fail(r)
    BY DEF Fail
  <1>4. RenameUpdate(r) => MirrorInv'
    BY <1>2, MirrorPlain, MirrorRename DEF RenameUpdate
  <1>5. DeleteIndexed(r) => MirrorInv'
    BY <1>2, MirrorPlain, MirrorDeleteRow DEF DeleteIndexed
  <1>6. Respond(r) \/ Locate(r) \/ Fetch(r) \/ RenameReread(r) => MirrorInv'
    BY <1>2, MirrorPlain
  <1>7. UploadSend(r) \/ UploadInsert(r) \/ RenameEdit(r) \/ DeleteMessage(r) => MirrorInv'
    BY <1>2, MirrorSend, MirrorRecord, MirrorRenameEdit, MirrorDeleteMessage
  <1> QED
    BY <1>1, <1>2, <1>3, <1>4, <1>5, <1>6, <1>7, MirrorIssue DEF Proceed

\* The index is emptied while nobody uses it: its rows are remembered.
LEMMA MirrorEmptied ==
    ASSUME ReachInv, MirrorInv, AllIdle, cmd = NoCommand, cmd'.pc # "caption",
           UNCHANGED <<messages, lastMessage, req>>, DOMAIN files' = {}, had' = RowsGone
    PROVE  MirrorInv'
  <1> USE DEF MirrorInv
  <1>1. \A n : Captioned(n)' = Captioned(n)
    BY DEF Captioned
  <1>2. \A i \in DOMAIN files : /\ files[i].message_id \in 1..lastMessage
                                /\ Captioned(files[i].message_id) => Kept(files[i])
    BY DEF RowsMirrored, RowMirrored, ReachInv, RowsOwnMessages, AllIdle, At
  <1>3. ASSUME NEW rec \in had' PROVE LostKept(rec)'
    <2>1. /\ rec.message_id \in 1..lastMessage
          /\ Captioned(rec.message_id) => messages[rec.message_id].caption = EncodeFileMeta(rec)
      <3>1. CASE rec \in Rows
        BY <1>2, <3>1 DEF Rows, Kept
      <3>2. CASE rec \in had /\ \A row \in Rows : row.message_id # rec.message_id
        <4>1. ~HasRow(rec.message_id)
          BY <3>2 DEF HasRow, Rows
        <4> QED
          BY <3>2, <4>1 DEF HadKept, LostKept, Kept
      <3> QED
        BY <3>1, <3>2 DEF RowsGone
    <2> QED
      BY <1>1, <2>1 DEF LostKept, Kept, EncodeFileMeta
  <1>4. ASSUME NEW n \in DOMAIN messages, Captioned(n)
        PROVE  \E rec \in RowsGone : rec.message_id = n
    <2>1. HasRow(n) \/ \E rec \in had : rec.message_id = n
      BY <1>4 DEF CaptionsHeld, AllIdle, Pending, At
    <2>2. HasRow(n) <=> \E row \in Rows : row.message_id = n
      BY DEF HasRow, Rows
    <2> QED
      BY <2>1, <2>2 DEF RowsGone
  <1>5. CaptionsHeld'
    BY <1>1, <1>4 DEF CaptionsHeld
  <1> QED
    BY <1>3, <1>5 DEF RowsMirrored, HadKept, SlotsMirrored, SlotMirrored, ListFromRows,
                      AllIdle, Pending, At

\* A command goes on without touching the stores.
LEMMA MirrorWaits ==
    ASSUME MirrorInv, UNCHANGED <<files, messages, lastMessage, req, had>>,
           cmd'.pc \in {"walk", "reindexed"} => cmd.pc \in {"walk", "reindexed"},
           cmd'.pc = "caption" => cmd'.todo \subseteq Rows
    PROVE  MirrorInv'
  <1> USE DEF MirrorInv
  <1>1. \A n : Captioned(n)' = Captioned(n) /\ HasRow(n)' = HasRow(n)
    BY DEF Captioned, HasRow
  <1>2. RowsMirrored' /\ HadKept' /\ CaptionsHeld'
    BY <1>1 DEF RowsMirrored, RowMirrored, HadKept, LostKept, CaptionsHeld, Kept, Pending, At
  <1>3. SlotsMirrored' /\ ListFromRows'
    BY DEF SlotsMirrored, SlotMirrored, ListFromRows, FindByHash, Kept, Rows, Pending, At
  <1> QED
    BY <1>2, <1>3

LEMMA MirrorRecovered ==
    ASSUME AllTypeOK, RebuildInv, MirrorInv, ReindexInsert
    PROVE  MirrorInv'
  <1> USE DEF MirrorInv
  <1> DEFINE m == Max(DOMAIN cmd.batch)
             rec == Recovered(m, cmd.batch[m])
  <1>1. /\ UNCHANGED <<messages, lastMessage, req, had>>
        /\ \/ UNCHANGED indexVars
           \/ Insert(rec) /\ cmd.batch[m].caption # NoMeta
        /\ cmd.pc = "walk" /\ DOMAIN cmd.batch # {} /\ cmd'.pc \in {"walk", "aborted"}
    BY DEF ReindexInsert, Continue, InsertRejected, channelVars, engineVars
  <1>2. AllIdle
    BY <1>1 DEF RebuildInv, AloneInv, NoCommand
  <1>3. CASE UNCHANGED indexVars
    BY <1>1, <1>3, MirrorWaits DEF indexVars
  <1>4. CASE Insert(rec) /\ cmd.batch[m].caption # NoMeta
    <2>1. m \in DOMAIN messages /\ cmd.batch[m] = messages[m] /\ messages[m].caption \in FileMeta
      <3>1. m \in DOMAIN cmd.batch /\ m \in DOMAIN messages /\ cmd.batch[m] = messages[m]
        BY <1>1, NextOfWalk DEF RebuildInv, WalkExact
      <3> HIDE DEF m
      <3> QED
        BY <1>4, <3>1 DEF AllTypeOK, TypeOK, ChannelTypeOK, Message
    <2>2. rec.message_id = m /\ EncodeFileMeta(rec) = messages[m].caption
      BY <2>1 DEF Recovered, EncodeFileMeta, FileMeta
    <2> HIDE DEF rec, m
    <2>3. /\ lastId + 1 \notin DOMAIN files
          /\ DOMAIN files' = DOMAIN files \cup {lastId + 1} /\ files'[lastId + 1] = rec
          /\ \A i \in DOMAIN files : files'[i] = files[i]
      <3>1. lastId \in Nat /\ DOMAIN files \subseteq 1..lastId
        BY DEF AllTypeOK, TypeOK, IndexTypeOK
      <3>2. lastId + 1 \notin DOMAIN files
        BY <3>1
      <3> QED
        BY <1>4, <3>2 DEF Insert
    <2>4. \A n : Captioned(n)' = Captioned(n) /\ (HasRow(n) => HasRow(n)')
      BY <1>1, <2>3 DEF Captioned, HasRow
    <2>5. ASSUME NEW i \in DOMAIN files' PROVE RowMirrored(i)'
      <3>1. CASE i = lastId + 1
        <4>1. files'[i] = rec /\ messages'[m] = messages[m] /\ m \in DOMAIN messages'
          BY <1>1, <2>1, <2>3, <3>1
        <4> QED
          BY <2>2, <4>1 DEF RowMirrored, Kept, EncodeFileMeta
      <3>2. CASE i \in DOMAIN files
        <4>1. RowMirrored(i) /\ files'[i] = files[i] /\ messages' = messages
          BY <1>1, <2>3, <3>2 DEF RowsMirrored
        <4> QED
          BY <1>2, <2>4, <4>1 DEF RowMirrored, Kept, AllIdle, At
      <3> QED
        BY <2>3, <3>1, <3>2
    <2>6. HadKept'
      BY <1>1, <2>4 DEF HadKept, LostKept, Kept
    <2>7. CaptionsHeld'
      BY <1>1, <2>4 DEF CaptionsHeld, Pending, At
    <2>8. SlotsMirrored' /\ ListFromRows'
      BY <1>1, <1>2 DEF SlotsMirrored, SlotMirrored, ListFromRows, AllIdle, Pending, At
    <2> QED
      BY <2>5, <2>6, <2>7, <2>8 DEF RowsMirrored
  <1> QED
    BY <1>1, <1>3, <1>4

LEMMA MirrorCaptions ==
    ASSUME AllTypeOK, RebuildInv, ReachInv, MirrorInv, CaptionsEdit
    PROVE  MirrorInv'
  <1>1. PICK rec \in cmd.todo :
           \/ /\ EditCaption(rec.message_id, EncodeFileMeta(rec))
              /\ Continue([pc |-> "caption", todo |-> cmd.todo \ {rec}])
           \/ /\ EditRejected(rec.message_id, EncodeFileMeta(rec))
              /\ Continue([pc |-> "aborted"])
    BY DEF CaptionsEdit
  <1>2. /\ cmd.pc = "caption" /\ cmd.todo \subseteq Rows /\ AllIdle
        /\ UNCHANGED <<files, req, had>>
    BY DEF CaptionsEdit, indexVars, engineVars, MirrorInv, ListFromRows, RebuildInv, AloneInv,
           NoCommand
  <1>3. CASE /\ EditRejected(rec.message_id, EncodeFileMeta(rec))
             /\ Continue([pc |-> "aborted"])
    BY <1>2, <1>3, MirrorWaits DEF EditRejected, Continue, channelVars
  <1>4. CASE /\ EditCaption(rec.message_id, EncodeFileMeta(rec))
             /\ Continue([pc |-> "caption", todo |-> cmd.todo \ {rec}])
    <2>1. cmd'.pc = "caption" /\ cmd'.todo \subseteq cmd.todo
      BY <1>4 DEF Continue
    <2>2. \E i \in DOMAIN files : files[i] = rec
      BY <1>2 DEF Rows
    <2>3. \A r \in Requests : req[r].pc = "idle" /\ req'[r].pc = "idle"
      BY <1>2 DEF AllIdle, At
    <2>4. RowsMirrored' /\ HadKept' /\ CaptionsHeld'
      <3>1. \A r \in Requests : /\ ~Pending(r) /\ ~Pending(r)'
                                /\ ~At(r, "reread") /\ ~At(r, "unindex")
                                /\ At(r, "edit") => req[r].rec = rec
        BY <2>3 DEF Pending, At
      <3> QED
        BY <1>2, <1>4, <2>1, <2>2, <3>1, MirrorEdit DEF AllTypeOK
    <2>5. SlotsMirrored' /\ ListFromRows'
      BY <1>2, <2>1, <2>3 DEF SlotsMirrored, SlotMirrored, ListFromRows, Rows, Pending, At
    <2> QED
      BY <2>4, <2>5 DEF MirrorInv
  <1> QED
    BY <1>1, <1>3, <1>4

\* A finished reindex has given every captioned message its row.
LEMMA MirrorExit ==
    ASSUME AllTypeOK, RebuildInv, MirrorInv, CommandExit
    PROVE  MirrorInv'
  <1>1. UNCHANGED <<files, messages, lastMessage, req>> /\ cmd'.pc = "none"
    BY DEF CommandExit, Continue, NoCommand, vars
  <1>2. CASE cmd.pc # "reindexed"
    BY <1>1, <1>2, MirrorWaits DEF CommandExit
  <1>3. CASE cmd.pc = "reindexed"
    <2> USE DEF MirrorInv
    <2>1. had' = {}
      BY <1>3 DEF CommandExit
    <2>2. \A n : Captioned(n)' = Captioned(n) /\ HasRow(n)' = HasRow(n)
      BY <1>1 DEF Captioned, HasRow
    <2>3. ASSUME NEW n \in DOMAIN messages, Captioned(n)
          PROVE  HasRow(n)
      <3>1. Recovered(n, messages[n]) \in Rows
        BY <1>3, <2>3 DEF RebuildInv, WalkExact, RecoveredOf
      <3> QED
        BY <3>1 DEF Rows, HasRow, Recovered
    <2>4. RowsMirrored' /\ HadKept' /\ CaptionsHeld'
      BY <1>1, <2>1, <2>2, <2>3 DEF RowsMirrored, RowMirrored, HadKept, CaptionsHeld, Kept, At
    <2>5. SlotsMirrored' /\ ListFromRows'
      BY <1>1 DEF SlotsMirrored, SlotMirrored, ListFromRows, FindByHash, Kept, Pending, At
    <2> QED
      BY <2>4, <2>5
  <1> QED
    BY <1>2, <1>3

LEMMA MirrorStep ==
    ASSUME Exclusive, ~MayFail, OneAtATime,
           AllTypeOK, RebuildInv, ReachInv, MirrorInv, [MaintenanceNext]_nuageVars
    PROVE  MirrorInv'
  <1>1. CASE ServeStep
    BY <1>1, NobodyServed, MirrorServe DEF RebuildInv, AllTypeOK
  <1>2. CASE ReindexReset
    <2>1. /\ AllIdle /\ cmd = NoCommand /\ cmd'.pc = "walk" /\ DOMAIN files' = {}
          /\ UNCHANGED <<messages, lastMessage, req>> /\ had' = RowsGone
      BY <1>2 DEF ReindexReset, BeginCommand, Reset, channelVars, engineVars
    <2> QED
      BY <2>1, MirrorEmptied
  <1>3. CASE LoseIndex
    <2>1. /\ AllIdle /\ cmd = NoCommand /\ cmd'.pc = "none" /\ DOMAIN files' = {}
          /\ UNCHANGED <<messages, lastMessage, req>> /\ had' = RowsGone
      BY <1>3 DEF LoseIndex, channelVars, NoCommand
    <2> QED
      BY <2>1, MirrorEmptied
  <1>4. CASE ReindexFetch
    <2>1. UNCHANGED <<files, messages, lastMessage, req, had>> /\ cmd.pc = "walk"
      BY <1>4 DEF ReindexFetch, vars
    <2>2. cmd'.pc \in {"walk", "reindexed"}
      BY <1>4 DEF ReindexFetch, Continue
    <2> QED
      BY <2>1, <2>2, MirrorWaits
  <1>5. CASE ReindexInsert \/ CaptionsEdit \/ CommandExit
    BY <1>5, MirrorRecovered, MirrorCaptions, MirrorExit
  <1>6. CASE CaptionsList
    <2>1. /\ UNCHANGED <<files, messages, lastMessage, req, had>>
          /\ cmd'.pc = "caption" /\ cmd'.todo = Rows
      BY <1>6 DEF CaptionsList, BeginCommand, vars
    <2> QED
      BY <2>1, MirrorWaits
  <1>7. CASE CaptionsDone
    <2>1. UNCHANGED <<files, messages, lastMessage, req, had>> /\ cmd'.pc = "captioned"
      BY <1>7 DEF CaptionsDone, Continue, vars
    <2> QED
      BY <2>1, MirrorWaits
  <1>8. CASE Settled \/ UNCHANGED nuageVars
    <2>1. UNCHANGED <<files, messages, lastMessage, req, had, cmd>>
      BY <1>8 DEF Settled, Quiescent, nuageVars, maintenanceVars, vars
    <2> QED
      BY <2>1, MirrorWaits DEF MirrorInv, ListFromRows
  <1>9. ~CommandFail
    BY DEF CommandFail
  <1> QED
    BY <1>1, <1>2, <1>3, <1>4, <1>5, <1>6, <1>7, <1>8, <1>9 DEF MaintenanceNext, CommandStep

LEMMA MirrorAlways ==
    ASSUME Exclusive, ~MayFail, OneAtATime
    PROVE  MaintenanceSpec => [](AllTypeOK /\ RebuildInv /\ ReachInv /\ MirrorInv)
  <1>1. MaintenanceInit => RebuildInv /\ ReachInv /\ MirrorInv
    BY RebuildInit, ReachInit, MirrorInit
  <1>2. /\ AllTypeOK /\ RebuildInv /\ ReachInv /\ MirrorInv
        /\ [MaintenanceNext]_nuageVars
        => RebuildInv' /\ ReachInv' /\ MirrorInv'
    BY RebuildStep, ReachStep, MirrorStep
  <1> QED
    BY <1>1, <1>2, AllTypesCorrect, PTL DEF MaintenanceSpec

\* "nuage reindex rebuilds it from scratch": rows that were lost with the
\* index, or wiped by a reindex, are back as they were when a reindex has
\* completed, whatever was uploaded, renamed, deleted and lost in between.
THEOREM RowsComeBack ==
    ASSUME Exclusive, ~MayFail, OneAtATime
    PROVE  MaintenanceSpec => []RowsRecovered
  <1>1. AllTypeOK /\ RebuildInv /\ MirrorInv => RowsRecovered
    <2> SUFFICES ASSUME AllTypeOK, RebuildInv, MirrorInv, cmd.pc = "reindexed",
                        NEW rec \in had, Captioned(rec.message_id)
                 PROVE  rec \in Rows
      BY DEF RowsRecovered
    <2> DEFINE m == rec.message_id
    <2>1. rec \in Record
      BY DEF AllTypeOK, MaintenanceTypeOK
    <2>2. messages[m].caption = EncodeFileMeta(rec)
      BY DEF MirrorInv, HadKept, LostKept, Kept
    <2>3. Recovered(m, messages[m]) \in Rows
      BY DEF RebuildInv, WalkExact, RecoveredOf, Captioned
    <2>4. Recovered(m, messages[m]) = rec
      BY <2>1, <2>2 DEF Recovered, EncodeFileMeta, Record
    <2> QED
      BY <2>3, <2>4
  <1> QED
    BY <1>1, MirrorAlways, PTL

\* Between requests and commands that do not overlap and do not fail, rows
\* and captioned messages correspond one to one and agree, once what was lost
\* with the index has been recovered.
THEOREM IndexMirrorsChannel ==
    ASSUME Exclusive, ~MayFail, OneAtATime
    PROVE  MaintenanceSpec => []IndexMirrored
  <1>1. MirrorInv => IndexMirrored
    <2> SUFFICES ASSUME MirrorInv, AllIdle, had = {}
                 PROVE  /\ \A i \in DOMAIN files : files[i].message_id \in DOMAIN messages
                        /\ \A n \in DOMAIN messages : Captioned(n) => \E i \in DOMAIN files :
                              /\ files[i].message_id = n
                              /\ messages[n].caption = EncodeFileMeta(files[i])
      BY DEF IndexMirrored
    <2>1. \A r \in Requests : req[r].pc = "idle"
      BY DEF AllIdle, At
    <2>2. \A i \in DOMAIN files :
             /\ files[i].message_id \in DOMAIN messages
             /\ Captioned(files[i].message_id) =>
                   messages[files[i].message_id].caption = EncodeFileMeta(files[i])
      BY <2>1 DEF MirrorInv, RowsMirrored, RowMirrored, Kept, At
    <2>3. \A n \in DOMAIN messages : Captioned(n) => HasRow(n)
      BY <2>1 DEF MirrorInv, CaptionsHeld, Pending, At
    <2> QED
      BY <2>2, <2>3 DEF HasRow
  <1> QED
    BY <1>1, MirrorAlways, PTL
=============================================================================
