----------------------------- MODULE Maintenance -----------------------------
(***************************************************************************)
(* Disaster recovery: "nuage reindex" (Engine.Reindex), which wipes the    *)
(* index and rebuilds it from the captions of the channel, and "nuage      *)
(* backfill-captions" (Engine.BackfillCaptions), which gives files from    *)
(* before captions existed theirs.  Each is a process of its own with its  *)
(* own engine on the same index.db and channel as the server, so the       *)
(* requests of Engine may run between any two of its steps.                *)
(***************************************************************************)
EXTENDS Engine, Sequences, FiniteSetsExt

CONSTANTS
    BatchSize,      \* messages fetched by one getHistory call
    MaxCommands,    \* bound: maintenance commands begun in a behaviour
    MaxLosses,      \* bound: how often index.db is lost
    Legacy,         \* contents uploaded before captions existed, oldest first
    LegacyPath,     \* where those uploads were put
    Exclusive       \* whether commands run only while nothing else does

ASSUME MaintenanceAssumption ==
    /\ BatchSize \in Nat \ {0}
    /\ MaxCommands \in Nat
    /\ MaxLosses \in Nat
    /\ Legacy \in Seq(Hashes)
    /\ \A i, j \in DOMAIN Legacy : Legacy[i] = Legacy[j] => i = j
    /\ LegacyPath \in Paths
    /\ Exclusive \in BOOLEAN

VARIABLES
    cmd,        \* the state of the maintenance command
    commands,   \* commands begun so far
    losses,     \* losses of index.db so far
    had         \* history: per message, the row it had when the index was last lost or reset

bounds == <<commands, losses>>
maintenanceVars == <<cmd, bounds, had>>
nuageVars == <<vars, maintenanceVars>>

NoCommand == [pc |-> "none"]

\* "batch" maps the ids of the fetched messages still to be handled to what
\* they were when fetched, "offset" is the oldest id fetched, 0 before the
\* first page; "todo" is what remains of the listing.
MaintenanceTypeOK ==
    /\ cmd.pc \in {"none", "walk", "caption", "reindexed", "captioned", "aborted"}
    /\ cmd.pc = "walk" =>
          /\ cmd.offset \in 0..lastMessage
          /\ cmd.offset = 0 => DOMAIN cmd.batch = {}
          /\ DOMAIN cmd.batch \subseteq cmd.offset..lastMessage
          /\ \A m \in DOMAIN cmd.batch : cmd.batch[m] \in Message
    /\ cmd.pc = "caption" => cmd.todo \subseteq Record
    /\ commands \in 0..MaxCommands
    /\ losses \in 0..MaxLosses
    /\ had \subseteq Record

Rows == {files[i] : i \in DOMAIN files}

\* What is gone when the index is lost or reset: the rows of now and, for
\* messages that have none, those of before.
RowsGone == Rows \cup {rec \in had : \A row \in Rows : row.message_id # rec.message_id}

\* The index of an installation that predates profiles and captions.
LegacyInit ==
    /\ files = [i \in DOMAIN Legacy |->
                  [path |-> LegacyPath, filename |-> Base(LegacyPath),
                   owner |-> NoOwner, hash |-> Legacy[i], message_id |-> i]]
    /\ lastId = Len(Legacy)
    /\ messages = [m \in DOMAIN Legacy |->
                     [document |-> Legacy[m], caption |-> NoMeta]]
    /\ lastMessage = Len(Legacy)

MaintenanceInit ==
    /\ LegacyInit
    /\ req = [r \in Requests |-> Idle]
    /\ started = 0
    /\ deleting = {}
    /\ cmd = NoCommand
    /\ commands = 0
    /\ losses = 0
    /\ had = {}

BeginCommand(state) ==
    /\ cmd = NoCommand
    /\ Exclusive => AllIdle
    /\ commands < MaxCommands
    /\ commands' = commands + 1
    /\ cmd' = state
    /\ UNCHANGED losses

Continue(state) == cmd' = state /\ UNCHANGED bounds

-----------------------------------------------------------------------------
(* nuage reindex *)

\* Wipe the index; nothing is fetched yet.
ReindexReset ==
    /\ BeginCommand([pc |-> "walk", offset |-> 0, batch |-> [m \in {} |-> {}]])
    /\ Reset
    /\ had' = RowsGone
    /\ UNCHANGED <<channelVars, engineVars>>

\* The newest BatchSize messages below an offset; 0 stands for no offset.
Batch(offset) ==
    LET older == {m \in DOMAIN messages : offset = 0 \/ m < offset}
    IN  {m \in older : Cardinality({n \in older : n > m}) < BatchSize}

\* Faulty variant: the offset stays where it was.
ReindexFetchInPlace ==
    /\ cmd.pc = "walk" /\ DOMAIN cmd.batch = {}
    /\ LET page == Batch(cmd.offset) IN
       \/ /\ page # {}
          /\ Continue([cmd EXCEPT !.batch = Restrict(messages, page)])
       \/ /\ page = {}
          /\ Continue([pc |-> "reindexed"])
    /\ UNCHANGED <<vars, had>>

\* The iterator has used up its page and fetches the next one, or is done.
ReindexFetch ==
    /\ cmd.pc = "walk" /\ DOMAIN cmd.batch = {}
    /\ LET page == Batch(cmd.offset) IN
       \/ /\ page # {}
          /\ Continue([pc |-> "walk", offset |-> Min(page),
                       batch |-> Restrict(messages, page)])
       \/ /\ page = {}
          /\ Continue([pc |-> "reindexed"])
    /\ UNCHANGED <<vars, had>>

\* Faulty variant: the id of the page is taken for that of the message.
RecoveredAtOffset(m, msg) ==
    [path |-> msg.caption.path, filename |-> msg.caption.filename,
     owner |-> msg.caption.owner, hash |-> msg.caption.hash,
     message_id |-> cmd.offset]

\* What Reindex recovers from a message with a recognized caption.
Recovered(m, msg) ==
    [path |-> msg.caption.path, filename |-> msg.caption.filename,
     owner |-> msg.caption.owner, hash |-> msg.caption.hash, message_id |-> m]

\* Faulty variant: a message the index rejects is passed over.
ReindexInsertSkipping ==
    /\ cmd.pc = "walk" /\ DOMAIN cmd.batch # {}
    /\ LET m == Max(DOMAIN cmd.batch)
           msg == cmd.batch[m]
       IN  /\ \/ msg.caption = NoMeta /\ UNCHANGED indexVars
              \/ /\ msg.caption # NoMeta
                 /\ Insert(Recovered(m, msg)) \/ InsertRejected(Recovered(m, msg))
           /\ Continue([cmd EXCEPT !.batch = Restrict(@, DOMAIN @ \ {m})])
    /\ UNCHANGED <<channelVars, engineVars, had>>

\* The callback of the walk: skip what decodeFileMeta does not recognize,
\* insert the rest; a rejected insertion ends the walk.
ReindexInsert ==
    /\ cmd.pc = "walk" /\ DOMAIN cmd.batch # {}
    /\ LET m == Max(DOMAIN cmd.batch)
           msg == cmd.batch[m]
           rest == [pc |-> "walk", offset |-> cmd.offset,
                    batch |-> Restrict(cmd.batch, DOMAIN cmd.batch \ {m})]
       IN  \/ /\ msg.caption = NoMeta
              /\ Continue(rest)
              /\ UNCHANGED indexVars
           \/ /\ msg.caption # NoMeta
              /\ Insert(Recovered(m, msg))
              /\ Continue(rest)
           \/ /\ msg.caption # NoMeta
              /\ InsertRejected(Recovered(m, msg))
              /\ Continue([pc |-> "aborted"])
    /\ UNCHANGED <<channelVars, engineVars, had>>

-----------------------------------------------------------------------------
(* nuage backfill-captions *)

CaptionsList ==
    /\ BeginCommand([pc |-> "caption", todo |-> Rows])
    /\ UNCHANGED <<vars, had>>

\* Newest first in the code; the order only matters for how far an aborted
\* run gets, and ties are possible, so any order is allowed here.
CaptionsEdit ==
    /\ cmd.pc = "caption"
    /\ \E rec \in cmd.todo :
         \/ /\ EditCaption(rec.message_id, EncodeFileMeta(rec))
            /\ Continue([pc |-> "caption", todo |-> cmd.todo \ {rec}])
         \/ /\ EditRejected(rec.message_id, EncodeFileMeta(rec))
            /\ Continue([pc |-> "aborted"])
    /\ UNCHANGED <<indexVars, engineVars, had>>

CaptionsDone ==
    /\ cmd.pc = "caption" /\ cmd.todo = {}
    /\ Continue([pc |-> "captioned"])
    /\ UNCHANGED <<vars, had>>

-----------------------------------------------------------------------------

\* The command prints its count or error and exits.
CommandExit ==
    /\ cmd.pc \in {"reindexed", "captioned", "aborted"}
    /\ Continue(NoCommand)
    /\ had' = IF cmd.pc = "reindexed" THEN {} ELSE had
    /\ UNCHANGED vars

\* An error from SQLite or Telegram, an interrupt, or a crash.
CommandFail ==
    /\ MayFail
    /\ cmd.pc \in {"walk", "caption"}
    /\ Continue([pc |-> "aborted"])
    /\ UNCHANGED <<vars, had>>

\* index.db is lost or the installation moves to a new machine, where the
\* index starts out empty and numbers its rows from 1 again.
LoseIndex ==
    /\ losses < MaxLosses
    /\ AllIdle
    /\ cmd = NoCommand
    /\ losses' = losses + 1
    /\ files' = [i \in {} |-> {}]
    /\ lastId' = 0
    /\ deleting' = {}
    /\ had' = RowsGone
    /\ UNCHANGED <<channelVars, req, started, cmd, commands>>

CommandStep ==
    \/ ReindexFetch \/ ReindexInsert
    \/ CaptionsEdit \/ CaptionsDone
    \/ CommandExit

ServeStep ==
    /\ \E r \in Requests :
        \/ /\ Exclusive => cmd = NoCommand
           /\ Issue(r)
        \/ Proceed(r)
        \/ Fail(r)
    /\ UNCHANGED maintenanceVars

\* Nothing is in flight and every bound is used up.
Settled ==
    /\ cmd = NoCommand
    /\ commands = MaxCommands
    /\ Quiescent
    /\ UNCHANGED maintenanceVars

MaintenanceNext ==
    \/ ReindexReset \/ CaptionsList
    \/ CommandStep
    \/ CommandFail
    \/ LoseIndex
    \/ ServeStep
    \/ Settled

MaintenanceSpec == MaintenanceInit /\ [][MaintenanceNext]_nuageVars

\* A command that runs is scheduled, and its calls return.
FairMaintenanceSpec == MaintenanceSpec /\ WF_nuageVars(CommandStep)

-----------------------------------------------------------------------------
(* Properties *)

AllTypeOK == TypeOK /\ MaintenanceTypeOK

Captioned(m) == m \in DOMAIN messages /\ messages[m].caption # NoMeta

\* After a successful reindex the index is the channel: one row for every
\* captioned document, with the caption's data, and no row for anything
\* else, however aborted uploads, renamings and deletions left the two before.
RebuildExact ==
    cmd.pc = "reindexed" /\ Exclusive =>
        Rows = {Recovered(m, messages[m]) : m \in {n \in DOMAIN messages : Captioned(n)}}

\* "nuage reindex rebuilds it from scratch": rows that were in the index when
\* it was lost or reset come back as they were if their message has a caption.
RowsRecovered ==
    cmd.pc = "reindexed" =>
        \A rec \in had : Captioned(rec.message_id) => rec \in Rows

\* Requests and commands that run one at a time and do not fail keep index
\* and channel in one-to-one correspondence: every row has its message, every
\* captioned message its row, and captions agree.  The index may be lost; the
\* correspondence is back when a reindex has completed.
IndexMirrored ==
    AllIdle /\ cmd = NoCommand /\ had = {} =>
        /\ \A i \in DOMAIN files : files[i].message_id \in DOMAIN messages
        /\ \A m \in DOMAIN messages : Captioned(m) => \E i \in DOMAIN files :
                /\ files[i].message_id = m
                /\ messages[m].caption = EncodeFileMeta(files[i])

\* A row nobody asked to delete has its document in the channel.
RowsReachable ==
    \A i \in DOMAIN files \ deleting :
        /\ files[i].message_id \in DOMAIN messages
        /\ messages[files[i].message_id].document = files[i].hash

\* A caption never claims another content than that of its document, so a
\* recovered row serves what it says and deduplicates what it holds.
CaptionsTruthful ==
    \A m \in DOMAIN messages :
        Captioned(m) => messages[m].caption.hash = messages[m].document

\* The rebuild is never refused by the index it rebuilds.
ReindexCompletes == [][cmd.pc = "walk" => cmd'.pc # "aborted"]_nuageVars

\* The walk ends although uploads may add messages while it runs.
WalkEnds == cmd.pc = "walk" ~> cmd.pc # "walk"
=============================================================================
